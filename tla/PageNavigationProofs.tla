------------------------ MODULE PageNavigationProofs --------------------------
(***************************************************************************)
(* What holds of navigation on a page for all places, limits and bounds,   *)
(* however the app's moves and the operator's race: its typing, where the  *)
(* app and the browser agree, and where the app's own moves land.          *)
(***************************************************************************)
EXTENDS PageNavigation, ChangeRateProofs

Ways == {"back", "forward"}

TabEntries == [index: Indexes, address: Addresses]

Changes == [move: {"push", "replace", "back", "forward"},
            index: Indexes, address: Places]

Asked == [direction: {"back", "forward"}, by: {"app", "operator"}, target: Indexes]

\* The browser's side of TypeOK.
PageTyped ==
  /\ tab \in Seq(TabEntries)
  /\ at \in 0 .. Len(tab)
  /\ pageIndex \in Indexes
  /\ toPage \in Seq(Changes)
  /\ traversals \in Seq(Asked)
  /\ toApp \in Seq(Reports)
  /\ operated \in 0 .. MaxOperated /\ typed \in BOOLEAN

\* The queues between the screen, the interpreter's thread and the script.
QueuesTyped ==
  /\ reports \in Seq(Reports)
  /\ events \in Seq(Events)
  /\ call \in Calls \cup {"idle", "arriving"}

TypedInv ==
  /\ HistoryTypeOK /\ RateInv /\ QueuesTyped /\ PageTyped
  /\ crossed \in {"never", "now", "before"}

-----------------------------------------------------------------------------
(***************************************************************************)
(* What a queue's first message is and what taking it leaves.              *)
(***************************************************************************)
LEMMA TakingAMessage ==
  ASSUME NEW S, NEW s \in Seq(S), s # <<>>
  PROVE  /\ Head(s) \in S /\ Head(s) = s[1] /\ Len(s) \in Nat \ {0}
         /\ Tail(s) \in Seq(S) /\ Len(Tail(s)) = Len(s) - 1
OBVIOUS

LEMMA AddingAMessage ==
  ASSUME NEW S, NEW s \in Seq(S), NEW m \in S
  PROVE  /\ Append(s, m) \in Seq(S) /\ Len(Append(s, m)) = Len(s) + 1
         /\ \A k \in 1 .. Len(s) : Append(s, m)[k] = s[k]
         /\ Append(s, m)[Len(s) + 1] = m
OBVIOUS

LEMMA ChangingAnElement ==
  ASSUME NEW S, NEW s \in Seq(S), NEW k, NEW m \in S
  PROVE  /\ [s EXCEPT ![k] = m] \in Seq(S)
         /\ Len([s EXCEPT ![k] = m]) = Len(s)
         /\ k \in 1 .. Len(s) => [s EXCEPT ![k] = m][k] = m
         /\ \A j \in 1 .. Len(s) : j # k => [s EXCEPT ![k] = m][j] = s[j]
<1>1. Len(s) \in Nat /\ s \in [1 .. Len(s) -> S]
  OBVIOUS
<1>2. [s EXCEPT ![k] = m] \in [1 .. Len(s) -> S]
  BY <1>1
<1> QED
  BY <1>1, <1>2

LEMMA IndexesAreNumbers ==
  /\ LastIndex \in Nat /\ LastIndex >= 1
  /\ Indexes \subseteq Nat /\ 0 \in Indexes /\ 1 \in Indexes
BY HistoryAssumption, PageAssumption DEF Indexes

LEMMA PlacesAreAddresses ==
  /\ Start \in Places /\ Places \subseteq Addresses
  /\ \A address : Read(address) \in Places
  /\ \A address \in Places : Read(address) = address
BY HistoryAssumption DEF Addresses, Read

LEMMA EntriesArePlaces ==
  ASSUME HistoryTypeOK
  PROVE  \A i : EntryAt(i) \in Places
BY HistoryAssumption DEF HistoryTypeOK, EntryAt

LEMMA StartsAndArrivals ==
  ASSUME NEW i \in Indexes, NEW a \in Addresses
  PROVE  /\ Started(i, a) \in Reports /\ Arrived(i, a) \in Reports
         /\ Started(i, a).kind = "start" /\ Arrived(i, a).kind = "arrival"
         /\ Started(i, a).index = i /\ Arrived(i, a).index = i
         /\ Started(i, a).address = a /\ Arrived(i, a).address = a
BY DEF Reports, Started, Arrived

LEMMA ReportsHaveTheirParts ==
  ASSUME NEW report \in Reports, report.kind \in {"start", "arrival"}
  PROVE  report.index \in Indexes /\ report.address \in Addresses
BY DEF Reports, Started, Arrived, Requested

(***************************************************************************)
(* A target handed out is an index the history may have.                   *)
(***************************************************************************)
LEMMA TargetsAreIndexes ==
  ASSUME HistoryTypeOK, NEW d \in Ways, HasTarget(d)
  PROVE  Target(d) \in Indexes
<1>1. position \in Nat /\ position <= LastIndex
  BY IndexesAreNumbers DEF HistoryTypeOK, Indexes
<1>2. CASE d = "back"
  BY <1>1, <1>2, IndexesAreNumbers DEF HasTarget, HasBack, Target, Indexes
<1>3. CASE d = "forward"
  BY <1>3 DEF HasTarget, HasForward, Target, HistoryTypeOK
<1> QED
  BY <1>2, <1>3 DEF Ways

-----------------------------------------------------------------------------
(***************************************************************************)
(* Each change of the history leaves it well typed.                        *)
(***************************************************************************)
LEMMA PutEntriesAreTyped ==
  ASSUME HistoryTypeOK, NEW i \in Indexes, NEW place \in Places,
         entries' = With(i, place), position' \in Indexes,
         UNCHANGED <<usedByApp, refusedAddress>> \/ usedByApp' = TRUE,
         UNCHANGED refusedAddress
  PROVE  HistoryTypeOK'
<1>1. entries' = [j \in DOMAIN entries \cup {i} |->
                    IF j = i THEN place ELSE entries[j]]
  BY DEF With
<1>2. DOMAIN entries' \subseteq Indexes /\ entries' \in [DOMAIN entries' -> Places]
  BY <1>1 DEF HistoryTypeOK
<1> QED
  BY <1>2 DEF HistoryTypeOK

LEMMA ArrivalsAreTyped ==
  ASSUME HistoryTypeOK, events \in Seq(Events),
         NEW i \in Indexes, NEW place \in Places, Arrive(i, place)
  PROVE  HistoryTypeOK' /\ events' \in Seq(Events)
<1>1. HistoryTypeOK'
  BY PutEntriesAreTyped DEF Arrive, ArriveAt
<1>2. CASE ~usedByApp \/ Direction(i) = "none"
  BY <1>1, <1>2 DEF Arrive
<1>3. CASE ~(~usedByApp \/ Direction(i) = "none")
  <2>1. [direction |-> Direction(i), place |-> place] \in Events
    BY <1>3 DEF Direction, Events
  <2>2. events' = Append(events, [direction |-> Direction(i), place |-> place])
    BY <1>3 DEF Arrive
  <2> QED
    BY <1>1, <2>1, <2>2, AddingAMessage
<1> QED
  BY <1>2, <1>3

LEMMA StartsAreTyped ==
  ASSUME HistoryTypeOK, NEW i \in Indexes, NEW a \in Addresses, StartAt(i, a)
  PROVE  HistoryTypeOK'
<1>1. /\ entries' = [j \in {i} |-> Read(a)] /\ position' = i
      /\ refusedAddress' = IF a \in Places THEN NoAddress ELSE a
      /\ usedByApp' = usedByApp
  BY DEF StartAt
<1>2. Read(a) \in Places
  BY PlacesAreAddresses
<1>3. refusedAddress' \in Unreadable \cup {NoAddress}
  BY <1>1 DEF Addresses
<1> QED
  BY <1>1, <1>2, <1>3 DEF HistoryTypeOK

LEMMA AdvancesAreTyped ==
  ASSUME HistoryTypeOK, NEW place \in Places, Advance(place), usedByApp' = TRUE
  PROVE  /\ HistoryTypeOK'
         /\ position' = position + 1
         /\ DOMAIN entries' = {i \in DOMAIN entries : i <= position}
                                \cup {position + 1}
         /\ entries'[position + 1] = place
         /\ \A i \in DOMAIN entries : i <= position => entries'[i] = entries[i]
<1>1. position \in Nat /\ position < LastIndex /\ position' = position + 1
  BY IndexesAreNumbers DEF HistoryTypeOK, Advance
<1> DEFINE kept == {i \in DOMAIN entries : i <= position}
<1>2. /\ entries' = [j \in kept \cup {position + 1} |->
                       IF j = position + 1 THEN place
                       ELSE Restrict(entries, kept)[j]]
      /\ UNCHANGED refusedAddress
  BY DEF Advance, KeptOnGoing, Restrict
<1>3. position' \in Indexes
  BY <1>1, IndexesAreNumbers DEF Indexes
<1>4. \A i \in kept : i # position + 1 /\ entries[i] \in Places
  BY <1>1, IndexesAreNumbers DEF HistoryTypeOK
<1>5. \A i \in kept : entries'[i] = entries[i]
  BY <1>2, <1>4 DEF Restrict
<1>6. entries'[position + 1] = place /\ DOMAIN entries' = kept \cup {position + 1}
  BY <1>2
<1>7. entries' \in [DOMAIN entries' -> Places]
  <2>1. entries' = [j \in DOMAIN entries' |-> entries'[j]]
    BY <1>2
  <2>2. \A j \in DOMAIN entries' : entries'[j] \in Places
    BY <1>4, <1>5, <1>6
  <2> QED
    BY <2>1, <2>2
<1>8. DOMAIN entries' \subseteq Indexes
  BY <1>1, <1>3, <1>6 DEF HistoryTypeOK
<1> QED
  BY <1>1, <1>2, <1>3, <1>5, <1>6, <1>7, <1>8 DEF HistoryTypeOK

LEMMA SameHistoryIsTyped ==
  ASSUME HistoryTypeOK, UNCHANGED <<entries, position, refusedAddress>>,
         usedByApp' \in BOOLEAN
  PROVE  HistoryTypeOK'
BY DEF HistoryTypeOK

LEMMA SamePageIsTyped ==
  ASSUME PageTyped, UNCHANGED <<tab, at, pageIndex, traversals, toApp, operated, typed>>,
         toPage' \in Seq(Changes)
  PROVE  PageTyped'
BY DEF PageTyped

-----------------------------------------------------------------------------
(***************************************************************************)
(* As far as the limit on changes can tell, every step on a page is one of *)
(* its own or none (Navigation's calls of History.countChange).            *)
(***************************************************************************)
LEMMA StepsAreRateSteps ==
  ASSUME [Next]_vars
  PROVE  [RateNext]_rateVars
<1>1. ASSUME NEW p \in Places, PageGoTo(p) \/ PageReplace(p)
      PROVE  [RateNext]_rateVars
  BY <1>1
  DEF PageGoTo, PageReplace, GoTo, Replace, Stay, Refused, Advance, Rewrite, RateNext
<1>2. ASSUME NEW d \in Ways, PageGoBackOrForward(d) \/ PressButton(d)
      PROVE  [RateNext]_rateVars
  BY <1>2
  DEF PageGoBackOrForward, PressButton, navigationVars, AskPort, MoveNowhere,
      CountTarget, Refused, RateNext
<1>3. CASE AppAlone
  BY <1>3
  DEF AppAlone, Begin, TakeStart, TakeArrival, Taking, QuietCall, FinishMove,
      CurrentPlace, AcceptNextEvent, AcceptPendingReports
<1>4. CASE Carrying
  BY <1>4 DEF Carrying, TakeChange, Traverse, Deliver, navigationVars
<1>5. ASSUME NEW a \in Addresses, TypeAddress(a)
      PROVE  [RateNext]_rateVars
  BY <1>5 DEF TypeAddress, navigationVars
<1>6. CASE Reload
  BY <1>6 DEF Reload, navigationVars
<1>7. CASE UNCHANGED vars
  BY <1>7 DEF vars, navigationVars
<1> QED
  BY <1>1, <1>2, <1>3, <1>4, <1>5, <1>6, <1>7 DEF Next, Operates, Ways

(***************************************************************************)
(* Typing, action by action, the limit on changes aside.                   *)
(***************************************************************************)
LEMMA GoingIsTyped ==
  ASSUME TypedInv, NEW p \in Places, PageGoTo(p)
  PROVE  HistoryTypeOK' /\ QueuesTyped' /\ PageTyped'
<1>1. /\ call' = "idle" /\ UNCHANGED <<reports, events>> /\ usedByApp' = TRUE
  BY DEF PageGoTo, GoTo, Returns
<1>2. HistoryTypeOK'
  <2>1. CASE Stay(p) \/ Refused
    BY <1>1, <2>1, SameHistoryIsTyped DEF Stay, Refused, TypedInv
  <2>2. CASE Advance(p)
    BY <1>1, <2>2, AdvancesAreTyped DEF TypedInv
  <2> QED
    BY <2>1, <2>2 DEF PageGoTo, GoTo
<1>3. toPage' \in Seq(Changes)
  <2>1. CASE toPage' = toPage
    BY <2>1 DEF TypedInv, PageTyped
  <2>2. CASE Tell("push", position', p)
    <3>1. [move |-> "push", index |-> position', address |-> p] \in Changes
      BY <1>2 DEF HistoryTypeOK, Changes
    <3> QED
      BY <2>2, <3>1, AddingAMessage DEF Tell, TypedInv, PageTyped
  <2> QED
    BY <2>1, <2>2 DEF PageGoTo
<1> QED
  BY <1>1, <1>2, <1>3, SamePageIsTyped DEF PageGoTo, TypedInv, QueuesTyped

LEMMA ReplacingIsTyped ==
  ASSUME TypedInv, NEW p \in Places, PageReplace(p)
  PROVE  HistoryTypeOK' /\ QueuesTyped' /\ PageTyped'
<1>1. /\ call' = "idle" /\ UNCHANGED <<reports, events>> /\ usedByApp' = TRUE
  BY DEF PageReplace, Replace, Returns
<1>2. position \in Indexes
  BY DEF TypedInv, HistoryTypeOK
<1>3. HistoryTypeOK'
  <2>1. CASE Refused
    BY <1>1, <2>1, SameHistoryIsTyped DEF Refused, TypedInv
  <2>2. CASE Rewrite(p)
    BY <1>1, <1>2, <2>2, PutEntriesAreTyped DEF Rewrite, TypedInv
  <2> QED
    BY <2>1, <2>2 DEF PageReplace, Replace
<1>4. toPage' \in Seq(Changes)
  <2>1. CASE toPage' = toPage
    BY <2>1 DEF TypedInv, PageTyped
  <2>2. CASE Tell("replace", position, p)
    <3>1. [move |-> "replace", index |-> position, address |-> p] \in Changes
      BY <1>2 DEF Changes
    <3> QED
      BY <2>2, <3>1, AddingAMessage DEF Tell, TypedInv, PageTyped
  <2> QED
    BY <2>1, <2>2 DEF PageReplace
<1> QED
  BY <1>1, <1>3, <1>4, SamePageIsTyped DEF PageReplace, TypedInv, QueuesTyped

LEMMA AskingIsTyped ==
  ASSUME TypedInv, NEW d \in Ways, PageGoBackOrForward(d)
  PROVE  HistoryTypeOK' /\ QueuesTyped' /\ PageTyped'
<1>1. /\ call' \in {"idle", "arriving"} /\ UNCHANGED <<reports, events>>
      /\ usedByApp' = TRUE /\ UNCHANGED <<entries, position, refusedAddress>>
  BY DEF PageGoBackOrForward, AskPort, MoveNowhere, Returns, CountTarget, Refused
<1>2. HistoryTypeOK'
  BY <1>1, SameHistoryIsTyped DEF TypedInv
<1>3. toPage' \in Seq(Changes)
  <2>1. CASE toPage' = toPage
    BY <2>1 DEF TypedInv, PageTyped
  <2>2. CASE HasTarget(d) /\ Tell(d, Target(d), EntryAt(Target(d)))
    <3>1. Target(d) \in Indexes /\ EntryAt(Target(d)) \in Places
      BY <2>2, TargetsAreIndexes, EntriesArePlaces DEF TypedInv
    <3>2. [move |-> d, index |-> Target(d), address |-> EntryAt(Target(d))] \in Changes
      BY <3>1 DEF Changes, Ways
    <3> QED
      BY <2>2, <3>2, AddingAMessage DEF Tell, TypedInv, PageTyped
  <2> QED
    BY <2>1, <2>2 DEF PageGoBackOrForward, AskPort
<1> QED
  BY <1>1, <1>2, <1>3, SamePageIsTyped DEF PageGoBackOrForward, TypedInv, QueuesTyped

(***************************************************************************)
(* What a call takes is a start or an arrival: nobody requests on a page   *)
(* through the interpreter's queue.                                        *)
(***************************************************************************)
LEMMA TakingIsTyped ==
  ASSUME TypedInv, TakeStart \/ TakeArrival
  PROVE  HistoryTypeOK' /\ QueuesTyped'
<1>1. /\ reports # <<>> /\ reports' = Tail(reports) /\ call' = call
      /\ Head(reports).kind \in {"start", "arrival"}
  BY DEF TakeStart, TakeArrival, Taking
<1>2. Head(reports) \in Reports /\ reports' \in Seq(Reports)
  BY <1>1, TakingAMessage DEF TypedInv, QueuesTyped
<1>3. Head(reports).index \in Indexes /\ Head(reports).address \in Addresses
  BY <1>1, <1>2, ReportsHaveTheirParts
<1>4. HistoryTypeOK' /\ events' \in Seq(Events)
  <2>1. CASE TakeStart
    BY <1>3, <2>1, StartsAreTyped DEF TakeStart, TypedInv, QueuesTyped
  <2>2. CASE TakeArrival
    BY <1>3, <2>2, ArrivalsAreTyped, PlacesAreAddresses
    DEF TakeArrival, TypedInv, QueuesTyped
  <2> QED
    BY <2>1, <2>2
<1> QED
  BY <1>1, <1>2, <1>4 DEF TypedInv, QueuesTyped

LEMMA QuietCallsAreTyped ==
  ASSUME TypedInv, QuietCall
  PROVE  HistoryTypeOK' /\ QueuesTyped'
<1>1. /\ UNCHANGED <<entries, position, refusedAddress, reports>>
      /\ call' = "idle" /\ usedByApp' \in BOOLEAN
  BY DEF QuietCall, FinishMove, CurrentPlace, AcceptNextEvent, Returns,
         AcceptPendingReports, historyVars, TypedInv, HistoryTypeOK
<1>2. events' = events \/ events' = <<>> \/ (events # <<>> /\ events' = Tail(events))
  BY DEF QuietCall, FinishMove, CurrentPlace, AcceptNextEvent, AcceptPendingReports
<1>3. events' \in Seq(Events)
  <2>1. <<>> \in Seq(Events)
    OBVIOUS
  <2> QED
    BY <1>2, <2>1, TakingAMessage DEF TypedInv, QueuesTyped
<1> QED
  BY <1>1, <1>3, SameHistoryIsTyped DEF TypedInv, QueuesTyped

LEMMA AppAloneIsTyped ==
  ASSUME TypedInv, AppAlone
  PROVE  HistoryTypeOK' /\ QueuesTyped' /\ PageTyped'
<1>1. PageTyped'
  BY DEF AppAlone, pageVars, TypedInv, PageTyped
<1>2. ASSUME NEW c \in Calls, Begin(c)
      PROVE  HistoryTypeOK' /\ QueuesTyped'
  BY <1>2 DEF Begin, historyVars, TypedInv, HistoryTypeOK, QueuesTyped
<1>3. CASE TakeStart \/ TakeArrival
  BY <1>1, <1>3, TakingIsTyped
<1>4. CASE QuietCall
  BY <1>1, <1>4, QuietCallsAreTyped
<1> QED
  BY <1>1, <1>2, <1>3, <1>4 DEF AppAlone

LEMMA SameNavigationIsTyped ==
  ASSUME TypedInv, UNCHANGED navigationVars
  PROVE  HistoryTypeOK' /\ QueuesTyped'
BY DEF TypedInv, navigationVars, historyVars, HistoryTypeOK, QueuesTyped

(***************************************************************************)
(* The entries up to the shown one, and one more.                          *)
(***************************************************************************)
LEMMA PushedTabs ==
  ASSUME PageTyped, Shown, NEW e \in TabEntries
  PROVE  LET pushed == Append(SubSeq(tab, 1, at), e)
         IN  /\ at \in 1 .. Len(tab) /\ Len(tab) \in Nat
             /\ pushed \in Seq(TabEntries) /\ Len(pushed) = at + 1
             /\ \A k \in 1 .. at : pushed[k] = tab[k]
             /\ pushed[at + 1] = e
<1>1. at \in 1 .. Len(tab) /\ Len(tab) \in Nat /\ tab \in Seq(TabEntries)
  BY DEF PageTyped, Shown
<1> DEFINE kept == SubSeq(tab, 1, at)
<1>2. /\ kept \in Seq(TabEntries) /\ Len(kept) = at
      /\ \A k \in 1 .. at : kept[k] = tab[k]
  BY <1>1
<1> HIDE DEF kept
<1>3. /\ Append(kept, e) \in Seq(TabEntries) /\ Len(Append(kept, e)) = at + 1
      /\ \A k \in 1 .. at : Append(kept, e)[k] = tab[k]
      /\ Append(kept, e)[at + 1] = e
  BY <1>1, <1>2, AddingAMessage
<1> QED
  BY <1>1, <1>3 DEF kept

LEMMA ShownEntriesAreTyped ==
  ASSUME PageTyped
  PROVE  /\ Len(tab) \in Nat /\ at \in Nat /\ at <= Len(tab)
         /\ DOMAIN tab = 1 .. Len(tab)
         /\ \A k \in DOMAIN tab :
              tab[k] \in TabEntries /\ tab[k].index \in Indexes /\ tab[k].address \in Addresses
         /\ Shown => at \in DOMAIN tab
<1>1. /\ tab \in Seq(TabEntries) /\ at \in 0 .. Len(tab)
  BY DEF PageTyped
<1>2. Len(tab) \in Nat /\ DOMAIN tab = 1 .. Len(tab) /\ \A k \in DOMAIN tab : tab[k] \in TabEntries
  BY <1>1
<1> QED
  BY <1>1, <1>2 DEF TabEntries, Shown

LEMMA ChangesAreTyped ==
  ASSUME TypedInv, TakeChange
  PROVE  HistoryTypeOK' /\ QueuesTyped' /\ PageTyped'
<1> DEFINE m == Head(toPage)
<1>1. /\ Shown /\ toPage # <<>> /\ toPage' = Tail(toPage)
      /\ UNCHANGED <<navigationVars, toApp, operated, typed>>
  BY DEF TakeChange
<1>2. m \in Changes /\ toPage' \in Seq(Changes)
  BY <1>1, TakingAMessage DEF TypedInv, PageTyped
<1>3. m.index \in Indexes /\ m.address \in Addresses /\ m.move \in {"push", "replace", "back", "forward"}
  BY <1>2, PlacesAreAddresses DEF Changes
<1>4. Entry(m.index, m.address) \in TabEntries
  BY <1>3 DEF Entry, TabEntries
<1>5. PageTyped
  BY DEF TypedInv
<1> HIDE DEF m
<1>6. CASE TakePush
  <2>1. /\ tab' = Append(SubSeq(tab, 1, at), Entry(m.index, m.address))
        /\ at' = at + 1 /\ pageIndex' = m.index /\ traversals' = traversals
    BY <1>6 DEF TakePush, m
  <2>2. tab' \in Seq(TabEntries) /\ Len(tab') = at + 1 /\ at \in Nat
    BY <1>1, <1>4, <1>5, <2>1, PushedTabs
  <2>3. at' \in 0 .. Len(tab')
    BY <2>1, <2>2
  <2> QED
    BY <1>1, <1>2, <1>3, <1>5, <2>1, <2>2, <2>3, SameNavigationIsTyped DEF PageTyped
<1>7. CASE TakeReplace
  <2>1. /\ tab' = [tab EXCEPT ![at] = Entry(m.index, m.address)]
        /\ pageIndex' = m.index /\ UNCHANGED <<at, traversals>>
    BY <1>7 DEF TakeReplace, m
  <2>2. tab \in Seq(TabEntries)
    BY <1>5 DEF PageTyped
  <2>3. tab' \in Seq(TabEntries) /\ Len(tab') = Len(tab)
    BY <1>4, <2>1, <2>2, ChangingAnElement
  <2> QED
    BY <1>1, <1>2, <1>3, <1>5, <2>1, <2>3, SameNavigationIsTyped DEF PageTyped
<1>8. CASE TakeMove
  <2>1. /\ traversals' = Append(traversals, [direction |-> m.move, by |-> "app",
                                              target |-> m.index])
        /\ m.move \in {"back", "forward"} /\ UNCHANGED <<tab, at, pageIndex>>
    BY <1>8 DEF TakeMove, m
  <2>2. [direction |-> m.move, by |-> "app", target |-> m.index] \in Asked
    BY <1>3, <2>1 DEF Asked
  <2>3. traversals' \in Seq(Asked)
    BY <1>5, <2>1, <2>2, AddingAMessage DEF PageTyped
  <2> QED
    BY <1>1, <1>2, <1>5, <2>1, <2>3, SameNavigationIsTyped DEF PageTyped
<1> QED
  BY <1>6, <1>7, <1>8 DEF TakeChange

LEMMA TraversalsAreTyped ==
  ASSUME TypedInv, Traverse
  PROVE  HistoryTypeOK' /\ QueuesTyped' /\ PageTyped'
<1>1. /\ traversals # <<>> /\ traversals' = Tail(traversals)
      /\ UNCHANGED <<navigationVars, tab, toPage, operated, typed>>
  BY DEF Traverse
<1>2. traversals' \in Seq(Asked) /\ PageTyped
  BY <1>1, TakingAMessage DEF TypedInv, PageTyped
<1>3. CASE TraverseTo
  <2>1. /\ Reached \in DOMAIN tab /\ at' = Reached /\ pageIndex' = tab[Reached].index
        /\ toApp' = Append(toApp, Arrived(tab[Reached].index, tab[Reached].address))
    BY <1>3 DEF TraverseTo, Report
  <2>2. /\ tab[Reached].index \in Indexes /\ tab[Reached].address \in Addresses
        /\ at' \in 0 .. Len(tab)
    BY <1>2, <2>1, ShownEntriesAreTyped
  <2>3. toApp' \in Seq(Reports)
    BY <1>2, <2>1, <2>2, StartsAndArrivals, AddingAMessage DEF PageTyped
  <2> QED
    BY <1>1, <1>2, <2>1, <2>2, <2>3, SameNavigationIsTyped DEF PageTyped
<1>4. CASE TraverseNowhere
  BY <1>1, <1>2, <1>4, SameNavigationIsTyped DEF TraverseNowhere, PageTyped
<1>5. CASE LeaveTheApp
  <2>1. 0 \in 0 .. Len(tab)
    BY <1>2, ShownEntriesAreTyped
  <2> QED
    BY <1>1, <1>2, <1>5, <2>1, SameNavigationIsTyped DEF LeaveTheApp, PageTyped
<1> QED
  BY <1>3, <1>4, <1>5 DEF Traverse

LEMMA DeliveriesAreTyped ==
  ASSUME TypedInv, Deliver
  PROVE  HistoryTypeOK' /\ QueuesTyped' /\ PageTyped'
<1>1. /\ toApp # <<>> /\ toApp' = Tail(toApp) /\ reports' = Append(reports, Head(toApp))
      /\ UNCHANGED <<historyVars, events, call, tab, at, pageIndex, toPage, traversals,
                    operated, typed>>
  BY DEF Deliver
<1>2. Head(toApp) \in Reports /\ toApp' \in Seq(Reports)
  BY <1>1, TakingAMessage DEF TypedInv, PageTyped
<1>3. reports' \in Seq(Reports)
  BY <1>1, <1>2, AddingAMessage DEF TypedInv, QueuesTyped
<1> QED
  BY <1>1, <1>2, <1>3 DEF TypedInv, historyVars, HistoryTypeOK, QueuesTyped, PageTyped

\* The operator's moves are counted.
LEMMA OperatingIsCounted ==
  ASSUME PageTyped, Operate
  PROVE  operated' \in 0 .. MaxOperated
BY PageAssumption DEF PageTyped, Operate

LEMMA ButtonsAreTyped ==
  ASSUME TypedInv, NEW d \in Ways, PressButton(d)
  PROVE  HistoryTypeOK' /\ QueuesTyped' /\ PageTyped'
<1>1. /\ traversals' = Append(traversals, [direction |-> d, by |-> "operator", target |-> 0])
      /\ UNCHANGED <<navigationVars, tab, at, pageIndex, toPage, toApp, typed>>
      /\ operated' \in 0 .. MaxOperated
  BY OperatingIsCounted DEF PressButton, TypedInv
<1>2. [direction |-> d, by |-> "operator", target |-> 0] \in Asked
  BY IndexesAreNumbers DEF Asked, Ways
<1>3. traversals' \in Seq(Asked)
  BY <1>1, <1>2, AddingAMessage DEF TypedInv, PageTyped
<1> QED
  BY <1>1, <1>3, SameNavigationIsTyped DEF TypedInv, PageTyped

LEMMA TypingIsTyped ==
  ASSUME TypedInv, NEW a \in Addresses, TypeAddress(a)
  PROVE  HistoryTypeOK' /\ QueuesTyped' /\ PageTyped'
<1>1. /\ Shown /\ pageIndex < LastIndex /\ pageIndex' = pageIndex + 1
      /\ tab' = Append(SubSeq(tab, 1, at), Entry(pageIndex', a))
      /\ at' = at + 1 /\ toApp' = Append(toApp, Arrived(pageIndex', a))
      /\ typed' = TRUE /\ UNCHANGED <<navigationVars, toPage, traversals>>
      /\ operated' \in 0 .. MaxOperated
  BY OperatingIsCounted DEF TypeAddress, Operate, Report, TypedInv
<1>2. pageIndex' \in Indexes /\ PageTyped
  BY <1>1, IndexesAreNumbers DEF TypedInv, PageTyped, Indexes
<1>3. Entry(pageIndex', a) \in TabEntries
  BY <1>2 DEF Entry, TabEntries
<1>4. tab' \in Seq(TabEntries) /\ Len(tab') = at + 1 /\ at \in Nat
  BY <1>1, <1>2, <1>3, PushedTabs
<1>5. toApp' \in Seq(Reports)
  BY <1>1, <1>2, StartsAndArrivals, AddingAMessage DEF PageTyped
<1>6. at' \in 0 .. Len(tab')
  BY <1>1, <1>4
<1> QED
  BY <1>1, <1>2, <1>4, <1>5, <1>6, SameNavigationIsTyped DEF PageTyped

LEMMA ReloadsAreTyped ==
  ASSUME TypedInv, Reload
  PROVE  HistoryTypeOK' /\ QueuesTyped' /\ PageTyped'
<1>1. /\ Shown /\ pageIndex' = tab[at].index
      /\ toApp' = Append(toApp, Started(pageIndex', tab[at].address))
      /\ UNCHANGED <<navigationVars, tab, at, toPage, traversals, typed>>
      /\ operated' \in 0 .. MaxOperated
  BY OperatingIsCounted DEF Reload, Operate, Report, TypedInv
<1>2. tab[at].index \in Indexes /\ tab[at].address \in Addresses
  BY <1>1, ShownEntriesAreTyped DEF TypedInv
<1>3. toApp' \in Seq(Reports)
  BY <1>1, <1>2, StartsAndArrivals, AddingAMessage DEF TypedInv, PageTyped
<1> QED
  BY <1>1, <1>2, <1>3, SameNavigationIsTyped DEF TypedInv, PageTyped

LEMMA StepKeepsTypedInv ==
  ASSUME TypedInv, [Next]_vars
  PROVE  TypedInv'
<1>1. RateInv'
  BY StepsAreRateSteps, RateStepKeepsRateInv DEF TypedInv
<1>2. HistoryTypeOK' /\ QueuesTyped' /\ PageTyped'
  <2>1. ASSUME NEW p \in Places, PageGoTo(p) \/ PageReplace(p)
        PROVE  HistoryTypeOK' /\ QueuesTyped' /\ PageTyped'
    BY <2>1, GoingIsTyped, ReplacingIsTyped
  <2>2. ASSUME NEW d \in Ways, PageGoBackOrForward(d) \/ PressButton(d)
        PROVE  HistoryTypeOK' /\ QueuesTyped' /\ PageTyped'
    BY <2>2, AskingIsTyped, ButtonsAreTyped
  <2>3. CASE AppAlone
    BY <2>3, AppAloneIsTyped
  <2>4. CASE Carrying
    BY <2>4, ChangesAreTyped, TraversalsAreTyped, DeliveriesAreTyped DEF Carrying
  <2>5. ASSUME NEW a \in Addresses, TypeAddress(a)
        PROVE  HistoryTypeOK' /\ QueuesTyped' /\ PageTyped'
    BY <2>5, TypingIsTyped
  <2>6. CASE Reload
    BY <2>6, ReloadsAreTyped
  <2>7. CASE UNCHANGED vars
    BY <2>7
    DEF vars, pageVars, navigationVars, historyVars, TypedInv, HistoryTypeOK,
        QueuesTyped, PageTyped
  <2> QED
    BY <2>1, <2>2, <2>3, <2>4, <2>5, <2>6, <2>7 DEF Next, Operates, Ways
<1>3. crossed' \in {"never", "now", "before"}
  BY DEF Next, Noting, vars, TypedInv
<1> QED
  BY <1>1, <1>2, <1>3 DEF TypedInv

LEMMA InitGivesTypedInv == Init => TypedInv
<1> SUFFICES ASSUME Init
             PROVE  TypedInv
  OBVIOUS
<1>1. /\ HistoryInit /\ RateInit /\ events = <<>> /\ call = "idle"
      /\ tab \in Loadable /\ at \in DOMAIN tab /\ pageIndex = tab[at].index
      /\ reports = <<Started(tab[at].index, tab[at].address)>>
      /\ toPage = <<>> /\ traversals = <<>> /\ toApp = <<>>
      /\ operated = 0 /\ typed = FALSE /\ crossed = "never"
  BY DEF Init, NavigationInit
<1>2. HistoryTypeOK
  BY <1>1, HistoryAssumption, IndexesAreNumbers DEF HistoryInit, HistoryTypeOK
<1>3. tab \in Seq(TabEntries) /\ Len(tab) \in Nat /\ DOMAIN tab = 1 .. Len(tab)
  <2>1. ASSUME NEW a \in Addresses, tab = <<Entry(0, a)>>
        PROVE  tab \in Seq(TabEntries)
    <3>1. Entry(0, a) \in TabEntries
      BY IndexesAreNumbers DEF Entry, TabEntries
    <3> QED
      BY <2>1, <3>1
  <2>2. ASSUME NEW p \in Places, tab = <<Entry(0, Start), Entry(1, p)>>
        PROVE  tab \in Seq(TabEntries)
    <3>1. Entry(0, Start) \in TabEntries /\ Entry(1, p) \in TabEntries
      BY IndexesAreNumbers, PlacesAreAddresses DEF Entry, TabEntries
    <3> QED
      BY <2>2, <3>1
  <2>3. tab \in Seq(TabEntries)
    BY <1>1, <2>1, <2>2 DEF Loadable
  <2> QED
    BY <2>3
<1>4. at \in 0 .. Len(tab) /\ tab[at] \in TabEntries
  BY <1>1, <1>3
<1>5. tab[at].index \in Indexes /\ tab[at].address \in Addresses
  BY <1>4 DEF TabEntries
<1>6. Started(tab[at].index, tab[at].address) \in Reports
  BY <1>5, StartsAndArrivals
<1>7. reports \in Seq(Reports)
  BY <1>1, <1>6
<1>8. PageTyped
  <2>1. /\ toPage \in Seq(Changes) /\ traversals \in Seq(Asked)
        /\ toApp \in Seq(Reports) /\ operated \in 0 .. MaxOperated
    BY <1>1, PageAssumption
  <2> QED
    BY <1>1, <1>3, <1>4, <1>5, <2>1 DEF PageTyped
<1>9. QueuesTyped
  BY <1>1, <1>7 DEF QueuesTyped
<1> QED
  BY <1>1, <1>2, <1>8, <1>9, RateInitGivesRateInv DEF TypedInv

(***************************************************************************)
(* However moves race, the state of navigation on a page is well typed:    *)
(* above all, no message or report is of an entry past the known indexes,  *)
(* and the page never shows an entry the browser does not have             *)
(* (History.java, PageHistory.java, jebol-navigation.js).                  *)
(***************************************************************************)
THEOREM PageHistoriesAreWellTyped == Spec => []TypeOK
<1>1. TypedInv /\ [Next]_vars => TypedInv'
  BY StepKeepsTypedInv
<1>2. TypedInv => TypeOK
  BY DEF TypedInv, RateInv, QueuesTyped, PageTyped, TypeOK, NavigationTypeOK,
         TabEntries, Changes, Asked
<1> QED
  BY InitGivesTypedInv, <1>1, <1>2, PTL DEF Spec
-----------------------------------------------------------------------------
(***************************************************************************)
(* Where the app will find the page, as long as no entry the app made      *)
(* crosses a report.                                                       *)
(***************************************************************************)
\* The page's script believes what the browser shows; and a crossing is
\* noted while it lasts.
Believed ==
  /\ Shown => pageIndex = tab[at].index
  /\ Crossing => crossed = "now"

Push(k) == toPage[k].move = "push"

Names(k) == toPage[k].move \in {"push", "replace"}

\* The last change that names an entry.
LastNames(k) ==
  Names(k) /\ \A n \in DOMAIN toPage : k < n => ~Names(n)

SaysWhereThePageIs(report) ==
  /\ report.kind \in {"start", "arrival"}
  /\ report.index = tab[at].index /\ report.address = tab[at].address

\* The last thing said, by the page or by the app, is how it is or will be.
LastSaid ==
  /\ ~Changing /\ toApp # <<>> => SaysWhereThePageIs(toApp[Len(toApp)])
  /\ ~Changing /\ toApp = <<>> /\ reports # <<>> =>
       SaysWhereThePageIs(reports[Len(reports)])
  /\ ~Changing /\ ~Reporting =>
       position = tab[at].index /\ Current = Read(tab[at].address)
  /\ \A k \in DOMAIN toPage :
       LastNames(k) => position = toPage[k].index /\ Current = toPage[k].address

Agreement == Shown /\ crossed # "now" => LastSaid

(***************************************************************************)
(* What the app knows of the page's entries, as long as no entry it made   *)
(* has ever crossed a report.                                              *)
(***************************************************************************)
Numbered == \A k \in DOMAIN tab : tab[k].index = k - 1

\* The changes on their way number their entries on from the one shown: each
\* push is one further than the last push before it, or than where the page is.
Further(k) == IF Push(k) THEN 1 ELSE 0

PushBefore(j, k) ==
  j < k /\ Push(j) /\ \A n \in DOMAIN toPage : j < n /\ n < k => ~Push(n)

NoPushBefore(k) == \A n \in DOMAIN toPage : n < k => ~Push(n)

InOrder ==
  \A k \in DOMAIN toPage : Names(k) =>
    /\ NoPushBefore(k) => toPage[k].index = at - 1 + Further(k)
    /\ \A j \in DOMAIN toPage :
         PushBefore(j, k) => toPage[k].index = toPage[j].index + Further(k)

PositionInOrder ==
  ~Reporting =>
    /\ NoPushBefore(Len(toPage) + 1) => position = at - 1
    /\ \A j \in DOMAIN toPage :
         PushBefore(j, Len(toPage) + 1) => position = toPage[j].index

InTab(i, place) == i + 1 \in DOMAIN tab /\ Read(tab[i + 1].address) = place

\* The last change that names the entry at i.
LastNamed(i, k) ==
  /\ Names(k) /\ toPage[k].index = i
  /\ \A n \in DOMAIN toPage : k < n /\ Names(n) => toPage[n].index # i

NotNamed(i) == \A k \in DOMAIN toPage : Names(k) => toPage[k].index # i

Pushing == \E k \in DOMAIN toPage : Push(k)

\* A load the app has still to take, and has asked nothing of: what the app
\* knew before it is forgotten.
Fresh ==
  /\ reports # <<>> /\ reports[1].kind = "start"
  /\ toPage = <<>>
  /\ \A k \in DOMAIN traversals : traversals[k].by = "operator"

\* An entry known is the page's, or is once what names it has arrived; and
\* what a push will drop is not known.
Known ==
  ~Fresh =>
    \A i \in DOMAIN entries :
      /\ \A k \in DOMAIN toPage : LastNamed(i, k) => entries[i] = toPage[k].address
      /\ NotNamed(i) => InTab(i, entries[i]) /\ (Pushing => i < at)

OfTheTab(report) ==
  /\ report.kind \in {"start", "arrival"}
  /\ InTab(report.index, Read(report.address))

ReportsOfTheTab ==
  /\ \A k \in DOMAIN toApp : OfTheTab(toApp[k])
  /\ \A k \in DOMAIN reports : OfTheTab(reports[k])

Numbering == Numbered /\ InOrder /\ PositionInOrder

Knowledge == ~typed => Known /\ ReportsOfTheTab

OneHistory == Shown /\ crossed = "never" => Numbering /\ Knowledge

IInv == TypedInv /\ Believed /\ Agreement /\ OneHistory

-----------------------------------------------------------------------------
(***************************************************************************)
(* A queue with one message more, and with one less.                       *)
(***************************************************************************)
LEMMA LongerQueue ==
  ASSUME NEW S, NEW s \in Seq(S), NEW m \in S, NEW t, t = Append(s, m)
  PROVE  /\ Len(s) \in Nat /\ Len(t) = Len(s) + 1 /\ t # <<>>
         /\ DOMAIN s = 1 .. Len(s) /\ DOMAIN t = 1 .. Len(s) + 1
         /\ \A k \in DOMAIN s : t[k] = s[k]
         /\ t[Len(s) + 1] = m
OBVIOUS

LEMMA ShorterQueue ==
  ASSUME NEW S, NEW s \in Seq(S), s # <<>>, NEW t, t = Tail(s)
  PROVE  /\ Len(s) \in Nat \ {0} /\ Len(t) = Len(s) - 1 /\ Len(t) \in Nat
         /\ DOMAIN s = 1 .. Len(s) /\ DOMAIN t = 1 .. Len(s) - 1
         /\ \A k \in DOMAIN t : t[k] = s[k + 1] /\ k + 1 \in DOMAIN s
         /\ \A k \in DOMAIN s : k # 1 => k - 1 \in DOMAIN t /\ t[k - 1] = s[k]
         /\ 1 \in DOMAIN s /\ s[1] = Head(s)
         /\ (t = <<>> <=> Len(s) = 1)
<1>1. /\ Len(s) \in Nat \ {0} /\ DOMAIN s = 1 .. Len(s)
      /\ t \in Seq(S) /\ Len(t) = Len(s) - 1 /\ DOMAIN t = 1 .. Len(s) - 1
  OBVIOUS
<1>2. \A k \in DOMAIN t : t[k] = s[k + 1]
  OBVIOUS
<1>3. \A k \in DOMAIN s : k # 1 => k - 1 \in DOMAIN t /\ (k - 1) + 1 = k
  BY <1>1
<1>4. \A k \in DOMAIN s : k # 1 => t[k - 1] = s[k]
  BY <1>2, <1>3
<1>5. t = <<>> <=> Len(t) = 0
  BY <1>1, EmptySeq
<1> QED
  BY <1>1, <1>2, <1>3, <1>4, <1>5

\* The messages of a queue are numbered from one.
LEMMA Queued ==
  ASSUME NEW S, NEW s \in Seq(S)
  PROVE  /\ Len(s) \in Nat /\ DOMAIN s = 1 .. Len(s)
         /\ (s = <<>> <=> Len(s) = 0)
         /\ \A k \in DOMAIN s : s[k] \in S
OBVIOUS

(***************************************************************************)
(* What a step notes of crossings.                                         *)
(***************************************************************************)
LEMMA Crossings ==
  ASSUME TypedInv, Believed, Noting
  PROVE  /\ Crossing' => crossed' = "now"
         /\ crossed # "now" => ~Crossing
         /\ crossed' = "never" => crossed = "never"
         /\ toApp' = toApp /\ crossed' # "now" => crossed # "now"
         /\ Len(toApp') = Len(toApp) - 1 /\ crossed' # "now" => crossed # "now"
<1>1. Len(toApp) \in Nat
  BY DEF TypedInv, PageTyped
<1>2. ~(Len(toApp) > Len(toApp))
  BY <1>1
<1>3. Len(toApp') = Len(toApp) - 1 => ~(Len(toApp') > Len(toApp))
  BY <1>1
<1> QED
  BY <1>2, <1>3, Zenon DEF TypedInv, Believed, Noting

\* While nothing crosses, reports and entries named are not both on their way.
LEMMA NothingCrosses ==
  ASSUME TypedInv, Believed, Noting, crossed' # "now"
  PROVE  (Changing => ~Reporting)' /\ (crossed # "now" /\ Changing => ~Reporting)
BY Crossings DEF Crossing

(***************************************************************************)
(* Steps that move neither, and tell neither anything of entries.          *)
(***************************************************************************)
LEMMA StayingKeepsIInv ==
  ASSUME TypedInv, Believed, Agreement, OneHistory, Noting,
         UNCHANGED <<entries, position, reports, tab, at, pageIndex, toPage, toApp, typed>>,
         Fresh => Fresh'
  PROVE  Believed' /\ Agreement' /\ OneHistory'
<1>1. /\ crossed' # "now" => crossed # "now"
      /\ crossed' = "never" => crossed = "never"
      /\ Crossing' => crossed' = "now"
  BY Crossings
<1>2. Believed'
  BY <1>1 DEF Believed, Shown
<1>3. Agreement'
  BY <1>1
  DEF Agreement, Shown, LastSaid, Changing, Reporting, SaysWhereThePageIs, LastNames,
      Names, Current, EntryAt
<1>4. OneHistory'
  <2>1. Numbering => Numbering'
    BY DEF Numbering, Numbered, InOrder, PositionInOrder, Names, NoPushBefore, PushBefore,
           Push, Further, Reporting
  <2>2. Knowledge => Knowledge'
    BY DEF Knowledge, Known, LastNamed, NotNamed, Names, InTab, Pushing, Push,
           ReportsOfTheTab, OfTheTab
  <2> QED
    BY <1>1, <2>1, <2>2 DEF OneHistory, Shown
<1> QED
  BY <1>2, <1>3, <1>4

(***************************************************************************)
(* A page the operator or the app has taken out of the app stays out.      *)
(***************************************************************************)
LEMMA LeavingKeepsIInv ==
  ASSUME TypedInv, Believed, Noting, ~Shown'
  PROVE  Believed' /\ Agreement' /\ OneHistory'
BY Crossings DEF Believed, Agreement, OneHistory

(***************************************************************************)
(* What one change more leaves of those on their way (PageHistory.java).   *)
(***************************************************************************)
LEMMA OneMoreChange ==
  ASSUME TypedInv, NEW m \in Changes, toPage' = Append(toPage, m),
         NEW n \in Nat, n = Len(toPage)
  PROVE  /\ DOMAIN toPage = 1 .. n /\ DOMAIN toPage' = 1 .. n + 1 /\ Len(toPage') = n + 1
         /\ \A k \in DOMAIN toPage : k \in DOMAIN toPage' /\ toPage'[k] = toPage[k]
         /\ \A k \in DOMAIN toPage : (Names(k)' <=> Names(k)) /\ (Push(k)' <=> Push(k))
         /\ \A k \in DOMAIN toPage' : k \in DOMAIN toPage \/ k = n + 1
         /\ \A k \in DOMAIN toPage : k < n + 1 /\ k < n + 2 /\ k # n + 1
         /\ n + 1 \in DOMAIN toPage' /\ toPage'[n + 1] = m
         /\ (Names(n + 1)' <=> m.move \in {"push", "replace"})
         /\ (Push(n + 1)' <=> m.move = "push")
         /\ m.move \in {"back", "forward"} =>
              \A k \in DOMAIN toPage' : Names(k)' \/ Push(k)' => k \in DOMAIN toPage
<1>1. /\ DOMAIN toPage = 1 .. n /\ DOMAIN toPage' = 1 .. n + 1 /\ Len(toPage') = n + 1
      /\ \A k \in DOMAIN toPage : toPage'[k] = toPage[k]
      /\ toPage'[n + 1] = m
  BY LongerQueue DEF TypedInv, PageTyped
<1>2. \A k \in DOMAIN toPage : k \in DOMAIN toPage' /\ k < n + 1 /\ k < n + 2 /\ k # n + 1
  BY <1>1
<1>3. \A k \in DOMAIN toPage : (Names(k)' <=> Names(k)) /\ (Push(k)' <=> Push(k))
  BY <1>1 DEF Names, Push
<1>4. /\ Names(n + 1)' <=> m.move \in {"push", "replace"}
      /\ Push(n + 1)' <=> m.move = "push"
  BY <1>1 DEF Names, Push
<1>5. n + 1 \in DOMAIN toPage' /\ \A k \in DOMAIN toPage' : k \in DOMAIN toPage \/ k = n + 1
  BY <1>1
<1> QED
  BY <1>1, <1>2, <1>3, <1>4, <1>5

(***************************************************************************)
(* A Back or Forward asked of the page names no entry.                     *)
(***************************************************************************)
LEMMA AskingKeepsIInv ==
  ASSUME TypedInv, Believed, Agreement, OneHistory, Noting,
         NEW m \in Changes, m.move \in {"back", "forward"},
         toPage' = Append(toPage, m),
         UNCHANGED <<entries, position, reports, tab, at, pageIndex, toApp, typed>>,
         reports = <<>>
  PROVE  Believed' /\ Agreement' /\ OneHistory'
<1>1. /\ crossed' # "now" => crossed # "now"
      /\ crossed' = "never" => crossed = "never"
      /\ Crossing' => crossed' = "now"
  BY Crossings
<1>2. PICK n \in Nat : n = Len(toPage)
  BY Queued DEF TypedInv, PageTyped
<1>3. /\ Len(toPage') = n + 1
      /\ \A k \in DOMAIN toPage : k \in DOMAIN toPage' /\ toPage'[k] = toPage[k]
      /\ \A k \in DOMAIN toPage : (Names(k)' <=> Names(k)) /\ (Push(k)' <=> Push(k))
      /\ \A k \in DOMAIN toPage' : Names(k)' \/ Push(k)' => k \in DOMAIN toPage
      /\ \A k \in DOMAIN toPage : k < n + 1 /\ k < n + 2
  BY <1>2, OneMoreChange
<1>4. Changing' <=> Changing
  BY <1>3 DEF Changing, Names
<1>5. Believed'
  BY <1>1 DEF Believed, Shown
<1>6. Agreement'
  <2>1. \A k \in DOMAIN toPage' : LastNames(k)' => k \in DOMAIN toPage /\ LastNames(k)
    BY <1>3 DEF LastNames
  <2> QED
    BY <1>1, <1>2, <1>4, <2>1
    DEF Agreement, Shown, LastSaid, Reporting, SaysWhereThePageIs, Current, EntryAt
<1>7. OneHistory'
  <2>1. InOrder => InOrder'
    <3>1. \A k \in DOMAIN toPage : NoPushBefore(k)' => NoPushBefore(k)
      BY <1>3 DEF NoPushBefore
    <3>2. \A j, k \in DOMAIN toPage : PushBefore(j, k)' => PushBefore(j, k)
      BY <1>3 DEF PushBefore
    <3>3. \A k \in DOMAIN toPage : Further(k)' = Further(k)
      BY <1>3 DEF Further
    <3>4. \A j, k \in DOMAIN toPage' : PushBefore(j, k)' => j \in DOMAIN toPage
      BY <1>3 DEF PushBefore
    <3> QED
      BY <1>2, <1>3, <3>1, <3>2, <3>3, <3>4 DEF InOrder
  <2>2. PositionInOrder => PositionInOrder'
    <3>1. NoPushBefore(Len(toPage) + 1)' => NoPushBefore(Len(toPage) + 1)
      BY <1>2, <1>3 DEF NoPushBefore
    <3>2. \A j \in DOMAIN toPage' :
            PushBefore(j, Len(toPage) + 1)' =>
              j \in DOMAIN toPage /\ PushBefore(j, Len(toPage) + 1)
      BY <1>2, <1>3 DEF PushBefore
    <3> QED
      BY <1>2, <3>1, <3>2 DEF PositionInOrder, Reporting
  <2>3. Knowledge => Knowledge'
    <3>1. \A i : NotNamed(i)' => NotNamed(i)
      BY <1>2, <1>3 DEF NotNamed
    <3>2. \A i : \A k \in DOMAIN toPage' :
            LastNamed(i, k)' => k \in DOMAIN toPage /\ LastNamed(i, k)
      BY <1>2, <1>3 DEF LastNamed
    <3>3. Pushing' => Pushing
      BY <1>3 DEF Pushing
    <3>4. ASSUME Known, ~Fresh', NEW i \in DOMAIN entries'
          PROVE  /\ \A k \in DOMAIN toPage' : LastNamed(i, k)' => entries'[i] = toPage'[k].address
                 /\ NotNamed(i)' => InTab(i, entries[i])' /\ (Pushing' => i < at')
      <4>1. ~Fresh /\ i \in DOMAIN entries
        BY <3>4 DEF Fresh
      <4> QED
        BY <1>2, <3>1, <3>2, <3>3, <3>4, <4>1 DEF Known, InTab
    <3>5. Known => Known'
      BY <3>4 DEF Known
    <3> QED
      BY <3>5 DEF Knowledge, ReportsOfTheTab, OfTheTab, InTab
  <2> QED
    BY <1>1, <2>1, <2>2, <2>3 DEF OneHistory, Numbering, Numbered, Shown
<1> QED
  BY <1>5, <1>6, <1>7

(***************************************************************************)
(* A change that names the app's place: the page will be there.            *)
(***************************************************************************)
LEMMA NamingKeepsAgreement ==
  ASSUME TypedInv, Believed, Noting,
         NEW m \in Changes, m.move \in {"push", "replace"}, toPage' = Append(toPage, m),
         position' = m.index, Current' = m.address,
         UNCHANGED <<tab, at, pageIndex, toApp>>
  PROVE  /\ Believed' /\ Agreement'
         /\ Changing'
         /\ crossed' = "never" => crossed = "never" /\ ~Reporting'
<1>1. PICK n \in Nat : n = Len(toPage)
  BY Queued DEF TypedInv, PageTyped
<1>2. /\ n + 1 \in DOMAIN toPage' /\ toPage'[n + 1] = m /\ Names(n + 1)'
      /\ \A k \in DOMAIN toPage' : k < n + 1 \/ k = n + 1
  BY <1>1, OneMoreChange
<1>3. Changing'
  BY <1>2 DEF Changing
<1>4. \A k \in DOMAIN toPage' : LastNames(k)' => k = n + 1
  BY <1>2 DEF LastNames
<1>5. LastSaid'
  BY <1>2, <1>3, <1>4 DEF LastSaid
<1>6. Believed'
  BY Crossings DEF Believed, Shown
<1> QED
  BY <1>3, <1>5, <1>6, Crossings DEF Agreement, Crossing

(***************************************************************************)
(* A new entry is numbered on from the last, and drops from the app's      *)
(* history what it will drop from the page's (History.goTo).               *)
(***************************************************************************)
LEMMA PushingKeepsOneHistory ==
  ASSUME TypedInv, Believed, OneHistory, Noting, ~Fresh,
         NEW m \in Changes, m.move = "push", m.index = position + 1,
         toPage' = Append(toPage, m), position' = m.index, Current' = m.address,
         DOMAIN entries' = {i \in DOMAIN entries : i <= position} \cup {position + 1},
         entries'[position + 1] = m.address,
         \A i \in DOMAIN entries : i <= position => entries'[i] = entries[i],
         UNCHANGED <<reports, tab, at, pageIndex, toApp, typed>>,
         Shown', crossed' = "never"
  PROVE  Numbering' /\ Knowledge'
<1>1. PICK n \in Nat : n = Len(toPage)
  BY Queued DEF TypedInv, PageTyped
<1>2. /\ Len(toPage') = n + 1
      /\ \A k \in DOMAIN toPage : k \in DOMAIN toPage' /\ toPage'[k] = toPage[k]
      /\ \A k \in DOMAIN toPage : (Names(k)' <=> Names(k)) /\ (Push(k)' <=> Push(k))
      /\ \A k \in DOMAIN toPage' : k \in DOMAIN toPage \/ k = n + 1
      /\ \A k \in DOMAIN toPage : k < n + 1 /\ k < n + 2 /\ k # n + 1
      /\ n + 1 \in DOMAIN toPage' /\ toPage'[n + 1] = m /\ Names(n + 1)' /\ Push(n + 1)'
  BY <1>1, OneMoreChange
<1>3. /\ crossed = "never" /\ ~Reporting' /\ ~Reporting /\ Shown
      /\ Numbering /\ Knowledge
  BY NamingKeepsAgreement DEF Reporting, Shown, OneHistory
<1>4. /\ position \in Nat /\ at \in Nat
      /\ \A i \in DOMAIN entries : i \in Nat
  BY IndexesAreNumbers DEF TypedInv, HistoryTypeOK, PageTyped
<1>5. /\ NoPushBefore(n + 1) => position = at - 1
      /\ \A j \in DOMAIN toPage : PushBefore(j, n + 1) => position = toPage[j].index
  BY <1>1, <1>3 DEF Numbering, PositionInOrder
<1>6. InOrder'
  <2>1. ASSUME NEW k \in DOMAIN toPage, Names(k)'
        PROVE  /\ NoPushBefore(k)' => toPage'[k].index = at' - 1 + Further(k)'
               /\ \A j \in DOMAIN toPage' :
                    PushBefore(j, k)' => toPage'[k].index = toPage'[j].index + Further(k)'
    <3>1. Names(k) /\ Further(k)' = Further(k) /\ toPage'[k] = toPage[k]
      BY <1>2, <2>1 DEF Further
    <3>2. NoPushBefore(k)' => NoPushBefore(k)
      BY <1>2 DEF NoPushBefore
    <3>3. k < n + 1 /\ ~(n + 1 < k)
      BY <1>1, <1>2, Queued DEF TypedInv, PageTyped
    <3>4. \A j \in DOMAIN toPage' : PushBefore(j, k)' => j \in DOMAIN toPage /\ PushBefore(j, k)
      BY <1>2, <3>3 DEF PushBefore
    <3> QED
      BY <1>2, <1>3, <3>1, <3>2, <3>4 DEF Numbering, InOrder
  <2>2. /\ NoPushBefore(n + 1)' => toPage'[n + 1].index = at' - 1 + Further(n + 1)'
        /\ \A j \in DOMAIN toPage' :
             PushBefore(j, n + 1)' => toPage'[n + 1].index = toPage'[j].index + Further(n + 1)'
    <3>1. Further(n + 1)' = 1
      BY <1>2 DEF Further
    <3>2. NoPushBefore(n + 1)' => NoPushBefore(n + 1)
      BY <1>2 DEF NoPushBefore
    <3>3. ~(n + 1 < n + 1)
      OBVIOUS
    <3>4. \A j \in DOMAIN toPage' :
            PushBefore(j, n + 1)' => j \in DOMAIN toPage /\ PushBefore(j, n + 1)
      BY <1>2, <3>3 DEF PushBefore
    <3>5. toPage'[n + 1].index = position + 1
      BY <1>2
    <3> QED
      BY <1>2, <1>4, <1>5, <3>1, <3>2, <3>4, <3>5
  <2> QED
    BY <1>2, <2>1, <2>2 DEF InOrder
<1>7. PositionInOrder'
  <2>1. ~NoPushBefore(Len(toPage) + 1)'
    <3>1. n + 1 < Len(toPage') + 1
      BY <1>2
    <3> QED
      BY <1>2, <3>1 DEF NoPushBefore
  <2>2. \A j \in DOMAIN toPage' : PushBefore(j, Len(toPage) + 1)' => j = n + 1
    <3>1. n + 1 < Len(toPage') + 1
      BY <1>2
    <3> QED
      BY <1>2, <3>1 DEF PushBefore
  <2> QED
    BY <1>2, <2>1, <2>2 DEF PositionInOrder
<1>8. Knowledge'
  <2> SUFFICES ASSUME ~typed'
               PROVE  Known' /\ ReportsOfTheTab'
    BY DEF Knowledge
  <2>1. ReportsOfTheTab'
    BY <1>3 DEF Knowledge, ReportsOfTheTab, OfTheTab, InTab
  <2>2. ASSUME NEW i \in DOMAIN entries'
        PROVE  /\ \A k \in DOMAIN toPage' : LastNamed(i, k)' => entries'[i] = toPage'[k].address
               /\ NotNamed(i)' => InTab(i, entries[i])' /\ (Pushing' => i < at')
    <3>1. CASE i = position + 1
      <4>1. ~NotNamed(i)'
        BY <1>2, <3>1 DEF NotNamed
      <4>2. \A k \in DOMAIN toPage' : LastNamed(i, k)' => k = n + 1
        BY <1>2, <3>1 DEF LastNamed
      <4> QED
        BY <1>2, <3>1, <4>1, <4>2
    <3>2. CASE i # position + 1
      <4>1. i \in DOMAIN entries /\ i <= position /\ entries'[i] = entries[i]
        BY <3>2
      <4>2. /\ \A k \in DOMAIN toPage : LastNamed(i, k) => entries[i] = toPage[k].address
            /\ NotNamed(i) => InTab(i, entries[i]) /\ (Pushing => i < at)
        BY <1>3, <4>1 DEF Knowledge, Known
      <4>3. \A k \in DOMAIN toPage' : LastNamed(i, k)' => k \in DOMAIN toPage /\ LastNamed(i, k)
        BY <1>2, <3>2 DEF LastNamed
      <4>4. NotNamed(i)' => NotNamed(i)
        BY <1>2 DEF NotNamed
      <4>5. NotNamed(i) => i < at
        <5>1. CASE Pushing
          BY <4>2, <5>1
        <5>2. CASE ~Pushing
          BY <1>4, <1>5, <4>1, <5>2 DEF Pushing, NoPushBefore
        <5> QED
          BY <5>1, <5>2
      <4> QED
        BY <1>2, <4>1, <4>2, <4>3, <4>4, <4>5 DEF InTab
    <3> QED
      BY <3>1, <3>2
  <2> QED
    BY <2>1, <2>2 DEF Known
<1> QED
  BY <1>3, <1>6, <1>7, <1>8 DEF Numbering, Numbered

(***************************************************************************)
(* An entry named anew is the one the app is at (History.replace).         *)
(***************************************************************************)
LEMMA RenamingKeepsOneHistory ==
  ASSUME TypedInv, Believed, OneHistory, Noting, ~Fresh,
         NEW m \in Changes, m.move = "replace", m.index = position,
         toPage' = Append(toPage, m), position' = position, Current' = m.address,
         entries' = With(position, m.address),
         UNCHANGED <<reports, tab, at, pageIndex, toApp, typed>>,
         Shown', crossed' = "never"
  PROVE  Numbering' /\ Knowledge'
<1>1. PICK n \in Nat : n = Len(toPage)
  BY Queued DEF TypedInv, PageTyped
<1>2. /\ Len(toPage') = n + 1
      /\ \A k \in DOMAIN toPage : k \in DOMAIN toPage' /\ toPage'[k] = toPage[k]
      /\ \A k \in DOMAIN toPage : (Names(k)' <=> Names(k)) /\ (Push(k)' <=> Push(k))
      /\ \A k \in DOMAIN toPage' : k \in DOMAIN toPage \/ k = n + 1
      /\ \A k \in DOMAIN toPage : k < n + 1 /\ k < n + 2 /\ k # n + 1
      /\ n + 1 \in DOMAIN toPage' /\ toPage'[n + 1] = m /\ Names(n + 1)' /\ ~Push(n + 1)'
  BY <1>1, OneMoreChange
<1>3. /\ crossed = "never" /\ ~Reporting' /\ ~Reporting /\ Shown
      /\ Numbering /\ Knowledge
  BY NamingKeepsAgreement DEF Reporting, Shown, OneHistory
<1>4. position \in Nat /\ at \in Nat
  BY IndexesAreNumbers DEF TypedInv, HistoryTypeOK, PageTyped
<1>5. /\ NoPushBefore(n + 1) => position = at - 1
      /\ \A j \in DOMAIN toPage : PushBefore(j, n + 1) => position = toPage[j].index
  BY <1>1, <1>3 DEF Numbering, PositionInOrder
<1>6. InOrder'
  <2>1. ASSUME NEW k \in DOMAIN toPage, Names(k)'
        PROVE  /\ NoPushBefore(k)' => toPage'[k].index = at' - 1 + Further(k)'
               /\ \A j \in DOMAIN toPage' :
                    PushBefore(j, k)' => toPage'[k].index = toPage'[j].index + Further(k)'
    <3>1. Names(k) /\ Further(k)' = Further(k) /\ toPage'[k] = toPage[k]
      BY <1>2, <2>1 DEF Further
    <3>2. NoPushBefore(k)' => NoPushBefore(k)
      BY <1>2 DEF NoPushBefore
    <3>3. \A j \in DOMAIN toPage' : PushBefore(j, k)' => j \in DOMAIN toPage /\ PushBefore(j, k)
      BY <1>2 DEF PushBefore
    <3> QED
      BY <1>2, <1>3, <3>1, <3>2, <3>3 DEF Numbering, InOrder
  <2>2. /\ NoPushBefore(n + 1)' => toPage'[n + 1].index = at' - 1 + Further(n + 1)'
        /\ \A j \in DOMAIN toPage' :
             PushBefore(j, n + 1)' => toPage'[n + 1].index = toPage'[j].index + Further(n + 1)'
    <3>1. Further(n + 1)' = 0
      BY <1>2 DEF Further
    <3>2. NoPushBefore(n + 1)' => NoPushBefore(n + 1)
      BY <1>2 DEF NoPushBefore
    <3>3. \A j \in DOMAIN toPage' :
            PushBefore(j, n + 1)' => j \in DOMAIN toPage /\ PushBefore(j, n + 1)
      BY <1>2 DEF PushBefore
    <3>4. toPage'[n + 1].index = position
      BY <1>2
    <3> QED
      BY <1>2, <1>4, <1>5, <3>1, <3>2, <3>3, <3>4
  <2> QED
    BY <1>2, <2>1, <2>2 DEF InOrder
<1>7. PositionInOrder'
  <2>1. NoPushBefore(Len(toPage) + 1)' => NoPushBefore(n + 1)
    BY <1>2 DEF NoPushBefore
  <2>2. \A j \in DOMAIN toPage' :
          PushBefore(j, Len(toPage) + 1)' => j \in DOMAIN toPage /\ PushBefore(j, n + 1)
    BY <1>2 DEF PushBefore
  <2> QED
    BY <1>2, <1>5, <2>1, <2>2 DEF PositionInOrder
<1>8. Knowledge'
  <2> SUFFICES ASSUME ~typed'
               PROVE  Known' /\ ReportsOfTheTab'
    BY DEF Knowledge
  <2>1. ReportsOfTheTab'
    BY <1>3 DEF Knowledge, ReportsOfTheTab, OfTheTab, InTab
  <2>2. /\ DOMAIN entries' = DOMAIN entries \cup {position} /\ entries'[position] = m.address
        /\ \A i \in DOMAIN entries : i # position => entries'[i] = entries[i]
    BY DEF With
  <2>3. ASSUME NEW i \in DOMAIN entries'
        PROVE  /\ \A k \in DOMAIN toPage' : LastNamed(i, k)' => entries'[i] = toPage'[k].address
               /\ NotNamed(i)' => InTab(i, entries[i])' /\ (Pushing' => i < at')
    <3>1. CASE i = position
      <4>1. ~NotNamed(i)'
        BY <1>2, <3>1 DEF NotNamed
      <4>2. \A k \in DOMAIN toPage' : LastNamed(i, k)' => k = n + 1
        BY <1>2, <3>1 DEF LastNamed
      <4> QED
        BY <1>2, <2>2, <3>1, <4>1, <4>2
    <3>2. CASE i # position
      <4>1. i \in DOMAIN entries /\ entries'[i] = entries[i]
        BY <2>2, <3>2
      <4>2. /\ \A k \in DOMAIN toPage : LastNamed(i, k) => entries[i] = toPage[k].address
            /\ NotNamed(i) => InTab(i, entries[i]) /\ (Pushing => i < at)
        BY <1>3, <4>1 DEF Knowledge, Known
      <4>3. \A k \in DOMAIN toPage' : LastNamed(i, k)' => k \in DOMAIN toPage /\ LastNamed(i, k)
        BY <1>2, <3>2 DEF LastNamed
      <4>4. NotNamed(i)' => NotNamed(i)
        BY <1>2 DEF NotNamed
      <4>5. Pushing' => Pushing
        BY <1>2 DEF Pushing
      <4> QED
        BY <1>2, <4>1, <4>2, <4>3, <4>4, <4>5 DEF InTab
    <3> QED
      BY <3>1, <3>2
  <2> QED
    BY <2>1, <2>3 DEF Known
<1> QED
  BY <1>3, <1>6, <1>7, <1>8 DEF Numbering, Numbered

(***************************************************************************)
(* What taking the first change leaves of those on their way               *)
(* (jebol-navigation.js, move).                                            *)
(***************************************************************************)
LEMMA OneChangeLess ==
  ASSUME TypedInv, toPage # <<>>, toPage' = Tail(toPage)
  PROVE  /\ Len(toPage) \in Nat /\ Len(toPage') = Len(toPage) - 1 /\ 1 \in DOMAIN toPage
         /\ toPage[1] = Head(toPage) /\ toPage[1] \in Changes
         /\ \A k \in DOMAIN toPage : k \in Nat /\ k >= 1
         /\ \A k \in DOMAIN toPage' : k + 1 \in DOMAIN toPage /\ toPage'[k] = toPage[k + 1]
         /\ \A k \in DOMAIN toPage' : (Names(k)' <=> Names(k + 1)) /\ (Push(k)' <=> Push(k + 1))
         /\ \A k \in DOMAIN toPage : k # 1 => k - 1 \in DOMAIN toPage'
         /\ \A k \in DOMAIN toPage' : k \in Nat /\ k >= 1 /\ (k + 1) - 1 = k /\ k + 1 # 1
<1>1. /\ Len(toPage) \in Nat \ {0} /\ Len(toPage') = Len(toPage) - 1
      /\ DOMAIN toPage = 1 .. Len(toPage) /\ DOMAIN toPage' = 1 .. Len(toPage) - 1
      /\ \A k \in DOMAIN toPage' : toPage'[k] = toPage[k + 1] /\ k + 1 \in DOMAIN toPage
      /\ 1 \in DOMAIN toPage /\ toPage[1] = Head(toPage)
  BY ShorterQueue DEF TypedInv, PageTyped
<1>2. toPage[1] \in Changes
  BY <1>1, Queued DEF TypedInv, PageTyped
<1>3. \A k \in DOMAIN toPage' : (Names(k)' <=> Names(k + 1)) /\ (Push(k)' <=> Push(k + 1))
  BY <1>1 DEF Names, Push
<1>4. /\ \A k \in DOMAIN toPage : k \in Nat /\ k >= 1
      /\ \A k \in DOMAIN toPage : k # 1 => k - 1 \in DOMAIN toPage'
      /\ \A k \in DOMAIN toPage' : k \in Nat /\ k >= 1 /\ (k + 1) - 1 = k /\ k + 1 # 1
  BY <1>1
<1> QED
  BY <1>1, <1>2, <1>3, <1>4

(***************************************************************************)
(* What the changes left say is as it was, numbered one lower.             *)
(***************************************************************************)
LEMMA ChangesLeft ==
  ASSUME TypedInv, toPage # <<>>, toPage' = Tail(toPage)
  PROVE  /\ Changing <=> Changing' \/ Names(1)
         /\ Pushing <=> Pushing' \/ Push(1)
         /\ \A k \in DOMAIN toPage' : LastNames(k)' <=> LastNames(k + 1)
         /\ Names(1) /\ ~Changing' => LastNames(1)
         /\ \A i : \A k \in DOMAIN toPage' : LastNamed(i, k)' <=> LastNamed(i, k + 1)
         /\ \A i : NotNamed(i)' /\ Names(1) /\ toPage[1].index = i => LastNamed(i, 1)
         /\ \A i : NotNamed(i)' /\ (Names(1) => toPage[1].index # i) => NotNamed(i)
<1>1. /\ 1 \in DOMAIN toPage
      /\ \A k \in DOMAIN toPage : k \in Nat /\ k >= 1
      /\ \A k \in DOMAIN toPage' : k + 1 \in DOMAIN toPage /\ toPage'[k] = toPage[k + 1]
      /\ \A k \in DOMAIN toPage' : (Names(k)' <=> Names(k + 1)) /\ (Push(k)' <=> Push(k + 1))
      /\ \A k \in DOMAIN toPage : k # 1 => k - 1 \in DOMAIN toPage'
      /\ \A k \in DOMAIN toPage' : k \in Nat /\ k >= 1
  BY OneChangeLess
<1>2. \A k \in DOMAIN toPage : k # 1 => (k - 1) + 1 = k
  BY <1>1
<1>3. \A k \in DOMAIN toPage : k # 1 =>
        /\ k - 1 \in DOMAIN toPage' /\ toPage'[k - 1] = toPage[k]
        /\ Names(k - 1)' <=> Names(k)
        /\ Push(k - 1)' <=> Push(k)
  <2> TAKE k \in DOMAIN toPage
  <2> HAVE k # 1
  <2> DEFINE j == k - 1
  <2>1. j \in DOMAIN toPage' /\ j + 1 = k
    BY <1>1, <1>2
  <2> HIDE DEF j
  <2>2. toPage'[j] = toPage[k] /\ (Names(j)' <=> Names(k)) /\ (Push(j)' <=> Push(k))
    BY <1>1, <2>1
  <2> QED
    BY <2>1, <2>2 DEF j
<1>4. Changing <=> Changing' \/ Names(1)
  BY <1>1, <1>3 DEF Changing, Names
<1>5. Pushing <=> Pushing' \/ Push(1)
  BY <1>1, <1>3 DEF Pushing
<1>6. ASSUME NEW k \in DOMAIN toPage'
      PROVE  /\ \A n \in DOMAIN toPage : k + 1 < n => n # 1 /\ n - 1 \in DOMAIN toPage' /\ k < n - 1
             /\ \A n \in DOMAIN toPage' : k < n => n + 1 \in DOMAIN toPage /\ k + 1 < n + 1
  BY <1>1, <1>6
<1>7. \A k \in DOMAIN toPage' : LastNames(k)' <=> LastNames(k + 1)
  <2> TAKE k \in DOMAIN toPage'
  <2>1. ASSUME LastNames(k)', NEW n \in DOMAIN toPage, k + 1 < n
        PROVE  ~Names(n)
    BY <1>3, <1>6, <2>1 DEF LastNames
  <2>2. ASSUME LastNames(k + 1), NEW n \in DOMAIN toPage', k < n
        PROVE  ~Names(n)'
    BY <1>1, <1>6, <2>2 DEF LastNames
  <2> QED
    BY <1>1, <2>1, <2>2 DEF LastNames
<1>8. Names(1) /\ ~Changing' => LastNames(1)
  BY <1>1, <1>3 DEF LastNames, Changing, Names
<1>9. \A i : \A k \in DOMAIN toPage' : LastNamed(i, k)' <=> LastNamed(i, k + 1)
  <2> TAKE i
  <2> TAKE k \in DOMAIN toPage'
  <2>1. ASSUME LastNamed(i, k)', NEW n \in DOMAIN toPage, k + 1 < n, Names(n)
        PROVE  toPage[n].index # i
    BY <1>3, <1>6, <2>1 DEF LastNamed
  <2>2. ASSUME LastNamed(i, k + 1), NEW n \in DOMAIN toPage', k < n, Names(n)'
        PROVE  toPage'[n].index # i
    BY <1>1, <1>6, <2>2 DEF LastNamed
  <2> QED
    BY <1>1, <2>1, <2>2 DEF LastNamed
<1>10. \A i : NotNamed(i)' => \A k \in DOMAIN toPage : k # 1 /\ Names(k) => toPage[k].index # i
  BY <1>3 DEF NotNamed
<1>11. \A i : NotNamed(i)' /\ Names(1) /\ toPage[1].index = i => LastNamed(i, 1)
  <2>1. ~(1 < 1)
    OBVIOUS
  <2> QED
    BY <1>10, <2>1 DEF LastNamed
<1>12. \A i : NotNamed(i)' /\ (Names(1) => toPage[1].index # i) => NotNamed(i)
  BY <1>10 DEF NotNamed
<1> QED
  BY <1>4, <1>5, <1>7, <1>8, <1>9, <1>11, <1>12

(***************************************************************************)
(* The changes left number their entries on from the first, when that was  *)
(* a push, and from where the page is otherwise.                           *)
(***************************************************************************)
LEMMA OrderLeft ==
  ASSUME TypedInv, toPage # <<>>, toPage' = Tail(toPage), InOrder, PositionInOrder,
         UNCHANGED <<position, reports, toApp>>,
         Push(1) => at' = toPage[1].index + 1,
         ~Push(1) => at' = at
  PROVE  InOrder' /\ PositionInOrder'
<1>1. /\ Len(toPage) \in Nat /\ Len(toPage') = Len(toPage) - 1 /\ 1 \in DOMAIN toPage
      /\ toPage[1] \in Changes
      /\ \A k \in DOMAIN toPage : k \in Nat /\ k >= 1
      /\ \A k \in DOMAIN toPage' : k + 1 \in DOMAIN toPage /\ toPage'[k] = toPage[k + 1]
      /\ \A k \in DOMAIN toPage' : (Names(k)' <=> Names(k + 1)) /\ (Push(k)' <=> Push(k + 1))
      /\ \A k \in DOMAIN toPage : k # 1 => k - 1 \in DOMAIN toPage'
      /\ \A k \in DOMAIN toPage' : k \in Nat /\ k >= 1
  BY OneChangeLess
<1>2. \A k \in DOMAIN toPage' : Further(k)' = Further(k + 1)
  BY <1>1 DEF Further
<1>3. ASSUME NEW k \in Nat, k >= 1, NoPushBefore(k)'
      PROVE  \A n \in DOMAIN toPage : n < k + 1 /\ n # 1 => ~Push(n)
  <2> TAKE n \in DOMAIN toPage
  <2> HAVE n < k + 1 /\ n # 1
  <2> DEFINE j == n - 1
  <2>1. j \in DOMAIN toPage' /\ j < k /\ j + 1 = n
    BY <1>1, <1>3
  <2> HIDE DEF j
  <2> QED
    BY <1>1, <1>3, <2>1 DEF NoPushBefore
<1>4. ASSUME NEW k \in Nat, k >= 1, NoPushBefore(k)'
      PROVE  /\ Push(1) => PushBefore(1, k + 1)
             /\ ~Push(1) => NoPushBefore(k + 1)
  <2>1. 1 < k + 1 /\ ~(1 < 1)
    BY <1>4
  <2> QED
    BY <1>1, <1>3, <1>4, <2>1 DEF PushBefore, NoPushBefore
<1>5. ASSUME NEW k \in Nat, k >= 1, NEW j \in DOMAIN toPage', PushBefore(j, k)'
      PROVE  j + 1 \in DOMAIN toPage /\ PushBefore(j + 1, k + 1) /\ toPage'[j] = toPage[j + 1]
  <2>1. j + 1 < k + 1 /\ Push(j + 1)
    BY <1>1, <1>5 DEF PushBefore
  <2>2. ASSUME NEW n \in DOMAIN toPage, j + 1 < n, n < k + 1
        PROVE  ~Push(n)
    <3> DEFINE l == n - 1
    <3>1. l \in DOMAIN toPage' /\ j < l /\ l < k /\ l + 1 = n
      BY <1>1, <1>5, <2>2
    <3> HIDE DEF l
    <3> QED
      BY <1>1, <1>5, <3>1 DEF PushBefore
  <2> QED
    BY <1>1, <2>1, <2>2 DEF PushBefore
<1>6. toPage[1].index \in Nat /\ at \in Nat
  <2>1. toPage[1].index \in Indexes
    BY <1>1 DEF Changes
  <2>2. at \in Nat
    BY DEF TypedInv, PageTyped
  <2> QED
    BY <2>1, <2>2, IndexesAreNumbers
<1>7. InOrder'
  <2> SUFFICES ASSUME NEW k \in DOMAIN toPage', Names(k)'
               PROVE  /\ NoPushBefore(k)' => toPage'[k].index = at' - 1 + Further(k)'
                      /\ \A j \in DOMAIN toPage' :
                           PushBefore(j, k)' => toPage'[k].index = toPage'[j].index + Further(k)'
    BY DEF InOrder
  <2>1. /\ k \in Nat /\ k >= 1 /\ k + 1 \in DOMAIN toPage /\ Names(k + 1)
        /\ toPage'[k] = toPage[k + 1]
    BY <1>1
  <2>2. /\ NoPushBefore(k + 1) => toPage[k + 1].index = at - 1 + Further(k + 1)
        /\ \A j \in DOMAIN toPage :
             PushBefore(j, k + 1) => toPage[k + 1].index = toPage[j].index + Further(k + 1)
    BY <2>1 DEF InOrder
  <2>3. NoPushBefore(k)' => toPage'[k].index = at' - 1 + Further(k)'
    <3> SUFFICES ASSUME NoPushBefore(k)'
                 PROVE  toPage'[k].index = at' - 1 + Further(k)'
      OBVIOUS
    <3>1. CASE Push(1)
      <4>1. at' - 1 = toPage[1].index
        BY <1>6, <3>1
      <4> QED
        BY <1>1, <1>2, <1>4, <2>1, <2>2, <3>1, <4>1
    <3>2. CASE ~Push(1)
      BY <1>2, <1>4, <2>1, <2>2, <3>2
    <3> QED
      BY <3>1, <3>2
  <2>4. \A j \in DOMAIN toPage' :
          PushBefore(j, k)' => toPage'[k].index = toPage'[j].index + Further(k)'
    BY <1>2, <1>5, <2>1, <2>2
  <2> QED
    BY <2>3, <2>4
<1>8. PositionInOrder'
  <2>1. PICK l \in Nat : l = Len(toPage)
    BY <1>1
  <2>2. Len(toPage') + 1 = l /\ l >= 1
    BY <1>1, <2>1
  <2> SUFFICES ASSUME ~Reporting'
               PROVE  /\ NoPushBefore(l)' => position' = at' - 1
                      /\ \A j \in DOMAIN toPage' :
                           PushBefore(j, l)' => position' = toPage'[j].index
    BY <2>2 DEF PositionInOrder
  <2>3. /\ NoPushBefore(l + 1) => position = at - 1
        /\ \A j \in DOMAIN toPage : PushBefore(j, l + 1) => position = toPage[j].index
    BY <2>1 DEF PositionInOrder, Reporting
  <2>4. NoPushBefore(l)' => position' = at' - 1
    BY <1>1, <1>4, <1>6, <2>2, <2>3
  <2>5. \A j \in DOMAIN toPage' : PushBefore(j, l)' => position' = toPage'[j].index
    BY <1>5, <2>2, <2>3
  <2> QED
    BY <2>4, <2>5
<1> QED
  BY <1>7, <1>8

(***************************************************************************)
(* The page does as the first change says (jebol-navigation.js, move): a   *)
(* push drops what was ahead of the entry shown.                           *)
(***************************************************************************)
LEMMA PushesArePlaced ==
  ASSUME TypedInv, TakeChange, TakePush
  PROVE  LET m == toPage[1]
         IN  /\ m.move = "push" /\ m \in Changes
             /\ at \in 1 .. Len(tab) /\ at' = at + 1 /\ pageIndex' = m.index
             /\ DOMAIN tab = 1 .. Len(tab) /\ Len(tab) \in Nat /\ DOMAIN tab' = 1 .. at + 1
             /\ tab'[at + 1].index = m.index /\ tab'[at + 1].address = m.address
             /\ \A k \in 1 .. at : tab'[k] = tab[k]
<1> DEFINE m == toPage[1]
<1>1. m = Head(toPage) /\ m \in Changes
  BY OneChangeLess DEF TakeChange
<1>2. Entry(m.index, m.address) \in TabEntries
  BY <1>1, PlacesAreAddresses DEF Changes, Entry, TabEntries
<1>3. /\ m.move = "push" /\ at' = at + 1 /\ pageIndex' = m.index
      /\ tab' = Append(SubSeq(tab, 1, at), Entry(m.index, m.address))
  BY <1>1 DEF TakePush
<1> HIDE DEF m
<1>4. /\ at \in 1 .. Len(tab) /\ Len(tab) \in Nat
      /\ tab' \in Seq(TabEntries) /\ Len(tab') = at + 1
      /\ \A k \in 1 .. at : tab'[k] = tab[k]
      /\ tab'[at + 1] = Entry(m.index, m.address)
  BY <1>2, <1>3, PushedTabs DEF TypedInv, TakeChange
<1>5. DOMAIN tab' = 1 .. at + 1 /\ DOMAIN tab = 1 .. Len(tab)
  BY <1>4 DEF TypedInv, PageTyped
<1>6. tab'[at + 1].index = m.index /\ tab'[at + 1].address = m.address
  BY <1>4 DEF Entry
<1> QED
  BY <1>1, <1>3, <1>4, <1>5, <1>6 DEF m

LEMMA ReplacementsArePlaced ==
  ASSUME TypedInv, TakeChange, TakeReplace
  PROVE  LET m == toPage[1]
         IN  /\ m.move = "replace" /\ m \in Changes
             /\ at \in DOMAIN tab /\ at' = at /\ pageIndex' = m.index
             /\ DOMAIN tab' = DOMAIN tab
             /\ tab'[at].index = m.index /\ tab'[at].address = m.address
             /\ \A k \in DOMAIN tab : k # at => tab'[k] = tab[k]
<1> DEFINE m == toPage[1]
<1>1. m = Head(toPage) /\ m \in Changes
  BY OneChangeLess DEF TakeChange
<1>2. /\ m.move = "replace" /\ at' = at /\ pageIndex' = m.index
      /\ tab' = [tab EXCEPT ![at] = Entry(m.index, m.address)]
  BY <1>1 DEF TakeReplace
<1> HIDE DEF m
<1>3. at \in DOMAIN tab
  BY ShownEntriesAreTyped DEF TypedInv, TakeChange
<1> QED
  BY <1>1, <1>2, <1>3 DEF m, Entry

(***************************************************************************)
(* A change taken leaves what both will agree on.                          *)
(***************************************************************************)
LEMMA ChangesKeepAgreement ==
  ASSUME TypedInv, Believed, Agreement, Noting, TakeChange
  PROVE  Believed' /\ Agreement'
<1>1. /\ crossed' # "now" => crossed # "now"
      /\ Crossing' => crossed' = "now"
      /\ crossed # "now" => ~Crossing
  BY Crossings DEF TakeChange
<1>2. /\ Shown /\ toPage # <<>> /\ toPage' = Tail(toPage)
      /\ UNCHANGED <<entries, position, reports, toApp>>
      /\ TakePush \/ TakeReplace \/ TakeMove
  BY DEF TakeChange, navigationVars, historyVars
<1>3. /\ toPage[1] = Head(toPage) /\ toPage[1].move \in {"push", "replace", "back", "forward"}
      /\ toPage[1].address \in Places
      /\ 1 \in DOMAIN toPage
      /\ \A k \in DOMAIN toPage' : toPage'[k] = toPage[k + 1] /\ k + 1 \in DOMAIN toPage
  BY <1>2, OneChangeLess DEF Changes
<1>4. Names(1) => /\ tab'[at'].index = toPage[1].index /\ pageIndex' = toPage[1].index
                  /\ tab'[at'].address = toPage[1].address /\ at' # 0
  <2>1. CASE TakePush
    BY <2>1, PushesArePlaced DEF TakePush
  <2>2. CASE TakeReplace
    BY <1>2, <2>2, ReplacementsArePlaced DEF TakeReplace, Shown
  <2>3. CASE TakeMove
    BY <1>3, <2>3 DEF TakeMove, Names
  <2> QED
    BY <1>2, <2>1, <2>2, <2>3
<1>5. ~Names(1) => UNCHANGED <<tab, at, pageIndex>>
  BY <1>2, <1>3 DEF Names, TakePush, TakeReplace, TakeMove
<1>6. Believed'
  BY <1>1, <1>4, <1>5 DEF Believed, Shown
<1>7. ASSUME Shown', crossed' # "now"
      PROVE  LastSaid'
  <2>1. LastSaid /\ ~Crossing /\ ~Crossing'
    BY <1>1, <1>2, <1>7 DEF Agreement
  <2>2. \A k \in DOMAIN toPage' :
          LastNames(k)' => position' = toPage'[k].index /\ Current' = toPage'[k].address
    BY <1>2, <1>3, <2>1, ChangesLeft DEF LastSaid, Current, EntryAt
  <2>3. CASE Names(1)
    <3>1. Changing /\ ~Reporting
      BY <1>2, <2>1, <2>3, ChangesLeft DEF Crossing
    <3>2. ~Reporting' /\ toApp' = <<>> /\ reports' = <<>>
      BY <1>2, <3>1 DEF Reporting
    <3>3. ~Changing' => position' = tab'[at'].index /\ Current' = Read(tab'[at'].address)
      <4> HAVE ~Changing'
      <4>1. LastNames(1)
        BY <1>2, <2>3, ChangesLeft
      <4>2. position = toPage[1].index /\ Current = toPage[1].address
        BY <1>3, <2>1, <4>1 DEF LastSaid
      <4>3. Current' = Current
        BY <1>2 DEF Current, EntryAt
      <4> QED
        BY <1>2, <1>3, <1>4, <2>3, <4>2, <4>3, PlacesAreAddresses
    <3> QED
      BY <2>2, <3>2, <3>3 DEF LastSaid
  <2>4. CASE ~Names(1)
    <3>1. Changing' <=> Changing
      BY <1>2, <2>4, ChangesLeft
    <3> QED
      BY <1>2, <1>5, <2>1, <2>2, <2>4, <3>1
      DEF LastSaid, Reporting, SaysWhereThePageIs, Current, EntryAt
  <2> QED
    BY <2>3, <2>4
<1> QED
  BY <1>6, <1>7 DEF Agreement

(***************************************************************************)
(* A change taken puts in the tab what the app knows by it.                *)
(***************************************************************************)
LEMMA ChangesKeepOneHistory ==
  ASSUME TypedInv, Believed, OneHistory, Noting, TakeChange, Shown', crossed' = "never"
  PROVE  Numbering' /\ Knowledge'
<1>1. /\ Shown /\ toPage # <<>> /\ toPage' = Tail(toPage)
      /\ UNCHANGED <<entries, position, reports, toApp, typed>>
      /\ TakePush \/ TakeReplace \/ TakeMove
  BY DEF TakeChange, navigationVars, historyVars
<1>2. Numbering /\ Knowledge /\ ~Crossing
  BY <1>1, Crossings DEF OneHistory
<1>3. /\ toPage[1] = Head(toPage) /\ toPage[1].move \in {"push", "replace", "back", "forward"}
      /\ toPage[1].address \in Places
      /\ 1 \in DOMAIN toPage
      /\ \A k \in DOMAIN toPage : k \in Nat /\ k >= 1
      /\ \A k \in DOMAIN toPage' : toPage'[k] = toPage[k + 1] /\ k + 1 \in DOMAIN toPage
  BY <1>1, OneChangeLess DEF Changes
<1>4. at \in Nat /\ at \in DOMAIN tab /\ DOMAIN tab = 1 .. Len(tab) /\ Len(tab) \in Nat
  BY <1>1, ShownEntriesAreTyped DEF TypedInv
<1>5. NoPushBefore(1)
  BY <1>3 DEF NoPushBefore
<1>6. PICK e \in Changes : e = toPage[1]
  BY <1>1, OneChangeLess
<1>7. /\ e.index \in Nat /\ e.address \in Places /\ Read(e.address) = e.address
      /\ Names(1) <=> e.move \in {"push", "replace"}
      /\ Push(1) <=> e.move = "push"
  BY <1>6, PlacesAreAddresses, IndexesAreNumbers DEF Changes, Names, Push
<1>8. Names(1) => e.index = IF Push(1) THEN at ELSE at - 1
  BY <1>2, <1>3, <1>4, <1>5, <1>6 DEF Numbering, InOrder, Further
<1>9. Names(1) => ~Reporting
  BY <1>1, <1>2, ChangesLeft DEF Crossing
\* What was the tab's, and is not dropped or named now, still is.
<1>10. /\ Numbered'
       /\ Push(1) => at' = e.index + 1
       /\ ~Push(1) => at' = at
       /\ Names(1) => InTab(e.index, e.address)' /\ e.index < at'
       /\ \A i \in Nat : \A p :
            InTab(i, p) /\ (Push(1) => i < at) /\ (Names(1) => e.index # i) => InTab(i, p)'
  <2>1. CASE TakePush
    <3>1. /\ Push(1) /\ Names(1) /\ e.index = at /\ at' = at + 1
          /\ DOMAIN tab' = 1 .. at + 1
          /\ tab'[at + 1].index = e.index /\ tab'[at + 1].address = e.address
          /\ \A k \in 1 .. at : tab'[k] = tab[k]
      BY <1>3, <1>6, <1>8, <2>1, PushesArePlaced DEF TakePush, Push, Names
    <3>2. ASSUME NEW k \in DOMAIN tab'
          PROVE  tab'[k].index = k - 1
      <4>1. CASE k = at + 1
        BY <1>4, <3>1, <4>1
      <4>2. CASE k # at + 1
        <5>1. k \in 1 .. at /\ k \in DOMAIN tab
          BY <1>4, <3>1, <4>2
        <5> QED
          BY <1>2, <3>1, <5>1 DEF Numbering, Numbered
      <4> QED
        BY <4>1, <4>2
    <3>3. InTab(e.index, e.address)'
      <4>1. at + 1 \in DOMAIN tab'
        BY <1>4, <3>1
      <4> QED
        BY <1>7, <3>1, <4>1 DEF InTab
    <3>4. ASSUME NEW i \in Nat, NEW p, InTab(i, p), i < at
          PROVE  InTab(i, p)'
      <4>1. i + 1 \in 1 .. at /\ i + 1 \in DOMAIN tab'
        BY <1>4, <3>1, <3>4
      <4> QED
        BY <3>1, <3>4, <4>1 DEF InTab
    <3>5. e.index < at' /\ at' = e.index + 1
      BY <1>4, <3>1
    <3> QED
      BY <3>1, <3>2, <3>3, <3>4, <3>5 DEF Numbered
  <2>2. CASE TakeReplace
    <3>1. /\ ~Push(1) /\ Names(1) /\ e.index = at - 1 /\ at' = at
          /\ DOMAIN tab' = DOMAIN tab
          /\ tab'[at].index = e.index /\ tab'[at].address = e.address
          /\ \A k \in DOMAIN tab : k # at => tab'[k] = tab[k]
      BY <1>3, <1>6, <1>8, <2>2, ReplacementsArePlaced DEF TakeReplace, Push, Names
    <3>2. Numbered'
      BY <1>2, <1>4, <3>1 DEF Numbering, Numbered
    <3>3. InTab(e.index, e.address)'
      <4>1. e.index + 1 = at
        BY <1>4, <3>1
      <4> QED
        BY <1>4, <1>7, <3>1, <4>1 DEF InTab
    <3>4. ASSUME NEW i \in Nat, NEW p, InTab(i, p), e.index # i
          PROVE  InTab(i, p)'
      <4>1. i + 1 # at
        BY <1>4, <3>1, <3>4
      <4> QED
        BY <3>1, <3>4, <4>1 DEF InTab
    <3>5. e.index < at'
      BY <1>4, <3>1
    <3> QED
      BY <3>1, <3>2, <3>3, <3>4, <3>5
  <2>3. CASE TakeMove
    <3>1. ~Push(1) /\ ~Names(1) /\ UNCHANGED <<tab, at>>
      BY <1>3, <2>3 DEF TakeMove, Push, Names
    <3> QED
      BY <1>2, <3>1 DEF Numbering, Numbered, InTab
  <2> QED
    BY <1>1, <2>1, <2>2, <2>3
<1>11. InOrder' /\ PositionInOrder'
  BY <1>1, <1>2, <1>6, <1>10, OrderLeft DEF Numbering
<1>12. ASSUME ~typed'
       PROVE  Known' /\ ReportsOfTheTab'
  <2>1. Known /\ ReportsOfTheTab
    BY <1>1, <1>2, <1>12 DEF Knowledge
  <2>2. ReportsOfTheTab'
    <3>1. CASE Names(1)
      BY <1>1, <1>9, <3>1 DEF Reporting, ReportsOfTheTab
    <3>2. CASE ~Names(1)
      <4>1. UNCHANGED tab
        BY <1>1, <1>3, <3>2 DEF TakePush, TakeReplace, TakeMove, Names
      <4> QED
        BY <1>1, <2>1, <4>1 DEF ReportsOfTheTab, OfTheTab, InTab
    <3> QED
      BY <3>1, <3>2
  <2>3. ASSUME ~Fresh', NEW i \in DOMAIN entries'
        PROVE  /\ \A k \in DOMAIN toPage' : LastNamed(i, k)' => entries'[i] = toPage'[k].address
               /\ NotNamed(i)' => InTab(i, entries[i])' /\ (Pushing' => i < at')
    <3>1. i \in DOMAIN entries /\ i \in Nat /\ entries' = entries
      BY <1>1, <2>3, IndexesAreNumbers DEF TypedInv, HistoryTypeOK
    <3>2. /\ \A k \in DOMAIN toPage : LastNamed(i, k) => entries[i] = toPage[k].address
          /\ NotNamed(i) => InTab(i, entries[i]) /\ (Pushing => i < at)
      BY <1>1, <2>1, <2>3, <3>1 DEF Known, Fresh
    <3>3. \A k \in DOMAIN toPage' : LastNamed(i, k)' => entries'[i] = toPage'[k].address
      BY <1>1, <1>3, <3>1, <3>2, ChangesLeft
    <3>4. PICK p : p = entries[i]
      OBVIOUS
    <3>5. NotNamed(i)' => InTab(i, p)' /\ (Pushing' => i < at')
      <4>1. CASE Names(1) /\ e.index = i
        <5>1. NotNamed(i)' => p = e.address
          BY <1>1, <1>3, <1>6, <3>2, <3>4, <4>1, ChangesLeft
        <5> QED
          BY <1>10, <4>1, <5>1
      <4>2. CASE Names(1) => e.index # i
        <5> SUFFICES ASSUME NotNamed(i)'
                     PROVE  InTab(i, p)' /\ (Pushing' => i < at')
          OBVIOUS
        <5>1. InTab(i, p) /\ (Pushing => i < at)
          BY <1>1, <1>6, <3>2, <3>4, <4>2, ChangesLeft
        <5>2. (Pushing' => Pushing) /\ (Push(1) => Pushing)
          BY <1>1, ChangesLeft
        <5>3. InTab(i, p)'
          BY <1>10, <3>1, <4>2, <5>1, <5>2
        <5>4. Push(1) => at < at'
          BY <1>4, <1>7, <1>8, <1>10
        <5>5. Pushing' => i < at'
          <6>1. at' \in Nat
            BY <1>4, <1>7, <1>10
          <6> QED
            BY <1>4, <1>10, <3>1, <5>1, <5>2, <5>4, <6>1
        <5> QED
          BY <5>3, <5>5
      <4> QED
        BY <4>1, <4>2
    <3>6. p = entries'[i]
      BY <3>1, <3>4
    <3> QED
      BY <3>3, <3>5, <3>6 DEF InTab
  <2> QED
    BY <2>2, <2>3 DEF Known
<1> QED
  BY <1>10, <1>11, <1>12 DEF Numbering, Knowledge

(***************************************************************************)
(* The app takes a report: while nothing crosses it, it says what the page *)
(* is, and the last one says where the page is (Navigation.java).          *)
(***************************************************************************)
LEMMA TakenReports ==
  ASSUME TypedInv, TakeStart \/ TakeArrival
  PROVE  LET r == reports[1]
         IN  /\ reports # <<>> /\ reports' = Tail(reports)
             /\ r = Head(reports) /\ r.kind \in {"start", "arrival"}
             /\ position' = r.index /\ Current' = Read(r.address)
             /\ r.index \in DOMAIN entries' /\ entries'[r.index] = Read(r.address)
             /\ \A i \in DOMAIN entries' : i # r.index =>
                  ~Fresh /\ i \in DOMAIN entries /\ entries'[i] = entries[i]
<1> DEFINE r == reports[1]
<1>1. /\ reports # <<>> /\ reports' = Tail(reports)
      /\ Head(reports).kind \in {"start", "arrival"}
  BY DEF TakeStart, TakeArrival, Taking
<1>2. r = Head(reports)
  BY <1>1, ShorterQueue DEF TypedInv, QueuesTyped
<1> HIDE DEF r
<1>3. CASE TakeStart
  <2>1. entries' = [j \in {r.index} |-> Read(r.address)] /\ position' = r.index
    BY <1>2, <1>3 DEF TakeStart, StartAt
  <2> QED
    BY <1>1, <1>2, <2>1 DEF r, Current, EntryAt
<1>4. CASE TakeArrival
  <2>1. entries' = With(r.index, Read(r.address)) /\ position' = r.index
    BY <1>2, <1>4 DEF TakeArrival, Arrive, ArriveAt
  <2>2. ~Fresh
    BY <1>2, <1>4 DEF TakeArrival, Taking, Fresh, r
  <2> QED
    BY <1>1, <1>2, <2>1, <2>2 DEF r, Current, EntryAt, With
<1> QED
  BY <1>3, <1>4

\* A queue whose length has a name.
LEMMA QueueTaken ==
  ASSUME NEW S, NEW s \in Seq(S), s # <<>>, NEW t, t = Tail(s), NEW n \in Nat, n = Len(s)
  PROVE  /\ n # 0 /\ Len(t) = n - 1 /\ DOMAIN s = 1 .. n /\ DOMAIN t = 1 .. n - 1
         /\ \A k \in DOMAIN t : t[k] = s[k + 1] /\ k + 1 \in DOMAIN s
         /\ 1 \in DOMAIN s /\ Head(s) = s[1] /\ n \in DOMAIN s
         /\ (t = <<>> <=> n = 1)
         /\ (t # <<>> => t[n - 1] = s[n] /\ n - 1 \in DOMAIN t)
<1>1. /\ n # 0 /\ Len(t) = n - 1 /\ DOMAIN s = 1 .. n /\ DOMAIN t = 1 .. n - 1
      /\ \A k \in DOMAIN t : t[k] = s[k + 1] /\ k + 1 \in DOMAIN s
      /\ 1 \in DOMAIN s /\ Head(s) = s[1]
      /\ (t = <<>> <=> n = 1)
  <2>1. Len(s) \in Nat \ {0} /\ Len(t) = Len(s) - 1
    BY ShorterQueue
  <2>2. DOMAIN s = 1 .. Len(s) /\ DOMAIN t = 1 .. Len(s) - 1
    BY ShorterQueue
  <2>3. \A k \in DOMAIN t : t[k] = s[k + 1] /\ k + 1 \in DOMAIN s
    BY ShorterQueue
  <2>4. 1 \in DOMAIN s /\ s[1] = Head(s)
    BY ShorterQueue
  <2>5. t = <<>> <=> Len(s) = 1
    BY ShorterQueue
  <2> QED
    BY <2>1, <2>2, <2>3, <2>4, <2>5
<1>2. n \in DOMAIN s /\ (t # <<>> => n - 1 \in DOMAIN t /\ (n - 1) + 1 = n)
  BY <1>1
<1>3. t # <<>> => t[n - 1] = s[n]
  BY <1>1, <1>2
<1> QED
  BY <1>1, <1>2, <1>3

LEMMA TakingKeepsIInv ==
  ASSUME TypedInv, Believed, Agreement, OneHistory, Noting,
         TakeStart \/ TakeArrival, UNCHANGED pageVars
  PROVE  Believed' /\ Agreement' /\ OneHistory'
<1>1. /\ crossed' # "now" => crossed # "now" /\ ~Changing
      /\ crossed' = "never" => crossed = "never"
      /\ Crossing' => crossed' = "now"
  BY TakenReports, Crossings DEF pageVars, Reporting, Crossing
<1>2. UNCHANGED <<tab, at, pageIndex, toPage, toApp, typed, traversals>>
  BY DEF pageVars
<1>3. PICK r \in Reports : r = reports[1]
  BY TakenReports, ShorterQueue DEF TypedInv, QueuesTyped
<1>4. /\ reports # <<>> /\ reports' = Tail(reports)
      /\ r = Head(reports) /\ r.kind \in {"start", "arrival"}
      /\ position' = r.index /\ Current' = Read(r.address)
      /\ r.index \in DOMAIN entries' /\ entries'[r.index] = Read(r.address)
      /\ \A i \in DOMAIN entries' : i # r.index =>
           ~Fresh /\ i \in DOMAIN entries /\ entries'[i] = entries[i]
  BY <1>3, TakenReports
<1>5. PICK n \in Nat : n = Len(reports)
  BY Queued DEF TypedInv, QueuesTyped
<1>6. /\ DOMAIN reports = 1 .. n /\ DOMAIN reports' = 1 .. n - 1
      /\ Len(reports') = n - 1
      /\ \A k \in DOMAIN reports' : reports'[k] = reports[k + 1] /\ k + 1 \in DOMAIN reports
      /\ 1 \in DOMAIN reports
      /\ (reports' = <<>> <=> n = 1)
      /\ (reports' # <<>> => reports'[n - 1] = reports[n])
  <2>1. /\ reports \in Seq(Reports) /\ reports # <<>> /\ reports' = Tail(reports)
        /\ n \in Nat /\ n = Len(reports)
    BY <1>4, <1>5 DEF TypedInv, QueuesTyped
  <2>2. DOMAIN reports = 1 .. n /\ DOMAIN reports' = 1 .. n - 1 /\ Len(reports') = n - 1
    BY <2>1, QueueTaken
  <2>3. \A k \in DOMAIN reports' : reports'[k] = reports[k + 1] /\ k + 1 \in DOMAIN reports
    BY <2>1, QueueTaken
  <2>4. 1 \in DOMAIN reports
    BY <2>1, QueueTaken
  <2>5. reports' = <<>> <=> n = 1
    BY <2>1, QueueTaken
  <2>6. reports' # <<>> => reports'[n - 1] = reports[n]
    BY <2>1, QueueTaken
  <2> QED
    BY <2>2, <2>3, <2>4, <2>5, <2>6
<1>7. Changing' <=> Changing
  BY <1>2 DEF Changing
<1>8. Believed'
  BY <1>1, <1>2 DEF Believed, Shown
<1>9. ASSUME Shown', crossed' # "now"
      PROVE  LastSaid'
  <2>1. LastSaid /\ ~Changing /\ ~Changing'
    BY <1>1, <1>2, <1>7, <1>9 DEF Agreement, Shown
  <2>2. toApp # <<>> => SaysWhereThePageIs(toApp[Len(toApp)])
    BY <2>1 DEF LastSaid
  <2>3. toApp = <<>> => SaysWhereThePageIs(reports[n])
    BY <1>4, <1>5, <2>1 DEF LastSaid
  <2>4. toApp = <<>> /\ reports' # <<>> => SaysWhereThePageIs(reports[Len(reports)])'
    BY <1>2, <1>6, <2>3 DEF SaysWhereThePageIs
  <2>5. ~Reporting' => position' = tab'[at'].index /\ Current' = Read(tab'[at'].address)
    BY <1>2, <1>3, <1>4, <1>6, <2>3 DEF Reporting, SaysWhereThePageIs
  <2>6. \A k \in DOMAIN toPage' : ~LastNames(k)'
    BY <2>1 DEF LastNames, Names, Changing
  <2> QED
    BY <1>2, <2>2, <2>4, <2>5, <2>6 DEF LastSaid, SaysWhereThePageIs
<1>10. ASSUME Shown', crossed' = "never"
       PROVE  Numbering' /\ Knowledge'
  <2>1. Shown /\ Numbering /\ Knowledge /\ ~Changing /\ LastSaid'
    BY <1>1, <1>2, <1>9, <1>10 DEF OneHistory, Shown
  <2>2. \A k \in DOMAIN toPage : ~Names(k) /\ ~Push(k)
    BY <2>1 DEF Changing, Names, Push
  <2>3. \A k \in DOMAIN toPage' : ~Names(k)' /\ ~Push(k)'
    BY <1>2, <2>2 DEF Names, Push
  <2>4. Numbered' /\ InOrder'
    BY <1>2, <2>1, <2>3 DEF Numbering, Numbered, InOrder
  <2>5. PositionInOrder'
    <3>1. at \in DOMAIN tab
      BY <2>1, ShownEntriesAreTyped DEF TypedInv
    <3>2. tab'[at'].index = at' - 1
      BY <1>2, <2>4, <3>1 DEF Numbered
    <3>3. ~Reporting' => position' = tab'[at'].index
      BY <1>7, <2>1 DEF LastSaid
    <3> QED
      BY <2>3, <3>2, <3>3 DEF PositionInOrder, PushBefore
  <2>6. ASSUME ~typed'
        PROVE  Known' /\ ReportsOfTheTab'
    <3>1. Known /\ ReportsOfTheTab
      BY <1>2, <2>1, <2>6 DEF Knowledge
    <3>2. ReportsOfTheTab'
      BY <1>2, <1>6, <3>1 DEF ReportsOfTheTab, OfTheTab, InTab
    <3>3. InTab(r.index, Read(r.address))
      BY <1>3, <1>6, <3>1 DEF ReportsOfTheTab, OfTheTab
    <3>4. ASSUME NEW i \in DOMAIN entries'
          PROVE  InTab(i, entries'[i])
      <4>1. CASE i = r.index
        BY <1>4, <3>3, <4>1
      <4>2. CASE i # r.index
        <5>1. ~Fresh /\ i \in DOMAIN entries /\ entries'[i] = entries[i]
          BY <1>4, <3>4, <4>2
        <5>2. NotNamed(i)
          BY <2>2 DEF NotNamed
        <5> QED
          BY <3>1, <5>1, <5>2 DEF Known
      <4> QED
        BY <4>1, <4>2
    <3>5. Known'
      BY <1>2, <2>3, <3>4 DEF Known, InTab, LastNamed, Pushing
    <3> QED
      BY <3>2, <3>5
  <2> QED
    BY <2>4, <2>5, <2>6 DEF Numbering, Knowledge
<1> QED
  BY <1>8, <1>9, <1>10 DEF Agreement, OneHistory

(***************************************************************************)
(* The page reports where it is (jebol-navigation.js, tell).               *)
(***************************************************************************)
LEMMA ReportingKeepsIInv ==
  ASSUME TypedInv, Believed, OneHistory, Noting, Shown,
         NEW r \in Reports, toApp' = Append(toApp, r), r.kind \in {"start", "arrival"},
         PageTyped', at' \in DOMAIN tab', tab'[at'].index = r.index, tab'[at'].address = r.address,
         pageIndex' = r.index,
         UNCHANGED <<entries, position, reports, toPage>>, Fresh => Fresh',
         typed' \/ UNCHANGED <<tab, typed>>,
         Numbered => Numbered'
  PROVE  Believed' /\ Agreement' /\ OneHistory'
<1>1. /\ crossed' = "never" => crossed = "never"
      /\ Crossing' => crossed' = "now"
  BY Crossings
<1>2. /\ toApp' # <<>> /\ toApp'[Len(toApp')] = r
      /\ DOMAIN toApp' = DOMAIN toApp \cup {Len(toApp')}
      /\ \A k \in DOMAIN toApp : toApp'[k] = toApp[k]
  <2>1. PICK n \in Nat : n = Len(toApp)
    BY Queued DEF TypedInv, PageTyped
  <2>2. /\ toApp' # <<>> /\ Len(toApp') = n + 1 /\ toApp'[n + 1] = r
        /\ DOMAIN toApp = 1 .. n /\ DOMAIN toApp' = 1 .. n + 1
        /\ \A k \in DOMAIN toApp : toApp'[k] = toApp[k]
    <3>1. toApp \in Seq(Reports)
      BY DEF TypedInv, PageTyped
    <3> QED
      BY <2>1, <3>1, LongerQueue
  <2> QED
    BY <2>2
<1>3. Reporting' /\ (Shown' => SaysWhereThePageIs(toApp[Len(toApp)])')
  BY <1>2 DEF Reporting, SaysWhereThePageIs
<1>4. crossed' # "now" => ~Changing'
  BY <1>1, <1>3 DEF Crossing
<1>5. ~Changing' => \A k \in DOMAIN toPage' : ~Names(k)' /\ ~Push(k)'
  BY DEF Changing, Names, Push
<1>6. Believed'
  BY <1>1 DEF Believed
<1>7. Agreement'
  <2>1. ~Changing' => \A k \in DOMAIN toPage' : ~LastNames(k)'
    BY <1>5 DEF LastNames
  <2> QED
    BY <1>2, <1>3, <1>4, <2>1 DEF Agreement, LastSaid
<1>8. ASSUME Shown', crossed' = "never"
      PROVE  Numbering' /\ Knowledge'
  <2>1. Numbering /\ Knowledge /\ ~Changing'
    BY <1>1, <1>4, <1>8 DEF OneHistory
  <2>2. \A k \in DOMAIN toPage' : ~Names(k)' /\ ~Push(k)'
    BY <1>5, <2>1
  <2>3. \A k \in DOMAIN toPage : ~Names(k) /\ ~Push(k)
    BY <2>2 DEF Names, Push
  <2>4. Numbering'
    BY <1>3, <2>1, <2>2 DEF Numbering, InOrder, PositionInOrder
  <2>5. ASSUME ~typed'
        PROVE  Known' /\ ReportsOfTheTab'
    <3>1. /\ tab' = tab /\ Known /\ ReportsOfTheTab
      BY <2>1, <2>5 DEF Knowledge
    <3>2. OfTheTab(r)'
      <4>1. at' \in Nat /\ r.index = at' - 1
        <5>1. at' \in Nat
          BY DEF PageTyped
        <5> QED
          BY <2>1, <2>4, <5>1 DEF Numbering, Numbered
      <4>2. r.index + 1 = at'
        BY <4>1
      <4> QED
        BY <4>2 DEF OfTheTab, InTab
    <3>3. ReportsOfTheTab'
      BY <1>2, <3>1, <3>2 DEF ReportsOfTheTab, OfTheTab, InTab
    <3>4. ASSUME ~Fresh', NEW i \in DOMAIN entries'
          PROVE  InTab(i, entries[i])'
      <4>1. NotNamed(i) /\ ~Fresh /\ i \in DOMAIN entries
        BY <2>3, <3>4 DEF NotNamed
      <4> QED
        BY <3>1, <4>1 DEF Known, InTab
    <3>5. Known'
      BY <2>2, <3>4 DEF Known, InTab, LastNamed, Pushing
    <3> QED
      BY <3>3, <3>5
  <2> QED
    BY <2>4, <2>5 DEF Knowledge
<1> QED
  BY <1>6, <1>7, <1>8 DEF OneHistory

(***************************************************************************)
(* A report reaches the interpreter's queue.                               *)
(***************************************************************************)
LEMMA DeliveringKeepsIInv ==
  ASSUME TypedInv, Believed, Agreement, OneHistory, Noting, Deliver
  PROVE  Believed' /\ Agreement' /\ OneHistory'
<1>1. /\ toApp # <<>> /\ toApp' = Tail(toApp)
      /\ UNCHANGED <<entries, position, tab, at, pageIndex, toPage, traversals, typed>>
      /\ reports' = Append(reports, Head(toApp))
  BY DEF Deliver, historyVars
<1>2. PICK n \in Nat : n = Len(toApp)
  BY Queued DEF TypedInv, PageTyped
<1>3. /\ n # 0 /\ Len(toApp') = n - 1 /\ DOMAIN toApp = 1 .. n /\ DOMAIN toApp' = 1 .. n - 1
      /\ \A k \in DOMAIN toApp' : toApp'[k] = toApp[k + 1] /\ k + 1 \in DOMAIN toApp
      /\ 1 \in DOMAIN toApp /\ Head(toApp) = toApp[1]
      /\ (toApp' = <<>> <=> n = 1)
      /\ (toApp' # <<>> => toApp'[n - 1] = toApp[n])
  <2>1. toApp \in Seq(Reports)
    BY DEF TypedInv, PageTyped
  <2> QED
    BY <1>1, <1>2, <2>1, QueueTaken
<1>4. PICK s \in Nat : s = Len(reports)
  BY Queued DEF TypedInv, QueuesTyped
<1>5. /\ reports' # <<>> /\ Len(reports') = s + 1 /\ reports'[s + 1] = toApp[1]
      /\ DOMAIN reports = 1 .. s /\ DOMAIN reports' = 1 .. s + 1
      /\ \A k \in DOMAIN reports : reports'[k] = reports[k]
      /\ (reports = <<>> <=> s = 0)
  <2>1. toApp[1] \in Reports
    BY <1>3 DEF TypedInv, PageTyped
  <2>2. reports \in Seq(Reports)
    BY DEF TypedInv, QueuesTyped
  <2> QED
    BY <1>1, <1>3, <1>4, <2>1, <2>2, LongerQueue, Queued
<1>6. /\ crossed' # "now" => crossed # "now" /\ ~Changing
      /\ crossed' = "never" => crossed = "never"
      /\ Crossing' => crossed' = "now"
  BY <1>1, <1>2, <1>3, Crossings DEF Reporting, Crossing
<1>7. Believed'
  BY <1>1, <1>6 DEF Believed, Shown
<1>8. Changing' <=> Changing
  BY <1>1 DEF Changing
<1>9. ASSUME Shown', crossed' # "now"
      PROVE  LastSaid'
  <2>1. LastSaid /\ ~Changing /\ ~Changing'
    BY <1>1, <1>6, <1>8, <1>9 DEF Agreement, Shown
  <2>2. SaysWhereThePageIs(toApp[n])
    BY <1>1, <1>2, <2>1 DEF LastSaid
  <2>3. toApp' # <<>> => SaysWhereThePageIs(toApp[Len(toApp)])'
    BY <1>1, <1>3, <2>2 DEF SaysWhereThePageIs
  <2>4. toApp' = <<>> => SaysWhereThePageIs(reports[Len(reports)])'
    BY <1>1, <1>3, <1>5, <2>2 DEF SaysWhereThePageIs
  <2>5. \A k \in DOMAIN toPage' : ~LastNames(k)'
    BY <2>1 DEF LastNames, Names, Changing
  <2> QED
    BY <1>5, <2>3, <2>4, <2>5 DEF LastSaid, Reporting
<1>10. ASSUME Shown', crossed' = "never"
       PROVE  Numbering' /\ Knowledge'
  <2>1. Numbering /\ Knowledge /\ ~Changing /\ Shown
    BY <1>1, <1>6, <1>10 DEF OneHistory, Shown
  <2>2. Numbering'
    <3>1. \A k \in DOMAIN toPage' : ~Names(k)'
      BY <1>1, <2>1 DEF Changing, Names
    <3>2. Reporting'
      BY <1>5 DEF Reporting
    <3> QED
      BY <1>1, <2>1, <3>1, <3>2 DEF Numbering, Numbered, InOrder, PositionInOrder
  <2>3. ASSUME ~typed'
        PROVE  Known' /\ ReportsOfTheTab'
    <3>1. Known /\ ReportsOfTheTab
      BY <1>1, <2>1, <2>3 DEF Knowledge
    <3>2. Fresh => Fresh'
      <4>1. reports # <<>> => 1 \in DOMAIN reports
        BY <1>5
      <4> QED
        BY <1>1, <1>5, <4>1 DEF Fresh
    <3>3. Known'
      BY <1>1, <3>1, <3>2 DEF Known, LastNamed, NotNamed, Names, InTab, Pushing, Push
    <3>4. \A k \in DOMAIN toApp' : OfTheTab(toApp[k])'
      BY <1>1, <1>3, <3>1 DEF ReportsOfTheTab, OfTheTab, InTab
    <3>5. ASSUME NEW k \in DOMAIN reports'
          PROVE  OfTheTab(reports'[k])
      <4>1. CASE k = s + 1
        BY <1>3, <1>5, <3>1, <4>1 DEF ReportsOfTheTab
      <4>2. CASE k # s + 1
        <5>1. k \in DOMAIN reports
          BY <1>5, <4>2
        <5> QED
          BY <1>5, <3>1, <5>1 DEF ReportsOfTheTab
      <4> QED
        BY <4>1, <4>2
    <3>6. \A k \in DOMAIN reports' : OfTheTab(reports[k])'
      BY <1>1, <3>5 DEF OfTheTab, InTab
    <3> QED
      BY <3>3, <3>4, <3>6 DEF ReportsOfTheTab
  <2> QED
    BY <2>2, <2>3 DEF Knowledge
<1> QED
  BY <1>7, <1>9, <1>10 DEF Agreement, OneHistory

-----------------------------------------------------------------------------
(***************************************************************************)
(* Each action in turn: the app's.                                         *)
(***************************************************************************)
LEMMA GoingKeepsIInv ==
  ASSUME TypedInv, Believed, Agreement, OneHistory, Noting, NEW p \in Places, PageGoTo(p)
  PROVE  Believed' /\ Agreement' /\ OneHistory'
<1>1. /\ reports = <<>> /\ UNCHANGED <<reports, tab, at, pageIndex, traversals, toApp, typed>>
      /\ usedByApp' = TRUE
  BY DEF PageGoTo, GoTo, Returns, Acting
<1>2. ~Fresh
  BY <1>1 DEF Fresh
<1>3. CASE UNCHANGED <<entries, position>>
  <2>1. toPage' = toPage
    BY <1>3 DEF PageGoTo
  <2> QED
    BY <1>1, <1>2, <1>3, <2>1, StayingKeepsIInv
<1>4. CASE Advance(p)
  <2>1. /\ position' = position + 1 /\ position \in Nat
        /\ DOMAIN entries' = {i \in DOMAIN entries : i <= position} \cup {position + 1}
        /\ entries'[position + 1] = p
        /\ \A i \in DOMAIN entries : i <= position => entries'[i] = entries[i]
        /\ HistoryTypeOK'
    BY <1>1, <1>4, AdvancesAreTyped, IndexesAreNumbers DEF TypedInv, HistoryTypeOK
  <2>2. [move |-> "push", index |-> position', address |-> p] \in Changes
    BY <2>1 DEF HistoryTypeOK, Changes
  <2>3. PICK m \in Changes : m = [move |-> "push", index |-> position', address |-> p]
    BY <2>2
  <2>4. /\ m.move = "push" /\ m.move \in {"push", "replace"}
        /\ m.index = position + 1 /\ position' = m.index /\ m.address = p
    BY <2>1, <2>3
  <2>5. toPage' = Append(toPage, m)
    <3>1. position' # position
      BY <2>1
    <3> QED
      BY <2>3, <3>1 DEF PageGoTo, Tell
  <2>6. Current' = m.address
    BY <2>1, <2>4 DEF Current, EntryAt
  <2>7. Believed' /\ Agreement'
    BY <1>1, <2>4, <2>5, <2>6, NamingKeepsAgreement
  <2>8. entries'[position + 1] = m.address
    BY <2>1, <2>4
  <2>9. ASSUME Shown', crossed' = "never"
        PROVE  Numbering' /\ Knowledge'
    BY <1>1, <1>2, <2>1, <2>4, <2>5, <2>6, <2>8, <2>9, PushingKeepsOneHistory
  <2> QED
    BY <2>7, <2>9 DEF OneHistory
<1> QED
  BY <1>3, <1>4 DEF PageGoTo, GoTo, Stay, Refused

LEMMA ReplacingKeepsIInv ==
  ASSUME TypedInv, Believed, Agreement, OneHistory, Noting, NEW p \in Places, PageReplace(p)
  PROVE  Believed' /\ Agreement' /\ OneHistory'
<1>1. /\ reports = <<>> /\ UNCHANGED <<reports, tab, at, pageIndex, traversals, toApp, typed>>
  BY DEF PageReplace, Replace, Returns, Acting
<1>2. ~Fresh
  BY <1>1 DEF Fresh
<1>3. CASE RateReached
  <2>1. UNCHANGED <<entries, position, toPage>>
    BY <1>3 DEF PageReplace, Replace, Rewrite, CountChange, Refused
  <2> QED
    BY <1>1, <1>2, <2>1, StayingKeepsIInv
<1>4. CASE ~RateReached
  <2>1. entries' = With(position, p) /\ position' = position /\ position \in Indexes
    BY <1>4 DEF PageReplace, Replace, Refused, RefuseChange, Rewrite, TypedInv, HistoryTypeOK
  <2>2. [move |-> "replace", index |-> position, address |-> p] \in Changes
    BY <2>1 DEF Changes
  <2>3. PICK m \in Changes : m = [move |-> "replace", index |-> position, address |-> p]
    BY <2>2
  <2>4. /\ m.move = "replace" /\ m.move \in {"push", "replace"}
        /\ m.index = position /\ position' = m.index /\ m.address = p
    BY <2>1, <2>3
  <2>5. toPage' = Append(toPage, m)
    BY <1>4, <2>3 DEF PageReplace, Tell
  <2>6. Current' = m.address
    BY <2>1, <2>4 DEF Current, EntryAt, With
  <2>7. Believed' /\ Agreement'
    BY <1>1, <2>4, <2>5, <2>6, NamingKeepsAgreement
  <2>8. entries' = With(position, m.address)
    BY <2>1, <2>4
  <2>9. ASSUME Shown', crossed' = "never"
        PROVE  Numbering' /\ Knowledge'
    BY <1>1, <1>2, <2>1, <2>4, <2>5, <2>6, <2>8, <2>9, RenamingKeepsOneHistory
  <2> QED
    BY <2>7, <2>9 DEF OneHistory
<1> QED
  BY <1>3, <1>4

LEMMA MovingKeepsIInv ==
  ASSUME TypedInv, Believed, Agreement, OneHistory, Noting, NEW d \in Ways,
         PageGoBackOrForward(d)
  PROVE  Believed' /\ Agreement' /\ OneHistory'
<1>1. /\ reports = <<>>
      /\ UNCHANGED <<entries, position, reports, tab, at, pageIndex, traversals, toApp, typed>>
  BY DEF PageGoBackOrForward, AskPort, MoveNowhere, Returns, Acting, CountTarget, Refused
<1>2. ~Fresh
  BY <1>1 DEF Fresh
<1>3. CASE toPage' = toPage
  BY <1>1, <1>2, <1>3, StayingKeepsIInv
<1>4. CASE HasTarget(d) /\ Tell(d, Target(d), EntryAt(Target(d)))
  <2>1. Target(d) \in Indexes /\ EntryAt(Target(d)) \in Places
    BY <1>4, TargetsAreIndexes, EntriesArePlaces DEF TypedInv
  <2>2. [move |-> d, index |-> Target(d), address |-> EntryAt(Target(d))] \in Changes
    BY <2>1 DEF Changes, Ways
  <2>3. PICK m \in Changes : m = [move |-> d, index |-> Target(d), address |-> EntryAt(Target(d))]
    BY <2>2
  <2>4. m.move \in {"back", "forward"} /\ toPage' = Append(toPage, m)
    BY <1>4, <2>3 DEF Tell, Ways
  <2> QED
    BY <1>1, <2>4, AskingKeepsIInv
<1> QED
  BY <1>3, <1>4 DEF PageGoBackOrForward, AskPort

LEMMA AppAloneKeepsIInv ==
  ASSUME TypedInv, Believed, Agreement, OneHistory, Noting, AppAlone
  PROVE  Believed' /\ Agreement' /\ OneHistory'
<1>1. UNCHANGED pageVars
  BY DEF AppAlone
<1>2. CASE TakeStart \/ TakeArrival
  BY <1>1, <1>2, TakingKeepsIInv
<1>3. CASE UNCHANGED <<entries, position, reports>>
  <2>1. UNCHANGED <<tab, at, pageIndex, toPage, traversals, toApp, typed>>
    BY <1>1 DEF pageVars
  <2>2. Fresh => Fresh'
    BY <1>3, <2>1 DEF Fresh
  <2> QED
    BY <1>3, <2>1, <2>2, StayingKeepsIInv
<1>4. ASSUME NEW c \in Calls, Begin(c)
      PROVE  UNCHANGED <<entries, position, reports>>
  BY <1>4 DEF Begin, historyVars
<1>5. QuietCall => UNCHANGED <<entries, position, reports>>
  BY DEF QuietCall, FinishMove, CurrentPlace, AcceptNextEvent, Returns,
         AcceptPendingReports, historyVars
<1> QED
  BY <1>2, <1>3, <1>4, <1>5 DEF AppAlone

(***************************************************************************)
(* The page's and the operator's.                                          *)
(***************************************************************************)
LEMMA ChangingKeepsIInv ==
  ASSUME TypedInv, Believed, Agreement, OneHistory, Noting, TakeChange
  PROVE  Believed' /\ Agreement' /\ OneHistory'
<1>1. ASSUME Shown', crossed' = "never"
      PROVE  Numbering' /\ Knowledge'
  BY <1>1, ChangesKeepOneHistory
<1> QED
  BY <1>1, ChangesKeepAgreement DEF OneHistory

LEMMA TraversingKeepsIInv ==
  ASSUME TypedInv, Believed, Agreement, OneHistory, Noting, Traverse, PageTyped'
  PROVE  Believed' /\ Agreement' /\ OneHistory'
<1>1. /\ Shown /\ traversals # <<>> /\ traversals' = Tail(traversals)
      /\ UNCHANGED <<entries, position, reports, tab, toPage, typed>>
  BY DEF Traverse, navigationVars, historyVars
<1>2. Fresh => Fresh'
  <2>1. traversals \in Seq(Asked)
    BY DEF TypedInv, PageTyped
  <2>2. \A k \in DOMAIN traversals' :
          traversals'[k] = traversals[k + 1] /\ k + 1 \in DOMAIN traversals
    BY <1>1, <2>1, ShorterQueue
  <2> QED
    BY <1>1, <2>2 DEF Fresh
<1>3. CASE TraverseTo
  <2>1. /\ Reached \in DOMAIN tab /\ at' = Reached /\ pageIndex' = tab[Reached].index
        /\ toApp' = Append(toApp, Arrived(tab[Reached].index, tab[Reached].address))
    BY <1>3 DEF TraverseTo, Report
  <2>2. tab[Reached].index \in Indexes /\ tab[Reached].address \in Addresses
    BY <2>1, ShownEntriesAreTyped DEF TypedInv
  <2>3. PICK r \in Reports : r = Arrived(tab[Reached].index, tab[Reached].address)
    BY <2>2, StartsAndArrivals
  <2>4. r.kind = "arrival" /\ r.index = tab[Reached].index /\ r.address = tab[Reached].address
    BY <2>2, <2>3, StartsAndArrivals
  <2>5. /\ toApp' = Append(toApp, r) /\ r.kind \in {"start", "arrival"}
        /\ at' \in DOMAIN tab' /\ tab'[at'].index = r.index /\ tab'[at'].address = r.address
        /\ pageIndex' = r.index
    BY <1>1, <2>1, <2>3, <2>4
  <2>6. Numbered => Numbered'
    BY <1>1 DEF Numbered
  <2> QED
    BY <1>1, <1>2, <2>5, <2>6, ReportingKeepsIInv
<1>4. CASE TraverseNowhere
  BY <1>1, <1>2, <1>4, StayingKeepsIInv DEF TraverseNowhere
<1>5. CASE LeaveTheApp
  BY <1>5, LeavingKeepsIInv DEF LeaveTheApp, Shown
<1> QED
  BY <1>3, <1>4, <1>5 DEF Traverse

LEMMA ButtonsKeepIInv ==
  ASSUME TypedInv, Believed, Agreement, OneHistory, Noting, NEW d \in Ways, PressButton(d)
  PROVE  Believed' /\ Agreement' /\ OneHistory'
<1>1. /\ UNCHANGED <<entries, position, reports, tab, at, pageIndex, toPage, toApp, typed>>
      /\ traversals' = Append(traversals, [direction |-> d, by |-> "operator", target |-> 0])
  BY DEF PressButton, navigationVars, historyVars
<1>2. PICK t \in Asked : t = [direction |-> d, by |-> "operator", target |-> 0]
  BY IndexesAreNumbers DEF Asked, Ways
<1>3. traversals \in Seq(Asked)
  BY DEF TypedInv, PageTyped
<1>4. \A k \in DOMAIN traversals' :
        traversals'[k] = t \/ (k \in DOMAIN traversals /\ traversals'[k] = traversals[k])
  <2>1. PICK n \in Nat : n = Len(traversals)
    BY <1>3, Queued
  <2>2. /\ DOMAIN traversals = 1 .. n /\ DOMAIN traversals' = 1 .. n + 1
        /\ \A k \in DOMAIN traversals : traversals'[k] = traversals[k]
        /\ traversals'[n + 1] = t
    BY <1>1, <1>2, <1>3, <2>1, LongerQueue
  <2> QED
    BY <2>2
<1>5. Fresh => Fresh'
  BY <1>1, <1>2, <1>4 DEF Fresh
<1> QED
  BY <1>1, <1>5, StayingKeepsIInv

LEMMA TypingKeepsIInv ==
  ASSUME TypedInv, Believed, Agreement, OneHistory, Noting, PageTyped',
         NEW a \in Addresses, TypeAddress(a)
  PROVE  Believed' /\ Agreement' /\ OneHistory'
<1>1. /\ Shown /\ pageIndex < LastIndex /\ pageIndex' = pageIndex + 1
      /\ tab' = Append(SubSeq(tab, 1, at), Entry(pageIndex', a))
      /\ at' = at + 1 /\ toApp' = Append(toApp, Arrived(pageIndex', a))
      /\ typed' = TRUE
      /\ UNCHANGED <<entries, position, reports, toPage, traversals>>
  BY DEF TypeAddress, Operate, Report, navigationVars, historyVars
<1>2. pageIndex' \in Indexes /\ pageIndex \in Nat
  BY IndexesAreNumbers DEF TypedInv, PageTyped
<1>3. Entry(pageIndex', a) \in TabEntries
  BY <1>2 DEF Entry, TabEntries
<1>4. PICK r \in Reports : r = Arrived(pageIndex', a)
  BY <1>2, StartsAndArrivals
<1>5. r.kind = "arrival" /\ r.index = pageIndex' /\ r.address = a
  BY <1>2, <1>4, StartsAndArrivals
<1>6. /\ at \in 1 .. Len(tab) /\ Len(tab) \in Nat
      /\ Len(tab') = at + 1 /\ tab' \in Seq(TabEntries)
      /\ \A k \in 1 .. at : tab'[k] = tab[k]
      /\ tab'[at + 1] = Entry(pageIndex', a)
  BY <1>1, <1>3, PushedTabs DEF TypedInv
<1>7. DOMAIN tab' = 1 .. at + 1 /\ DOMAIN tab = 1 .. Len(tab)
  BY <1>6 DEF TypedInv, PageTyped
<1>8. /\ at' \in DOMAIN tab' /\ tab'[at'].index = r.index /\ tab'[at'].address = r.address
      /\ pageIndex' = r.index /\ toApp' = Append(toApp, r) /\ r.kind \in {"start", "arrival"}
  BY <1>1, <1>4, <1>5, <1>6, <1>7 DEF Entry
<1>9. Numbered => Numbered'
  <2> HAVE Numbered
  <2>1. pageIndex' = at
    BY <1>1, <1>2, <1>6, <1>7 DEF Believed, Numbered
  <2>2. ASSUME NEW k \in DOMAIN tab'
        PROVE  tab'[k].index = k - 1
    <3>1. CASE k = at + 1
      BY <1>6, <2>1, <3>1 DEF Entry
    <3>2. CASE k # at + 1
      <4>1. k \in 1 .. at /\ k \in DOMAIN tab
        BY <1>6, <1>7, <3>2
      <4> QED
        BY <1>6, <4>1 DEF Numbered
    <3> QED
      BY <3>1, <3>2
  <2> QED
    BY <2>2 DEF Numbered
<1>10. Fresh => Fresh'
  BY <1>1 DEF Fresh
<1> QED
  BY <1>1, <1>8, <1>9, <1>10, ReportingKeepsIInv

LEMMA ReloadingKeepsIInv ==
  ASSUME TypedInv, Believed, Agreement, OneHistory, Noting, PageTyped', Reload
  PROVE  Believed' /\ Agreement' /\ OneHistory'
<1>1. /\ Shown /\ pageIndex' = tab[at].index
      /\ toApp' = Append(toApp, Started(tab[at].index, tab[at].address))
      /\ UNCHANGED <<entries, position, reports, tab, at, toPage, traversals, typed>>
  BY DEF Reload, Operate, Report, navigationVars, historyVars
<1>2. tab[at].index \in Indexes /\ tab[at].address \in Addresses /\ at \in DOMAIN tab
  BY <1>1, ShownEntriesAreTyped DEF TypedInv
<1>3. PICK r \in Reports : r = Started(tab[at].index, tab[at].address)
  BY <1>2, StartsAndArrivals
<1>4. r.kind = "start" /\ r.index = tab[at].index /\ r.address = tab[at].address
  BY <1>2, <1>3, StartsAndArrivals
<1>5. /\ at' \in DOMAIN tab' /\ tab'[at'].index = r.index /\ tab'[at'].address = r.address
      /\ pageIndex' = r.index /\ toApp' = Append(toApp, r) /\ r.kind \in {"start", "arrival"}
  BY <1>1, <1>2, <1>3, <1>4
<1>6. Numbered => Numbered'
  BY <1>1 DEF Numbered
<1>7. Fresh => Fresh'
  BY <1>1 DEF Fresh
<1> QED
  BY <1>1, <1>5, <1>6, <1>7, ReportingKeepsIInv

(***************************************************************************)
(* A page is loaded (jebol-navigation.js, start).                          *)
(***************************************************************************)
LEMMA InitGivesIInv == Init => IInv
<1> SUFFICES ASSUME Init
             PROVE  IInv
  OBVIOUS
<1>1. TypedInv
  BY InitGivesTypedInv
<1>2. /\ tab \in Loadable /\ at \in DOMAIN tab /\ pageIndex = tab[at].index
      /\ reports = <<Started(tab[at].index, tab[at].address)>>
      /\ toPage = <<>> /\ traversals = <<>> /\ toApp = <<>> /\ crossed = "never"
  BY DEF Init
<1>3. tab[at].index \in Indexes /\ tab[at].address \in Addresses
  BY <1>1, <1>2, ShownEntriesAreTyped DEF TypedInv
<1>4. /\ reports # <<>> /\ Len(reports) = 1 /\ DOMAIN reports = {1}
      /\ reports[1] = Started(tab[at].index, tab[at].address)
  BY <1>2
<1>5. /\ reports[1].kind = "start" /\ reports[1].index = tab[at].index
      /\ reports[1].address = tab[at].address
  BY <1>3, <1>4, StartsAndArrivals
<1>6. DOMAIN toPage = {} /\ DOMAIN toApp = {} /\ DOMAIN traversals = {}
  BY <1>2
<1>7. Reporting /\ ~Changing
  BY <1>4, <1>6 DEF Reporting, Changing
<1>8. Believed
  BY <1>2, <1>7 DEF Believed, Crossing
<1>9. Agreement
  BY <1>2, <1>4, <1>5, <1>6, <1>7 DEF Agreement, LastSaid, SaysWhereThePageIs
<1>10. Numbered
  <2>1. ASSUME NEW a \in Addresses, tab = <<Entry(0, a)>>
        PROVE  Numbered
    BY <2>1 DEF Numbered, Entry
  <2>2. ASSUME NEW p \in Places, tab = <<Entry(0, Start), Entry(1, p)>>
        PROVE  Numbered
    BY <2>2 DEF Numbered, Entry
  <2> QED
    BY <1>2, <2>1, <2>2 DEF Loadable
<1>11. Numbering
  BY <1>6, <1>7, <1>10 DEF Numbering, InOrder, PositionInOrder
<1>12. Knowledge
  <2>1. Fresh
    BY <1>2, <1>4, <1>5, <1>6 DEF Fresh
  <2>2. InTab(reports[1].index, Read(reports[1].address))
    <3>1. at \in Nat /\ reports[1].index = at - 1
      BY <1>1, <1>2, <1>5, <1>10, ShownEntriesAreTyped DEF Numbered, TypedInv
    <3>2. reports[1].index + 1 = at
      BY <3>1
    <3> QED
      BY <1>2, <1>5, <3>2 DEF InTab
  <2> QED
    BY <1>4, <1>5, <1>6, <2>1, <2>2 DEF Knowledge, Known, ReportsOfTheTab, OfTheTab
<1> QED
  BY <1>1, <1>8, <1>9, <1>11, <1>12 DEF IInv, OneHistory

LEMMA StepKeepsIInv ==
  ASSUME IInv, [Next]_vars
  PROVE  IInv'
<1>1. TypedInv /\ TypedInv' /\ PageTyped'
  BY StepKeepsTypedInv DEF IInv, TypedInv
<1>2. Believed /\ Agreement /\ OneHistory
  BY DEF IInv
<1>3. ASSUME Noting, Next
      PROVE  Believed' /\ Agreement' /\ OneHistory'
  <2>1. ASSUME NEW p \in Places, PageGoTo(p) \/ PageReplace(p)
        PROVE  Believed' /\ Agreement' /\ OneHistory'
    BY <1>1, <1>2, <1>3, <2>1, GoingKeepsIInv, ReplacingKeepsIInv
  <2>2. ASSUME NEW d \in Ways, PageGoBackOrForward(d) \/ PressButton(d)
        PROVE  Believed' /\ Agreement' /\ OneHistory'
    BY <1>1, <1>2, <1>3, <2>2, MovingKeepsIInv, ButtonsKeepIInv
  <2>3. CASE AppAlone
    BY <1>1, <1>2, <1>3, <2>3, AppAloneKeepsIInv
  <2>4. CASE TakeChange
    BY <1>1, <1>2, <1>3, <2>4, ChangingKeepsIInv
  <2>5. CASE Traverse
    BY <1>1, <1>2, <1>3, <2>5, TraversingKeepsIInv
  <2>6. CASE Deliver
    BY <1>1, <1>2, <1>3, <2>6, DeliveringKeepsIInv
  <2>7. ASSUME NEW a \in Addresses, TypeAddress(a)
        PROVE  Believed' /\ Agreement' /\ OneHistory'
    BY <1>1, <1>2, <1>3, <2>7, TypingKeepsIInv
  <2>8. CASE Reload
    BY <1>1, <1>2, <1>3, <2>8, ReloadingKeepsIInv
  <2> QED
    BY <1>3, <2>1, <2>2, <2>3, <2>4, <2>5, <2>6, <2>7, <2>8 DEF Next, Carrying, Operates, Ways
<1>4. CASE UNCHANGED vars
  <2>1. UNCHANGED <<entries, position, reports, tab, at, pageIndex, toPage, traversals,
                    toApp, typed, crossed>>
    BY <1>4 DEF vars, pageVars, navigationVars, historyVars
  <2>2. Believed'
    BY <1>2, <2>1 DEF Believed, Shown, Crossing, Changing, Reporting
  <2>3. Agreement'
    BY <1>2, <2>1
    DEF Agreement, Shown, LastSaid, Changing, Reporting, SaysWhereThePageIs, LastNames,
        Names, Current, EntryAt
  <2>4. Numbering => Numbering'
    BY <2>1 DEF Numbering, Numbered, InOrder, PositionInOrder, Names, NoPushBefore,
                PushBefore, Push, Further, Reporting
  <2>5. Knowledge => Knowledge'
    BY <2>1 DEF Knowledge, Known, Fresh, LastNamed, NotNamed, Names, InTab, Pushing, Push,
                ReportsOfTheTab, OfTheTab
  <2>6. OneHistory'
    BY <1>2, <2>1, <2>4, <2>5 DEF OneHistory, Shown
  <2> QED
    BY <1>1, <2>2, <2>3, <2>6 DEF IInv
<1> QED
  BY <1>1, <1>3, <1>4 DEF IInv, Next

-----------------------------------------------------------------------------
(***************************************************************************)
(* However moves race, when nothing is on its way the app and the page are *)
(* at the same entry and the same place, unless an entry the app made has  *)
(* crossed a report and the page has not reported since                    *)
(* (Navigation.java, jebol-navigation.js).                                 *)
(***************************************************************************)
THEOREM TheAppAndThePageAgree == Spec => []TheAppIsWhereThePageIs
<1>1. IInv /\ [Next]_vars => IInv'
  BY StepKeepsIInv
<1>2. IInv => TheAppIsWhereThePageIs
  <2> SUFFICES ASSUME IInv, Quiet, Shown, crossed # "now"
               PROVE  position = tab[at].index /\ Current = Read(tab[at].address)
    BY DEF TheAppIsWhereThePageIs
  <2>1. LastSaid
    BY DEF IInv, Agreement
  <2>2. ~Changing /\ ~Reporting
    BY DEF Quiet, Changing, Reporting
  <2> QED
    BY <2>1, <2>2 DEF LastSaid
<1> QED
  BY InitGivesIInv, <1>1, <1>2, PTL DEF Spec

(***************************************************************************)
(* However moves race, as long as no entry has crossed a report and no     *)
(* address been typed, when nothing is on its way every entry the app's    *)
(* history knows is one the browser has, with the same place               *)
(* (History.java, jebol-navigation.js).                                    *)
(***************************************************************************)
THEOREM TheHistoryKnowsThePagesEntries == Spec => []EveryEntryKnownIsThePages
<1>1. IInv /\ [Next]_vars => IInv'
  BY StepKeepsIInv
<1>2. IInv => EveryEntryKnownIsThePages
  <2> SUFFICES ASSUME IInv, Quiet, Shown, crossed = "never", ~typed, NEW i \in DOMAIN entries
               PROVE  \E k \in DOMAIN tab :
                        tab[k].index = i /\ Read(tab[k].address) = entries[i]
    BY DEF EveryEntryKnownIsThePages
  <2>1. Numbered /\ Known /\ i \in Nat
    BY IndexesAreNumbers
    DEF IInv, OneHistory, Numbering, Knowledge, TypedInv, HistoryTypeOK
  <2>2. ~Fresh /\ NotNamed(i)
    BY DEF Quiet, Fresh, NotNamed
  <2>3. InTab(i, entries[i])
    BY <2>1, <2>2 DEF Known
  <2>4. tab[i + 1].index = i
    BY <2>1, <2>3 DEF InTab, Numbered
  <2> QED
    BY <2>3, <2>4 DEF InTab
<1> QED
  BY InitGivesIInv, <1>1, <1>2, PTL DEF Spec

\* Only the browser's own step makes a move that waits.
LEMMA OnlyTraversingTakes ==
  ASSUME TypedInv, Next, traversals # <<>>, traversals' = Tail(traversals)
  PROVE  Traverse
<1>1. PICK n \in Nat : n = Len(traversals)
  BY Queued DEF TypedInv, PageTyped
<1>2. n # 0 /\ Len(traversals') = n - 1 /\ traversals \in Seq(Asked)
  BY <1>1, ShorterQueue DEF TypedInv, PageTyped
<1>3. traversals' # traversals
  BY <1>1, <1>2
<1>4. ASSUME NEW t \in Asked
      PROVE  traversals' # Append(traversals, t)
  BY <1>1, <1>2, <1>4
<1>5. ASSUME NEW p \in Places
      PROVE  ~PageGoTo(p) /\ ~PageReplace(p)
  BY <1>3 DEF PageGoTo, PageReplace
<1>6. ASSUME NEW d \in Ways
      PROVE  ~PageGoBackOrForward(d) /\ ~PressButton(d)
  <2>1. [direction |-> d, by |-> "operator", target |-> 0] \in Asked
    BY <1>6, IndexesAreNumbers DEF Asked, Ways
  <2> QED
    BY <1>3, <1>4, <2>1 DEF PageGoBackOrForward, PressButton
<1>7. ~AppAlone /\ ~Deliver /\ ~Reload
  BY <1>3 DEF AppAlone, pageVars, Deliver, Reload
<1>8. \A a \in Addresses : ~TypeAddress(a)
  BY <1>3 DEF TypeAddress
<1>9. ~TakeChange
  <2>1. ASSUME TakeChange
        PROVE  traversals' = traversals \/ \E t \in Asked : traversals' = Append(traversals, t)
    <3>1. Head(toPage) \in Changes
      BY <2>1, TakingAMessage DEF TakeChange, TypedInv, PageTyped
    <3>2. CASE TakeMove
      <4>1. [direction |-> Head(toPage).move, by |-> "app", target |-> Head(toPage).index] \in Asked
        BY <3>1, <3>2 DEF TakeMove, Changes, Asked, Ways
      <4> QED
        BY <3>2, <4>1 DEF TakeMove
    <3> QED
      BY <2>1, <3>2 DEF TakeChange, TakePush, TakeReplace
  <2> QED
    BY <1>3, <1>4, <2>1
<1> QED
  BY <1>5, <1>6, <1>7, <1>8, <1>9 DEF Next, Carrying, Operates, Ways

(***************************************************************************)
(* However moves race, and even while others are on their way, as long as  *)
(* no entry has crossed a report the app's own Back or Forward, made where *)
(* the app took the page to stand, stays in the app and reaches what the   *)
(* app's history holds there (PageHistory.java, jebol-navigation.js).      *)
(***************************************************************************)
THEOREM TheAppsMovesLandWhereItsHistorySays == Spec => AMoveLandsWhereTheHistorySays
<1> DEFINE i == Head(traversals).target
           Lands == /\ Shown'
                    /\ ~typed /\ ~Changing /\ i \in DOMAIN entries =>
                         tab'[at'].index = i /\ Read(tab'[at'].address) = entries[i]
<1>1. IInv /\ [Next]_vars => IInv'
  BY StepKeepsIInv
<1>2. ASSUME IInv, Next, MovesForTheApp, crossed = "never"
      PROVE  Lands
  <2>1. TypedInv /\ Numbering /\ Knowledge
    BY <1>2 DEF IInv, OneHistory, MovesForTheApp
  <2>2. PICK move \in Asked : move = Head(traversals)
    BY <1>2, <2>1, TakingAMessage DEF MovesForTheApp, TypedInv, PageTyped
  <2>3. /\ Traverse /\ UNCHANGED tab
        /\ move.by = "app" /\ move.target \in Nat /\ move.direction \in {"back", "forward"}
    BY <1>2, <2>1, <2>2, OnlyTraversingTakes, IndexesAreNumbers
    DEF MovesForTheApp, Traverse, Asked, Ways
  <2>4. at \in DOMAIN tab /\ DOMAIN tab = 1 .. Len(tab) /\ Len(tab) \in Nat
    BY <2>1, <2>3, ShownEntriesAreTyped DEF TypedInv, Traverse
  <2>5. at - 1 = IF move.direction = "back" THEN move.target + 1 ELSE move.target - 1
    BY <1>2, <2>1, <2>2, <2>4 DEF MovesForTheApp, AskedAt, Numbering, Numbered
  <2>6. Reached = move.target + 1
    BY <2>2, <2>3, <2>4, <2>5 DEF Reached
  <2>7. Reached # 0 /\ (move.target + 1 \in DOMAIN tab => ~(Reached > Len(tab)))
    BY <2>3, <2>4, <2>6
  <2>8. Shown'
    BY <2>3, <2>6, <2>7 DEF Traverse, TraverseTo, TraverseNowhere, LeaveTheApp, Shown
  <2>9. ASSUME ~typed, ~Changing, move.target \in DOMAIN entries
        PROVE  tab'[at'].index = move.target /\ Read(tab'[at'].address) = entries[move.target]
    <3>1. Known /\ NotNamed(move.target)
      BY <2>1, <2>9 DEF Knowledge, Changing, NotNamed, Names
    <3>2. ~Fresh
      <4>1. 1 \in DOMAIN traversals /\ traversals[1] = move
        BY <1>2, <2>1, <2>2, ShorterQueue DEF MovesForTheApp, TypedInv, PageTyped
      <4> QED
        BY <2>3, <4>1 DEF Fresh
    <3>3. InTab(move.target, entries[move.target])
      BY <2>9, <3>1, <3>2 DEF Known
    <3>4. at' = move.target + 1
      BY <2>3, <2>6, <2>7, <3>3 DEF Traverse, TraverseTo, TraverseNowhere, LeaveTheApp, InTab
    <3>5. tab[move.target + 1].index = move.target
      BY <2>1, <2>3, <3>3 DEF InTab, Numbering, Numbered
    <3> QED
      BY <2>3, <3>3, <3>4, <3>5 DEF InTab
  <2> QED
    BY <2>2, <2>8, <2>9
<1>3. IInv /\ [Next]_vars => [MovesForTheApp /\ crossed = "never" => Lands]_vars
  BY <1>2
<1> QED
  BY InitGivesIInv, <1>1, <1>3, PTL DEF Spec, AMoveLandsWhereTheHistorySays
=============================================================================
