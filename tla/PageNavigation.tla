---------------------------- MODULE PageNavigation ----------------------------
(***************************************************************************)
(* Navigation on a page (PageHistory.java, jebol-navigation.js): the       *)
(* browser keeps the history, JEBOL keeps what it knows of it, and the two *)
(* tell each other by messages that take their time.  The operator may use *)
(* the browser's Back and Forward, type an address, or load the page again *)
(* at any moment.                                                          *)
(***************************************************************************)
EXTENDS Navigation

CONSTANTS
  Typing,     \* whether the operator types addresses
  MaxOperated \* bound: how many moves the operator makes

ASSUME PageAssumption ==
  /\ Typing \in BOOLEAN
  /\ MaxOperated \in Nat
  /\ LastIndex # 0

VARIABLES
  tab,         \* the browser's entries since the app's first, oldest first
  at,          \* which of them is shown; 0 once the page has been left
  pageIndex,   \* the index the page's script believes it is at
  toPage,      \* changes on their way to the page
  traversals,  \* moves the browser has been asked for and has not made
  toApp,       \* reports on their way to the interpreter
  operated,    \* how many moves the operator has made
  typed        \* history: whether an address has been typed in this tab

\* History: whether changes the app made and reports of where the page is have
\* ever crossed; "now" until the page has reported once more.
VARIABLE crossed

pageVars == <<tab, at, pageIndex, toPage, traversals, toApp, operated, typed>>

vars == <<navigationVars, pageVars, crossed>>

Entry(i, address) == [index |-> i, address |-> address]

\* Nothing is on its way between the app and the browser, nor being done.
Quiet ==
  /\ toPage = <<>> /\ traversals = <<>> /\ toApp = <<>>
  /\ reports = <<>>

\* Entries the app made or named anew, which the page has yet to.
Changing == \E k \in DOMAIN toPage : toPage[k].move \in {"push", "replace"}

\* Places the page said it was at, which the app has yet to take.
Reporting == toApp # <<>> \/ reports # <<>>

Crossing == Changing /\ Reporting

(***************************************************************************)
(* A page may be loaded at its first entry, at an address someone shared,  *)
(* or at an entry of an earlier load.  It says where it is before the      *)
(* stream that attaches it to its screen is opened.                        *)
(***************************************************************************)
Loadable ==
  {<<Entry(0, a)>> : a \in Addresses}
    \cup {<<Entry(0, Start), Entry(1, p)>> : p \in Places \ {Start}}

Init ==
  /\ NavigationInit
  /\ tab \in Loadable
  /\ at \in DOMAIN tab
  /\ pageIndex = tab[at].index
  /\ reports = <<Started(tab[at].index, tab[at].address)>>
  /\ toPage = <<>> /\ traversals = <<>> /\ toApp = <<>>
  /\ operated = 0 /\ typed = FALSE /\ crossed = "never"

-----------------------------------------------------------------------------
(***************************************************************************)
(* The app's side.  Its own moves go to the page and nothing is answered.  *)
(* A Back or Forward says no more than that: the index and place it would  *)
(* reach are kept for the properties.                                      *)
(***************************************************************************)
Tell(move, i, address) ==
  toPage' = Append(toPage, [move |-> move, index |-> i, address |-> address])

PageGoTo(place) ==
  /\ GoTo(place)
  /\ IF position' # position THEN Tell("push", position', place) ELSE UNCHANGED toPage
  /\ UNCHANGED <<tab, at, pageIndex, traversals, toApp, operated, typed>>

PageReplace(place) ==
  /\ Replace(place)
  /\ IF RateReached THEN UNCHANGED toPage ELSE Tell("replace", position, place)
  /\ UNCHANGED <<tab, at, pageIndex, traversals, toApp, operated, typed>>

PageGoBackOrForward(direction) ==
  /\ \/ /\ AskPort(direction, reports)
        /\ Tell(direction, Target(direction), EntryAt(Target(direction)))
     \/ /\ MoveNowhere(direction)
        /\ UNCHANGED toPage
  /\ UNCHANGED <<tab, at, pageIndex, traversals, toApp, operated, typed>>

\* What a call does without a word to the page.
AppAlone ==
  /\ \/ \E c \in Calls : Begin(c)
     \/ TakeStart \/ TakeArrival
     \/ QuietCall
  /\ UNCHANGED pageVars

-----------------------------------------------------------------------------
(***************************************************************************)
(* The page's side, which runs only while the page is shown.               *)
(***************************************************************************)
Shown == at # 0

Report(kind, i, address) ==
  toApp' = Append(toApp, IF kind = "start" THEN Started(i, address) ELSE Arrived(i, address))

\* (mutant) The page keeps the index it had.
TakePushKeepingIndex ==
  /\ Head(toPage).move = "push"
  /\ tab' = Append(SubSeq(tab, 1, at), Entry(pageIndex, Head(toPage).address))
  /\ at' = at + 1
  /\ UNCHANGED <<pageIndex, traversals>>

TakePush ==
  /\ Head(toPage).move = "push"
  /\ tab' = Append(SubSeq(tab, 1, at), Entry(Head(toPage).index, Head(toPage).address))
  /\ at' = at + 1
  /\ pageIndex' = Head(toPage).index
  /\ UNCHANGED traversals

TakeReplace ==
  /\ Head(toPage).move = "replace"
  /\ tab' = [tab EXCEPT ![at] = Entry(Head(toPage).index, Head(toPage).address)]
  /\ pageIndex' = Head(toPage).index
  /\ UNCHANGED <<at, traversals>>

\* history.back() and history.forward() only ask; the browser moves later.
TakeMove ==
  /\ Head(toPage).move \in {"back", "forward"}
  /\ traversals' = Append(traversals, [direction |-> Head(toPage).move, by |-> "app",
                                        target |-> Head(toPage).index])
  /\ UNCHANGED <<tab, at, pageIndex>>

TakeChange ==
  /\ Shown
  /\ toPage # <<>>
  /\ TakePush \/ TakeReplace \/ TakeMove
  /\ toPage' = Tail(toPage)
  /\ UNCHANGED <<navigationVars, toApp, operated, typed>>

\* The entry a traversal reaches; past the last one there is none.
Reached == IF Head(traversals).direction = "back" THEN at - 1 ELSE at + 1

\* The browser moves and popstate tells the page, which tells the app.
TraverseTo ==
  /\ Reached \in DOMAIN tab
  /\ at' = Reached
  /\ pageIndex' = tab[Reached].index
  /\ Report("moved", tab[Reached].index, tab[Reached].address)

TraverseNowhere ==
  /\ Reached > Len(tab)
  /\ UNCHANGED <<at, pageIndex, toApp>>

\* Before the app's first entry is whatever the tab showed before.
LeaveTheApp ==
  /\ Reached = 0
  /\ at' = 0
  /\ UNCHANGED <<pageIndex, toApp>>

Traverse ==
  /\ Shown
  /\ traversals # <<>>
  /\ TraverseTo \/ TraverseNowhere \/ LeaveTheApp
  /\ traversals' = Tail(traversals)
  /\ UNCHANGED <<navigationVars, tab, toPage, operated, typed>>

\* The operator moves at any moment, whatever is on its way.
Operate ==
  /\ Shown
  /\ operated < MaxOperated
  /\ operated' = operated + 1

\* The browser's Back or Forward button.
PressButton(direction) ==
  /\ Operate
  /\ traversals' = Append(traversals, [direction |-> direction, by |-> "operator",
                                        target |-> 0])
  /\ UNCHANGED <<navigationVars, tab, at, pageIndex, toPage, toApp, typed>>

\* An entry the operator's typing made keeps no index until the page gives
\* it the next one.
TypeAddress(address) ==
  /\ Typing
  /\ Operate
  /\ address # tab[at].address
  /\ pageIndex < LastIndex
  /\ pageIndex' = pageIndex + 1
  /\ tab' = Append(SubSeq(tab, 1, at), Entry(pageIndex', address))
  /\ at' = at + 1
  /\ Report("moved", pageIndex', address)
  /\ typed' = TRUE
  /\ UNCHANGED <<navigationVars, toPage, traversals>>

\* The page is loaded again in the same tab and reports as a fresh load; not
\* while moves are on their way, of which some would be lost.
Reload ==
  /\ Operate
  /\ Quiet /\ call = "idle"
  /\ pageIndex' = tab[at].index
  /\ Report("start", pageIndex', tab[at].address)
  /\ UNCHANGED <<navigationVars, tab, at, toPage, traversals, typed>>

Deliver ==
  /\ toApp # <<>>
  /\ toApp' = Tail(toApp)
  /\ reports' = Append(reports, Head(toApp))
  /\ UNCHANGED <<historyVars, rateVars, events, call, tab, at, pageIndex, toPage, traversals, operated, typed>>

Carrying == TakeChange \/ Traverse \/ Deliver

Operates ==
  \/ \E d \in {"back", "forward"} : PressButton(d)
  \/ \E a \in Addresses : TypeAddress(a)
  \/ Reload

\* What every step notes of crossings.
Noting ==
  crossed' = IF Crossing' THEN "now"
             ELSE IF crossed = "now" /\ Len(toApp') > Len(toApp) THEN "before"
             ELSE crossed

Next ==
  /\ \/ \E p \in Places : PageGoTo(p) \/ PageReplace(p)
     \/ \E d \in {"back", "forward"} : PageGoBackOrForward(d)
     \/ AppAlone
     \/ Carrying
     \/ Operates
  /\ Noting

(***************************************************************************)
(* What is on its way arrives, and the app keeps looking for events, as    *)
(* one waiting on system/ports/event does.                                 *)
(***************************************************************************)
Spec ==
  /\ Init
  /\ [][Next]_vars
  /\ WF_vars(Carrying /\ Noting)
  /\ WF_vars(AppAlone /\ Noting)

-----------------------------------------------------------------------------
\* Types and ranges of the variables.
TypeOK ==
  /\ NavigationTypeOK
  /\ tab \in Seq([index: Indexes, address: Addresses])
  /\ at \in 0 .. Len(tab)
  /\ pageIndex \in Indexes
  /\ toPage \in Seq([move: {"push", "replace", "back", "forward"},
                     index: Indexes, address: Places])
  /\ traversals \in Seq([direction: {"back", "forward"}, by: {"app", "operator"},
                         target: Indexes])
  /\ toApp \in Seq(Reports)
  /\ operated \in 0 .. MaxOperated /\ typed \in BOOLEAN
  /\ crossed \in {"never", "now", "before"}

(***************************************************************************)
(* When nothing is on its way the app and the browser are at the same      *)
(* entry and the same place, so the address that would be shared is the    *)
(* one the app is showing.  Moves may race: the position the app works     *)
(* with may be stale, several Backs be on their way, reports join a call   *)
(* that has taken its own.  The two come apart in one way only: an entry   *)
(* the app made crosses a report of the page's; and no longer than until   *)
(* the page's next report.                                                 *)
(***************************************************************************)
TheAppIsWhereThePageIs ==
  Quiet /\ Shown /\ crossed # "now" =>
    position = tab[at].index /\ Current = Read(tab[at].address)

(***************************************************************************)
(* When nothing is on its way every entry the history knows is one the     *)
(* browser has, with the same place: whatever the app, the buttons and     *)
(* reloads do, nothing the browser dropped is kept.  There are two         *)
(* exceptions: entries that crossed reports, and an address typed in the   *)
(* middle of the history, where the browser drops what was ahead and       *)
(* History.arriveAt drops nothing.                                         *)
(***************************************************************************)
EveryEntryKnownIsThePages ==
  Quiet /\ Shown /\ crossed = "never" /\ ~typed =>
    \A i \in DOMAIN entries :
      \E k \in DOMAIN tab : tab[k].index = i /\ Read(tab[k].address) = entries[i]

\* Where the page stood when the app worked out this move's target.
AskedAt(m) == IF m.direction = "back" THEN m.target + 1 ELSE m.target - 1

\* The browser makes a move of the app's, and the page stands where the app
\* took it to stand.
MovesForTheApp ==
  /\ Shown /\ traversals # <<>> /\ traversals' = Tail(traversals)
  /\ Head(traversals).by = "app"
  /\ tab[at].index = AskedAt(Head(traversals))

(***************************************************************************)
(* The app's own Back or Forward, made where the app took the page to      *)
(* stand, never takes the page out of the app; and it takes it to the      *)
(* entry and the place the app's history holds there, whatever was gone    *)
(* to, replaced or reported between the asking and the move.  It is only   *)
(* asked for, and worked out from a position that may be stale: made       *)
(* elsewhere it may reach anything (OnlyTheOperatorLeaves).                *)
(***************************************************************************)
AMoveLandsWhereTheHistorySays ==
  [][MovesForTheApp /\ crossed = "never" =>
       LET i == Head(traversals).target IN
       /\ Shown'
       /\ ~typed /\ ~Changing /\ i \in DOMAIN entries =>
            tab'[at'].index = i /\ Read(tab'[at'].address) = entries[i]]_vars

(***************************************************************************)
(* The app's own Back never takes the page out of the app: at the first    *)
(* entry it does nothing (nav.allium, BackAtTheFirstEntryDoesNothing).     *)
(***************************************************************************)
OnlyTheOperatorLeaves ==
  [][Shown /\ at' = 0 => Head(traversals).by = "operator"]_vars

(***************************************************************************)
(* Once app and operator leave it alone (both make a bounded number of     *)
(* moves) every move is settled: what is on its way arrives and is taken,  *)
(* however moves raced, or the page has been left.                         *)
(***************************************************************************)
EveryMoveSettles == ~Quiet ~> (Quiet \/ ~Shown)
=============================================================================
