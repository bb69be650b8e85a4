----------------------------- MODULE PageScreen -------------------------------
(***************************************************************************)
(* A page as a screen (BrowserScreen.java over GobScreen.java): the script *)
(* arranges windows in the root's pane and shows them; the page, on the    *)
(* transport's threads, posts what the operator does, measures itself and  *)
(* reports moves through its history; and the interpreter's thread looks   *)
(* at all of it when a run begins and whenever it asks for an event.       *)
(* A step of a look is one thing taken from one queue, so a posting may    *)
(* come between any two.                                                   *)
(***************************************************************************)
EXTENDS Surface

CONSTANTS
  Reported,    \* the kinds of event the page posts
  Moves,       \* the moves through its history the page reports
  Sizes,       \* sizes the page may have
  Unmeasured,  \* the size of a page that has not said
  Buttons,     \* how many buttons of the mouse are pressed at one time
  Layouts,     \* which spots each window may be put over
  MaxWaiting   \* bound: postings, reports and events waiting at one time

ASSUME PageScreenAssumption ==
  /\ Reported \subseteq Kinds
  /\ Moves \subseteq {"back", "forward"}
  /\ Unmeasured \notin Sizes
  /\ Buttons \in Nat
  /\ Layouts \subseteq [Windows -> SUBSET Spots]
  /\ MaxWaiting \in Nat

VARIABLES
  rooted,           \* the script has given the screen its root gob
  rootSize,         \* the size of the root gob
  pane,             \* the windows in the root's pane, bottom to top
  covers,           \* the spots each window is over
  opened,           \* gobValues: the windows that have been shown
  pictureRequired,  \* something was shown and no picture offered since
  attached,         \* a browser is attached
  posts,            \* postings the interpreter has not addressed
  reports,          \* moves reported and not taken
  measurements,     \* measurements not taken
  viewport,         \* the size last taken
  queued,           \* the events the script may take, oldest first
  phase,            \* what the interpreter's thread is doing
  purpose           \* what it is looking for

(***************************************************************************)
(* What follows of the operator and of what the windows have heard is      *)
(* history the properties speak of: how many buttons are down, how many as *)
(* far as has been addressed, the windows that heard a press and no        *)
(* release and have shown ever since, and the window that heard the last   *)
(* press, while it shows.                                                  *)
(***************************************************************************)
VARIABLES buttonsDown, heldAsHeard, pressed, lastPressed

heardVars == <<heldAsHeard, pressed, lastPressed>>
windowVars == <<rooted, pane, covers, opened>>
pageVars == <<attached, buttonsDown>>
vars == <<surfaceVars, windowVars, pageVars, heardVars, rootSize, pictureRequired,
          posts, reports, measurements, viewport, queued, phase, purpose>>

Showing == {w \in ToSet(pane) : rooted /\ w \in opened}

Event(kind, window, at) == [kind |-> kind, window |-> window, at |-> at]

Events == [kind: Kinds, window: Windows, at: Spots]
            \cup [kind: Moves, window: {Nobody}, at: {Nobody}]

Waiting == Len(posts) + Len(reports) + Len(measurements) + Len(queued)

Init ==
  /\ SurfaceInit
  /\ rooted = FALSE /\ rootSize = Unmeasured
  /\ pane = <<>> /\ covers \in Layouts /\ opened = {}
  /\ pictureRequired = FALSE /\ attached = TRUE
  /\ posts = <<>> /\ reports = <<>> /\ measurements = <<>>
  /\ viewport = Unmeasured /\ queued = <<>>
  /\ phase = "idle" /\ purpose = "run"
  /\ buttonsDown = 0 /\ heldAsHeard = 0 /\ pressed = {} /\ lastPressed = Nobody

-----------------------------------------------------------------------------
(***************************************************************************)
(* The page.  One event is posted at a time and accepted before the next.  *)
(***************************************************************************)
OperatorMay(kind) ==
  /\ kind = "down" => buttonsDown < Buttons
  /\ kind = "up" => buttonsDown > 0

ButtonsAfter(kind, down) ==
  CASE kind = "down" -> down + 1 [] kind = "up" -> down - 1 [] OTHER -> down

Report(kind, at) ==
  /\ attached /\ Waiting < MaxWaiting
  /\ OperatorMay(kind)
  /\ posts' = Append(posts, [kind |-> kind, at |-> at])
  /\ buttonsDown' = ButtonsAfter(kind, buttonsDown)
  /\ UNCHANGED <<surfaceVars, windowVars, attached, heardVars, rootSize, pictureRequired,
                 reports, measurements, viewport, queued, phase, purpose>>

ReportMove(move) ==
  /\ attached /\ Waiting < MaxWaiting
  /\ reports' = Append(reports, move)
  /\ UNCHANGED <<surfaceVars, windowVars, pageVars, heardVars, rootSize, pictureRequired,
                 posts, measurements, viewport, queued, phase, purpose>>

Measure(size) ==
  /\ attached /\ Waiting < MaxWaiting
  /\ measurements' = Append(measurements, size)
  /\ UNCHANGED <<surfaceVars, windowVars, pageVars, heardVars, rootSize, pictureRequired,
                 posts, reports, viewport, queued, phase, purpose>>

\* A browser attaches, or the one there goes away, with no button down.
AttachOrLeave ==
  /\ buttonsDown = 0
  /\ attached' = ~attached
  /\ UNCHANGED <<surfaceVars, windowVars, buttonsDown, heardVars, rootSize, pictureRequired,
                 posts, reports, measurements, viewport, queued, phase, purpose>>

-----------------------------------------------------------------------------
(***************************************************************************)
(* The script.                                                             *)
(***************************************************************************)
Scripting == phase = "script" /\ UNCHANGED <<surfaceVars, pageVars, posts, reports, measurements,
                                             viewport, queued, phase, purpose, heldAsHeard>>

\* A press is over, for the properties, once its window has stopped showing.
KeepWhoShows ==
  /\ pressed' = pressed \cap Showing'
  /\ lastPressed' = IF lastPressed \in Showing' THEN lastPressed ELSE Nobody

\* (mutant) A root gob given after the page was measured keeps its own size.
AcceptRootGobUnsized ==
  /\ Scripting /\ ~rooted
  /\ rooted' = TRUE
  /\ UNCHANGED <<rootSize, pane, covers, opened, pictureRequired>>
  /\ KeepWhoShows

AcceptRootGob ==
  /\ Scripting /\ ~rooted
  /\ rooted' = TRUE
  /\ rootSize' = IF viewport # Unmeasured THEN viewport ELSE rootSize
  /\ UNCHANGED <<pane, covers, opened, pictureRequired>>
  /\ KeepWhoShows

Arrange ==
  /\ Scripting
  /\ \/ \E w \in Windows \ ToSet(pane) : pane' = Append(pane, w)
     \/ \E i \in DOMAIN pane : pane' = RemoveAt(pane, i)
     \/ UNCHANGED pane
  /\ covers' \in Layouts
  /\ <<pane, covers>>' # <<pane, covers>>
  /\ UNCHANGED <<rooted, rootSize, opened, pictureRequired>>
  /\ KeepWhoShows

\* Showing the root closes the windows that left the pane and opens the rest.
ShowRoot ==
  /\ Scripting /\ attached
  /\ opened' = IF rooted THEN ToSet(pane) ELSE opened
  /\ pictureRequired' = (rooted \/ pictureRequired)
  /\ UNCHANGED <<rooted, rootSize, pane, covers>>
  /\ KeepWhoShows

\* Showing a gob opens its window if it is in the pane and closes it if not;
\* a gob inside a window changes no window and only wants a picture.
ShowGob(gobs) ==
  /\ Scripting /\ attached
  /\ opened' = IF rooted THEN (opened \ gobs) \cup (gobs \cap ToSet(pane)) ELSE opened
  /\ pictureRequired' = (rooted \/ pictureRequired)
  /\ UNCHANGED <<rooted, rootSize, pane, covers>>
  /\ KeepWhoShows

Script ==
  \/ AcceptRootGob \/ Arrange \/ ShowRoot
  \/ ShowGob({}) \/ \E w \in Windows : ShowGob({w})

-----------------------------------------------------------------------------
(***************************************************************************)
(* The interpreter's look at the screen: it takes what was measured, then  *)
(* what was reported, and where it wants an event addresses what was       *)
(* posted, takes the reports again and takes the oldest event.             *)
(***************************************************************************)
Looking == UNCHANGED <<windowVars, pageVars>>

BeginLook(for) ==
  /\ phase = IF for = "run" THEN "idle" ELSE "script"
  /\ phase' = "measuring" /\ purpose' = for
  /\ Looking
  /\ UNCHANGED <<surfaceVars, heardVars, rootSize, pictureRequired, posts, reports,
                 measurements, viewport, queued>>

AcceptMeasurements ==
  /\ phase = "measuring"
  /\ IF measurements = <<>>
     THEN /\ phase' = "reporting"
          /\ UNCHANGED <<measurements, viewport, rootSize>>
     ELSE /\ viewport' = Head(measurements)
          /\ rootSize' = IF rooted THEN viewport' ELSE rootSize
          /\ measurements' = Tail(measurements)
          /\ UNCHANGED phase
  /\ Looking
  /\ UNCHANGED <<surfaceVars, heardVars, pictureRequired, posts, reports, queued, purpose>>

AfterReports ==
  CASE phase = "again" -> "taking"
    [] phase = "reporting" /\ purpose = "run" -> "script"
    [] OTHER -> "addressing"

TakeReports ==
  /\ phase \in {"reporting", "again"}
  /\ IF reports = <<>>
     THEN phase' = AfterReports /\ UNCHANGED <<reports, queued>>
     ELSE /\ queued' = Append(queued, Event(Head(reports), Nobody, Nobody))
          /\ reports' = Tail(reports)
          /\ UNCHANGED phase
  /\ Looking
  /\ UNCHANGED <<surfaceVars, heardVars, rootSize, pictureRequired, posts, measurements, viewport, purpose>>

\* What the windows that hear a posting have heard by then.
Remember(kind, heardBy) ==
  /\ heldAsHeard' = ButtonsAfter(kind, heldAsHeard)
  /\ pressed' = CASE kind = "down" -> pressed \cup ToSet(heardBy)
                  [] kind = "up" -> pressed \ ToSet(heardBy)
                  [] OTHER -> pressed
  /\ lastPressed' = IF kind = "down" /\ heardBy # <<>> THEN Head(heardBy) ELSE lastPressed

AddressEvent ==
  LET post == Head(posts)
      heard == Heard(post, Showing, pane, covers)
  IN  /\ pressedIn' = heard.pressedIn
      /\ keyboardWith' = heard.keyboardWith
      /\ queued' = queued \o [i \in DOMAIN heard.heardBy |-> Event(post.kind, heard.heardBy[i], post.at)]
      /\ Remember(post.kind, heard.heardBy)

AddressAllEvents ==
  /\ phase = "addressing"
  /\ IF posts = <<>>
     THEN /\ phase' = "again"
          /\ UNCHANGED <<surfaceVars, heardVars, posts, queued>>
     ELSE /\ AddressEvent
          /\ posts' = Tail(posts)
          /\ UNCHANGED phase
  /\ Looking
  /\ UNCHANGED <<rootSize, pictureRequired, reports, measurements, viewport, purpose>>

\* (mutant) A look that finds no event offers nothing.
OfferShownNever == UNCHANGED pictureRequired

\* What was shown is painted on whatever is attached, if anything is.
OfferShown == pictureRequired' = (pictureRequired /\ ~rooted)

TakeOldest ==
  /\ phase = "taking"
  /\ phase' = "script"
  /\ IF queued = <<>>
     THEN OfferShown /\ UNCHANGED queued
     ELSE queued' = Tail(queued) /\ UNCHANGED pictureRequired
  /\ Looking
  /\ UNCHANGED <<surfaceVars, heardVars, rootSize, posts, reports, measurements, viewport, purpose>>

EndRun ==
  /\ phase = "script"
  /\ phase' = "idle"
  /\ OfferShown
  /\ Looking
  /\ UNCHANGED <<surfaceVars, heardVars, rootSize, posts, reports, measurements, viewport, queued, purpose>>

Looks ==
  \/ BeginLook("run") \/ BeginLook("event")
  \/ AcceptMeasurements \/ TakeReports \/ AddressAllEvents \/ TakeOldest \/ EndRun

Operator ==
  \/ \E k \in Reported, s \in Spots : Report(k, s)
  \/ \E m \in Moves : ReportMove(m)
  \/ \E s \in Sizes : Measure(s)
  \/ AttachOrLeave

Next == Operator \/ Script \/ Looks

(***************************************************************************)
(* A run gets on: what it has begun to look at it finishes looking at, and *)
(* sooner or later it looks again or ends.  Nothing makes the operator act *)
(* or a script show anything.                                              *)
(***************************************************************************)
Spec ==
  /\ Init /\ [][Next]_vars
  /\ WF_vars(AcceptMeasurements \/ TakeReports \/ AddressAllEvents \/ TakeOldest)
  /\ SF_vars(BeginLook("event") \/ EndRun)

-----------------------------------------------------------------------------
\* Types and ranges of the variables.
TypeOK ==
  /\ SurfaceTypeOK
  /\ rooted \in BOOLEAN /\ attached \in BOOLEAN /\ pictureRequired \in BOOLEAN
  /\ rootSize \in Sizes \cup {Unmeasured} /\ viewport \in Sizes \cup {Unmeasured}
  /\ IsInjective(pane) /\ ToSet(pane) \subseteq Windows
  /\ covers \in Layouts
  /\ opened \subseteq Windows
  /\ posts \in Seq([kind: Reported, at: Spots])
  /\ reports \in Seq(Moves)
  /\ measurements \in Seq(Sizes)
  /\ queued \in Seq(Events)
  /\ phase \in {"idle", "script", "measuring", "reporting", "addressing", "again", "taking"}
  /\ purpose \in {"run", "event"}

(***************************************************************************)
(* A window that heard a press and has been showing ever since hears the   *)
(* release, wherever the pointer, the other windows and the script's       *)
(* arrangement of them have gone by then: no window that shows is left     *)
(* pressed once every button is up (screen.allium, WhileAPressIsHeld...).  *)
(***************************************************************************)
PressedWindowsHearTheRelease == pressed # {} => heldAsHeard > 0

(***************************************************************************)
(* No window has the pointer to itself once the press is over: pressedIn   *)
(* is forgotten with the release even when that went to another window.    *)
(***************************************************************************)
NoGrabOutlivesItsPress == pressedIn # Nobody => heldAsHeard > 0

(***************************************************************************)
(* A key goes to the window that heard the last press for as long as it    *)
(* has kept showing, through releases, other windows opening over it and   *)
(* moves of either.                                                        *)
(***************************************************************************)
KeysGoToWhoWasLastPressed ==
  [][\A e \in Events :
       (queued' = Append(queued, e) /\ e.kind = "key" /\ lastPressed # Nobody)
         => e.window = lastPressed]_vars

(***************************************************************************)
(* Whichever comes first, the measurement or the root gob, the root gob    *)
(* has the size of the page as last taken (acceptRootGob and               *)
(* dispatchToInterpreter must agree).                                      *)
(***************************************************************************)
TheRootIsAsBigAsThePage == rooted => rootSize = viewport

(***************************************************************************)
(* What a script showed is offered, once the operator leaves it a moment   *)
(* with no events to take: a show is never forgotten, whether the run goes *)
(* on looking or ends.                                                     *)
(***************************************************************************)
EveryShowIsOfferedInTheEnd ==
  <>[][~Operator]_vars => (pictureRequired ~> ~pictureRequired)
=============================================================================
