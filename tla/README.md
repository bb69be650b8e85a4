# Verification of JEBOL

JEBOL runs the Rebol 3 language on the JVM, in a console, in desktop windows,
behind a web page, and compiled to JavaScript inside one. This directory holds
TLA+ models of the parts of it where the order of steps matters, the TLC
configurations that check them on small instances, and proofs of some of their
properties for every value of the constants. Every definition is translated
from the Java under `src/main/java/org/jebol` and the page's scripts under
`src/main/resources/jebol-page`, and for the system port from the Rebol of
`src/main/resources/org/jebol/mezz/sys-ports.reb`; `PROJECT.json` gives the lines of each.

1. [The system](#the-system)
2. [The modules](#the-modules)
3. [The runs](#the-runs)
4. [Fairness](#fairness)
5. [Proofs](#proofs)
6. [Where the code and its documents disagree](#where-the-code-and-its-documents-disagree)
7. [What is not modelled](#what-is-not-modelled)
8. [Plan](#plan)

To parse, check or prove: `tlasany M.tla`, `tlc -config X.cfg M`,
`tlapm MProofs.tla`.

## The system

One interpreter evaluates on one thread. What makes it concurrent is its
surroundings: a host that cancels, a clock, a toolkit or a browser that reports
what its operator does, pages that answer questions, devices and extensions
that post events. None of them touches a value of the script's: they add to
queues, complete futures or set flags, and the interpreter's thread looks at
those at moments of its own choosing. The evaluator keeps its own stack, so
that deep recursion is a Rebol error rather than a Java one, and most of its
difficulty is in keeping that stack, the record of open calls and Java's own
stack of natives in step while failures and RETURNs cut through all three.

### Components

| component | state it keeps | operations | meets others by |
| --- | --- | --- | --- |
| Evaluator (`domain/eval/Evaluator`) | `walksInProgress`, the frames of each walk, `functionsBeingRun` | evaluate a block, take one value, apply a function, call one, unwind to one, leave a walk | natives, which start walks of their own; the interpreter |
| Contexts (`domain/value/Context`) | slots, `supersededBy` | find the frame a word resolves in, lend a frame, hand it back | the evaluator |
| Interpreter (`application/Interpreter`, `Bounds`) | deadline, `cancellationRequested`, conclusion | run, runNext, start, cancel, reason to stop | a host, whose threads may cancel at any time |
| WAIT (`natives/WaitNative`) | none of its own | deliver what was posted, have the system port's AWAKE wake ports, pause, look for a reason to stop, look at the screen | interpreter, postbox, system port, screen |
| History (`domain/host/History`) | entries by index, position, times of changes | start, go to, replace, back and forward targets, arrive, count a change | the navigation port |
| Navigation (`domain/host/Navigation`, `WindowHistory`, `adapter/web/PageHistory`) | reports not yet taken, events not yet heard | GO-TO, REPLACE, GO-BACK, GO-FORWARD, current place, take reports | the screen's thread, the page |
| Page: navigation (`jebol-navigation.js`) | the index it is at | push, replace, traverse, report a popstate, report a load | the browser's history; the app, by a channel each way |
| Screen of a page (`adapter/web/BrowserScreen`, `domain/host/GobScreen`, `WindowsOnOneSurface`) | windows opened, queues of postings, measurements and reports, the window pressed in and the one with the keyboard, whether a picture is wanted | show, look for an event, address what was posted, offer a picture | the script, the transport's threads |
| Web server of a page (`adapter/web/WebScreenServer`) | browsers connected, the futures of asks | ask, answer, dispatch | page, interpreter |
| Page: asks (`jebol-asks.js`) | one prompt and its handlers, a chooser | show a prompt, answer | the server, by stream and posts |
| Desktop screen (`adapter/host/DesktopScreen`) | toolkit windows | keep windows in step, press keys | Swing's thread |
| Postbox, system port, callbacks (`domain/eval/Postbox`, `sys-ports.reb`, `DoCallbackNative`) | posts from other threads, the system port's queue and wake list, answers owed | post, deliver, wake a port, call back, answer | extensions, WAIT, the awakes of ports, which may WAIT |
| Picked files, page windows, MIDI (`adapter/web`) | picks, prompts, connections | pick, save, open a device | page, file ports |
| Tasks (`adapter/host/ThreadTasks`) | a thread and an interpreter each | launch | the host's output |
| Worker session (`teavm/.../adapter/web`) | a bridge and a store | run in a web worker | the page |
| Ports, processes, security, PARSE, reader, values, drawing, ciphers | each its own, sequential | many | the evaluator |

### What is hard about it, and what makes it right

- **Evaluator and contexts.** A word of a function's body is bound to the
  function, not to a call, so each call *lends* its frame to whatever read the
  words before it (`supersededBy`) and hands it back when it ends. Calls end in
  four ways: the frame finishes, a RETURN unwinds to it, a failure abandons its
  walk, or a native that started a walk leaves it by a Java exception. It is
  right if the links are at every moment those the open calls call for, if no
  running call is missing from the record, if a walk never ends its callers'
  calls, and if nothing is left open when the host has control again.
- **Runs.** A cancel comes from any thread, a deadline passes at any step, and
  the evaluator looks only every so many steps while a WAIT looks for itself.
  Right: an overdue or cancelled run ends, soon, and nothing of one run's
  bounds is seen by the next.
- **Navigation.** Reports come from other threads between any two steps of a
  call; on a page the browser is the one that has the history, and JEBOL knows
  what it was last told. Right: the app and the browser agree once nothing is
  on its way, the list behaves as a history, each move is told once, the limit
  on changes is exact, and the app never leaves itself by its own Back.
- **Screens.** Windows share a surface; the script opens, closes, moves and
  covers them between two events of one press. Right: who hears a press hears
  its release, keys go where the last press went, nothing is addressed to a
  window that has gone, and what is shown is painted in the end.
- **Asks.** Every browser connected is asked, each answers late, twice or not at
  all, and a page can go at any moment. Right: an answer reaches only its own
  ask, the first one stands, and an ask ends.

- **Posts and WAIT.** Extensions post from their own threads; WAIT moves what
  they posted onto the system port, whose AWAKE wakes ports in batches of nine,
  and a port's own awake may wait again, so WAITs share one queue and one wake
  list at any depth, and one handler's failure goes through all of them. Right:
  posts of a kind are handled in order and once, a callback taken is answered, a
  WAIT comes to what its own ports said, its time runs out, and no handler costs
  another post its turn.

## The modules

| module | models | state and actions against the code |
| --- | --- | --- |
| `CallScopes` | what a script may rely on: a word of a function names its innermost open call | abstract; no code of its own |
| `CallFrames` | `Evaluator`, and `supersededBy` of `Context` | `stack` is the Java stack of walks with the frames of each, `calls` is `functionsBeingRun`, `signal` the exception on its way; one action per way a walk starts, a frame is pushed, delivered to or ended, and per catch and finally clause |
| `InterpreterRuns` | `Interpreter`, `Bounds`, `stopIfAsked`, the pauses of `WaitNative` | `phase` is where the host's thread is, `left` the distance to the deadline, `steps` is `stepsSinceLastCheck`; `Cancel` and `Tick` happen at any moment |
| `AppHistory` | what an app may rely on about its history | abstract; no code of its own |
| `ChangeRate` | `History.countChange` | `changedAt` are the times kept; the loop that drops old ones is `Dropped` |
| `History` | `History` | one operator per method |
| `Navigation` | `Navigation`, and how `GobScreen` calls it | `reports` is the concurrent queue, `events` the queued back and forward; a call *begins*, takes reports one at a time, and *returns*, so a report may join in between |
| `WindowNavigation` | a desktop window's history | moves arrive at once; requests come from the toolkit |
| `PageNavigation` | a page's history, `PageHistory` and `jebol-navigation.js` | `tab` and `at` are the browser's, `toPage`, `traversals` and `toApp` what is on its way; the operator's buttons, typed addresses and reloads come at any moment, whatever is on its way (a reload only while nothing is). `crossed` is a history variable: whether entries the app made and reports of where the page is were ever on their way at once |
| `Surface` | `WindowsOnOneSurface` | who hears each kind of event, as operators on `pressedIn` and `keyboardWith` |
| `PageScreen` | `BrowserScreen` over `GobScreen` | a look at the screen is a chain of steps, each taking one thing from one queue, so the page may post in between |
| `PageAsks` | `WebScreenServer.ask`, `PageWindows`, `jebol-asks.js` | `waitingForAnswers` is the map of futures; each page has one prompt with the handlers of one ask, a chooser opened for some ask, writes to the clipboard it awaits and answers under way. `holding` is a history variable: the browsers the ask in flight was put to whose prompt no earlier ask has taken since |
| `Deliveries` | what an extension may rely on about what it posts | abstract; no code of its own |
| `PortWaits` | `Postbox`, `deliverWhatWasPosted`, WAIT on ports, the AWAKE of the system port and of the callback port, `DoCallbackNative` | `posted` and `polled` are the two concurrent queues, with what has left them; `state` and `data` the system port's queue and wake list; `waits` the WAITs being run one within another, each with where it has got to, what is left of its time and the event its handler has in hand; `answers` what each callback came to. What a port's awake does is open: it says true or not, raises, or waits |
| `MC*` | | values of the constants for TLC |
| `*Proofs` | | theorems about the module of that name |

`CallFrames` implements `CallScopes` (property `ScopesSpec`): the abstract
`reads` is the frame found by following the links. `WindowNavigation`
implements `AppHistory` (property `AppSpec`): the abstract list is the entries
in order, `at` the position. `PortWaits` implements `Deliveries` (property
`DeliveriesSpec`), which sees posts, handlings and answers and none of the
queues between them. `Navigation` extends `History`, which extends
`ChangeRate`; the two composing modules add a screen each, and `PageScreen`
extends `Surface`.

Three abstractions are worth knowing. What the code of a script *is* is left
open everywhere: any step may be a call, a native that walks a block, a RETURN,
a failure, a wait. A place stands for its own address, and an unreadable address
for the ones that read as the start. Definitions marked `(mutant)` are what a
bug would make of the definition below them; nothing uses them, and each
property is known to fail when its one is put in the definition's place.

## The runs

| run | asks | bounds, and why they are enough |
| --- | --- | --- |
| `call_frames` | links follow the calls; running calls are recorded; a walk leaves its callers' calls alone; scoping is innermost-call | two functions and a closure, three frames, four entries over all walks: recursion, mutual calls, a function that returns to one already open, and a native's walk inside a call, with a failure through both. Frames and plain functions are symmetric |
| `call_frames_sources` | nothing open at rest; nothing escapes; every signal lands | a host that runs whole sources; three entries, enough for a body, a paren and a nested walk. No symmetry, as one property is a liveness property |
| `call_frames_return` | *violated*: RETURN leaves the nearest function only | whole sources, four entries |
| `runs` | an overdue or cancelled run ends, within one check; nothing crosses from run to run | a check every 5 steps and a deadline 6 ticks off, so it may fall anywhere between two checks; interpreters with and without a time limit. The counters are bounded by the behaviour, not by a guard: once due a run takes fewer than 5 steps |
| `window_navigation` | an app's history as promised; the limit is exact | three indexes, three places, two changes in a window of two ticks, four instants: changes inside, on and past the edge of the window; two reports waiting |
| `page_navigation` | app and browser agree; no entry kept that the browser dropped; the app's moves land where its history says; every move settles | two places, three indexes, two changes of the app's and two moves of the operator's, each at any moment: a push, a replace, two Backs or a Back and a Forward, of one side or of both, crossing one another and the reports of them; loads at the first, at a shared and at an earlier entry, reloads, typing. Without the liveness property a third change or a third operator's move each still hold (7.4 million states) |
| `page_navigation_leave` | *violated*: only the operator leaves | the app goes back from its second entry while a Back before it, the operator's or its own, is still to be made |
| `screen_pointer` | who hears presses, moves, releases and keys | two windows overlapping in two arrangements over two spots, one button, two things waiting |
| `screen_shows` | the root has the page's size; a show is offered | the same windows, moves through the history, measurements of two sizes, closing and resizing, no pointer |
| `asks` | answers reach their own ask; the first stands; an ask ends while a page holds its prompt | two browsers and three asks of any kind: one whose chooser is still open, one whose write to the clipboard is still awaited, and the one they take the prompt from. Pages reload, streams break and files cannot be read in scripts of up to two asks (`MaxFaulty`) |
| `posts` | posts are handled in order and once, and in the end; callbacks are answered; WAITs come to what was said and end | two ports and the callback port, WAITs on none of them, on one or on all three; events of an unknown type; three posts, two WAITs one within the other, with no time or one slice of it, batches of two: a batch cut short, a batch with both kinds, a wake within a wake, and a callback that waits for the next one |
| `asks_unreadable` | *violated*: every ask ends | one browser that stays and an unreadable file |

`CHECK_DEADLOCK FALSE` is said of the asks, which end when `MaxAsks` have been
made and answered, of the posts, which end with `MaxPosts` (`Post`) and a script
that waits no more, and of the screens, where a script may have nothing more to
show and the operator nothing more to do. Every other passing run is checked for deadlock.

What each passing run shows:

- **`call_frames`**: whatever a script does, and whether its host runs whole
  sources or one value at a time, `LinksFollowTheCalls`,
  `RunningCallsAreRecorded` (the record may briefly name a call that has ended
  but never misses one that has not), `EnclosingCallsSurviveAWalk`, and reading
  a word through the chain of links finds the innermost open call.
- **`call_frames_sources`**: for whole sources, however they end, no call stays
  recorded and no function stays lent (`NothingOpenAtRest`), the host is handed
  an outcome and not a Java exception, and every signal is caught somewhere.
- **`runs`**: `StopsWithinACheck` counts the steps taken since there was a
  reason to stop; `OverdueRunsEnd` and `CancelledRunsEnd` hold of scripts that
  walk for ever, wait for ever or mix the two; `ACancelStopsOnlyItsOwnRun` says no
  cancel is left over from before the run was called.
- **`window_navigation`**: the concrete history refines the list of places;
  `NeverPastTheRate` and `RefusedOnlyWhenFull` bound the limit from both sides.
- **`page_navigation`**: `TheAppIsWhereThePageIs` and
  `EveryEntryKnownIsThePages` compare the two histories whenever nothing is on
  its way, and `EveryMoveSettles` says that comes about;
  `AMoveLandsWhereTheHistorySays` compares them in the middle of things, when
  the browser makes a move of the app's. Moves race as they like, so positions
  are stale and reports join calls. The code does let app and page come apart,
  and the properties say exactly when: an entry the app pushed or replaced was
  on its way while a report of where the page is was on its way the other way
  (`Crossing`). The first property excepts the time from there to the page's
  next report; the other two, which are about all entries, everything after the
  first crossing. The two about entries also stop at a typed address.
- **`screen_pointer`**, **`screen_shows`**: `PressedWindowsHearTheRelease`,
  `NoGrabOutlivesItsPress`, `KeysGoToWhoWasLastPressed`;
  `TheRootIsAsBigAsThePage` in whichever order the two become known;
  `EveryShowIsOfferedInTheEnd`.
- **`posts`**: `DeliveriesSpec` is the refinement; `EveryCallbackIsAnswered`
  says of every callback taken off the queue, and of no other, that it has its
  answer unless a WAIT is about to call it or calling it, or a stop came between
  the two; `WakesMeanWhatTheySay` relates what a WAIT comes to with all that was
  said to it since it began; `EveryWaitEnds` and `EveryPostIsHandled` hold
  although handlers wait and raise as they like.
- **`asks`**: `AnswersNameTheirAsk`, `TheFirstAnswerStands`,
  `OnlyTheAskInFlightWaits`, and `EveryAskEndsWhileAPageHoldsIt`, whose
  exceptions are recorded by two history variables: `faulted` (a page that goes,
  a stream that breaks, an unreadable file) and `holding`, which is empty once
  every page the ask was put to has lost its prompt to an earlier ask. A page
  that has the prompt of the ask and another that lost it is no exception.

Named bounds in the models: `MaxEntries` (frames over all walks), `LastIndex`
(entries of a history), `MaxTime` (the clock of the change limit), `MaxWaiting`
(queues), `MaxOperated` (moves of a page's operator), `MaxAsks`, `MaxFaulty`
(asks of a script in which something fails), `MaxPosts` (posts in all), `MaxWaits` (WAITs one within
another), `MaxSlices` (the time of a WAIT). `MaximumDepth`, `MostChanges`,
`Window`, `CheckEvery` and `MostAtOnce` are constants of the program with smaller values.

## Fairness

- `CallFrames`: weak fairness of `Unwinding` only. An exception on its way does
  not wait for the script; nothing makes a script finish a step.
- `InterpreterRuns`: weak fairness of beginning a run that was called, of the
  script's steps (a thread that runs gets on, a pause ends) and of time. None of
  settling: `Settle` is one of the script's steps and may never be chosen.
- `PageNavigation`: what is on its way arrives and the browser makes the moves
  it was asked for (`Carrying`); the app goes on looking for events (`AppAlone`),
  as one that waits on `system/ports/event` does. `Noting`, which every step
  takes with it, only keeps the history variable. Both sides make a bounded
  number of moves, so `EveryMoveSettles` is about what happens once they stop.
- `PageScreen`: a look once begun is finished (its steps are the interpreter's
  own); a run looks again or ends, with strong fairness since a script may do
  other things in between as often as it likes. The operator is under no
  obligation, and `EveryShowIsOfferedInTheEnd` speaks of an operator who pauses.
- `PortWaits`: weak fairness of a WAIT's own steps, which its thread takes
  without being asked (delivering, AWAKE, letting a slice pass), and strong
  fairness of handlers coming to an end, since a handler may wait in between as
  often as it likes. None of posting, of beginning to wait or of a screen having
  nothing more to say; `EveryPostIsHandled` speaks of scripts that keep waiting
  on ports. `MaxPosts` matters here: a delivery goes on for as long as something
  is posted meanwhile, so without a bound an extension could keep a WAIT at it.
- `PageAsks`: the waiting thread takes an answer that has come, and the pages,
  the server's threads and the operators together do not stop for ever while one
  of them has something to do. No single operator has to answer: one of those
  asked does.

## Proofs

`CallFramesProofs` proves, for all sets of functions, closures and frames and all bounds:

- `TypeCorrect == Spec => []TypeOK`.
- `LinksAlwaysFollow == Spec => []LinksFollowTheCalls`. The invariant is
  inductive together with `TypeOK`, but only because it says *exactly* which
  links exist: that a frame being handed back supersedes nothing it should not,
  one has to know that no frame is shared between two calls (`NotShared`) and
  that each context is taken over by at most one call. The lemmas are about the
  record alone: what a call takes over from is unique (`TakenOverFromOne`) and
  nobody else's (`InnermostIsFree`), adding a call at the end disturbs no
  earlier one (`EarlierCallsKeepTheirs`), and so lending and handing back keep
  the links matched (`LendingKeepsTheLinks`, `HandingBackKeepsTheLinks`).

- `LinksImplementScopes == Spec => ScopesSpec`, the refinement: what a
  function's words read through is the frame of its innermost open call. The
  chain of links is followed one at a time by a recursive function
  (`Following`), so the proof first shows by least counterexample that such a
  function exists (`IterationExists`, `FollowingFollows`), then that after `n`
  links it has come to the last open call of the function or to one no earlier
  on the record than the `n`-th (`LinksComeToTheLastCall`): as many links as
  there are calls are enough. What opening and ending a call do to
  the innermost call of every function (`InnermostAfterOpening`,
  `InnermostAfterEnding`) is then what `CallScopes` says.

and, of what happens when walks nest and are left:

- `RunningCallsStayRecorded == Spec => []RunningCallsAreRecorded` and
  `WalksEndTheirOwnCallsOnly == Spec => EnclosingCallsSurviveAWalk`;
- for a host that runs whole sources and applies functions (`~HostSteps`),
  `NothingStaysOpen == Spec => []NothingOpenAtRest` and
  `NothingEscapes == Spec => []NothingEscapesAsAHostException`.

The inductive invariant, `RecordInv`, says where on the record each running call
is (`RecordedAt`): in the order of the stack, the calls of a walk above its base
and those of the walks around it not. The record may hold more than that, calls
a RETURN dropped the frames of, and so the call a frame takes off the record
when it ends need not be its own; what the invariant shows is that it is never
one of a frame that stays (`EndingACall`), nor one open when an enclosing walk
began (`InnermostCallIsTheWalks`). It also needs that only the innermost walk is
on its way out (`LeavingIsInnermost`), or the calls handed back could be an inner
walk's. Steps fall into two kinds, each with its lemma: frames go
(`DroppingKeepsTheRecord`) or one is pushed, with or without a call on the record
(`PushingQuietly`, `PushingAndRecording`). That nothing is open at rest follows
from what the outermost walk's base is (`RestInv`), which is where a host that
steps is different.

`InterpreterRunsProofs` proves, for every time limit and every `CheckEvery`:

- `RunsAreWellTyped`, above all that the count of steps stays below the number
  at which it is looked at;
- `RunsStopWithinACheck`, `RunsAreStoppedByTheirOwnCancel`,
  `NoDeadlineOutlivesItsRun`.

All four come from one inductive invariant, `IInv`. `StopsWithinACheck` is not
inductive: it needs that the steps taken while due are among those counted
since the last check (`DueStepsAreCounted`), which a `Step` keeps because a look
that finds a reason ends the run. `ACancelStopsOnlyItsOwnRun` needs that the
flag a *running* script can see was raised since its run was called
(`ACancelSeenIsItsOwn`).

`PageAsksProofs` proves, for every set of browsers and every number of asks:

- `AsksAreWellTyped`, `NoAskTakesAnothersAnswer`, `NoAnswerIsReplaced` and
  `NoFutureIsLeftBehind`.

The inductive invariant is `TypeOK` with what is true of the server alone,
whatever its pages do (`ServerInv`). What it adds is `FuturesHoldFirstAnswers`:
a future that is complete holds the first answer posted to its ask, one that is
pending has had none, and neither has an ask still to be made. Every action of a
page but the post of an answer leaves the server's part as it is
(`PagesLeaveTheServer`), so only the typing of its prompt is left to show for it.

`ChangeRateProofs` proves, for every limit and window:

- `TheRateIsKept == RateSpec => []NeverPastTheRate` and
  `RefusalsHaveACause == RateSpec => []RefusedOnlyWhenFull`. The invariant
  `RateInv` relates what is kept to what ever happened: the times kept are the
  last of all the changes made, and the rest no longer count. That the loop
  which drops old times has one place to stop (`DroppedIsDefined`) would be an
  induction over the list; here it comes from `Splits`, which says of every time
  that the list parts at it, and which each change keeps.

`WindowNavigationProofs` proves, for all places, limits and bounds:

- `WindowHistoriesAreWellTyped`, `ThePositionIsAlwaysAnEntry`, and
  `TheRateIsKeptInAWindow`, since every step in a window is, to the limit, one
  of its own or none (`StepsAreRateSteps`);
- `AWindowKeepsTheAppsHistory == Spec => AppSpec`, the refinement. It needs that
  an arrival which waits to be taken is at an entry and carries that entry's
  place (`ArrivalsAreEntries`): then arriving writes nothing new, and is a move
  of the list even when the operator's requests got in before it. Going
  somewhere and replacing are shown to be `Go` and `Replace` of the list
  (`AdvancingIsAppGo`, `RewritingIsAppReplace`).

`PageNavigationProofs` proves, for all places, limits and bounds:

- `PageHistoriesAreWellTyped == Spec => []TypeOK`;
- `TheAppAndThePageAgree`, `[]TheAppIsWhereThePageIs`;
- `TheHistoryKnowsThePagesEntries`, `[]EveryEntryKnownIsThePages`;
- `TheAppsMovesLandWhereItsHistorySays`, the action property
  `AMoveLandsWhereTheHistorySays`.

All of them hold however moves race, with no assumption on app or operator.
The first two properties speak only of moments when nothing is on its way, so
what makes them hold is what is true meanwhile, and `IInv` says it of any number
of messages in the three queues. `Agreement`, while nothing crosses: the last
thing said decides. If changes are on their way that name an entry, the last of
them is where the app is; otherwise the last report is where the page is; and
if there is neither, both are at the same place (`LastSaid`). Each message taken
leaves the last one as it was, and the last one taken makes the two agree.
`OneHistory`, as long as nothing has crossed: the entries of the tab and the
pushes on their way are numbered without a gap (`Numbered`, `InOrder`), the
app's position is the number the last push will give or the page's own
(`PositionInOrder`), and until an address is typed every entry the app knows is
the tab's, or is what the last change naming it will make of it, or would have
been dropped by the app when it made the push that will drop it (`Known`). An
app's Back or Forward made at the place it was worked out from then has no
choice: the entry it names exists, so it is no step out of the app, and what
`Known` says of it is what it reaches. There is one lemma for each thing a step
can do: say nothing (`StayingKeepsIInv`), ask for a move (`AskingKeepsIInv`),
name an entry, report, take a report, deliver one, and carry out a change.

`PortWaitsProofs` proves, for all ports, every size of batch, every number of
posts and every depth of WAITs one within another:

- `WaitsAreTyped`, `CallbacksAreAnswered == Spec => []EveryCallbackIsAnswered`;
- `WakesAreWhatWasSaid == Spec => WakesMeanWhatTheySay`, an action property;
- `WaitsDeliver == Spec => DeliveriesSpec`, the refinement.

All four come from one inductive invariant, `IInv`. `QueueOK` says that the
system port's queue holds exactly what is polled and not handled, each kind in
order: from it the head of the queue is the first of its kind that can be
handled (`FirstQueued`), which is what `Deliveries` asks, and for callbacks,
which are never of an unknown type, the very next one. `WaitsOK` says that no
two WAITs have the same callback in hand and that only the innermost can be
about to call (`OnlyTheTopIsWaking`), so a stop leaves at most one callback
without its answer. `WakeListOK` ties the wake list to what the innermost WAIT
has heard. Steps that leave the queues alone are treated once, by what becomes
of the innermost WAIT (`QuietBecoming`, `QuietEnding`).

`PageScreenProofs` proves, for all windows, spots, layouts, sizes and bounds:

- `TheRootGobFitsThePage == Spec => []TheRootIsAsBigAsThePage`, which needs only
  that a root gob not yet given has no size (`SizesAgree`);
- `NoWindowKeepsThePointer == Spec => []NoGrabOutlivesItsPress`, for any number
  of buttons;
- `EveryPressIsReleased`, `[]PressedWindowsHearTheRelease` where one button is
  pressed at a time: with two it is false, see below;
- `ScreensAreWellTyped == Spec => []TypeOK` and `KeysFollowThePress == Spec =>
  KeysGoToWhoWasLastPressed`, an action property, for any number of buttons.

`PointerInv` is inductive because of two facts the properties do not mention.
The postings on their way never count below no button down nor above all of them
(`ButtonsAsPosted`, which says so by a function giving the buttons down after
each, a posting addressed shifting it and one posted extending it): so a press
is never addressed while one is held, nor a release while none is. And the
windows pressed are at most the one the press began in, and it shows
(`PressedIsTheGrab`): so the release goes to it and not to whatever is under the
pointer by then. For the keyboard the invariant is `TheKeyboardFollows`: the
window that heard the last press, while it shows, is the one the surface has the
keyboard with. The rest is about lists: that one event was added to the queue
says who heard the posting it was made from (`AKeyIsHeard`). What a closing page
adds is the windows that show in their order, whose typing is a fact about
counting (`PlacesAreCounted`: the k-th of some places exists); that they are all
the windows that show, each once and bottom to top, is `InOrderSelects`.

The assumptions are those the modules name (`FramesAssumption`,
`RunsAssumption`, `AsksAssumption`, `WaitsAssumption`, `RateAssumption`,
`HistoryAssumption`, `PageAssumption`, `SurfaceAssumption`,
`PageScreenAssumption`); TLC evaluates
them in the runs.

Only model-checked: liveness (`EverySignalLands`, `OverdueRunsEnd`,
`CancelledRunsEnd`, `EveryMoveSettles`, `EveryShowIsOfferedInTheEnd`,
`EveryAskEndsWhileAPageHoldsIt`, `EveryWaitEnds`, `EveryPostIsHandled`), which is
beyond the prover under fairness, as is anything with ENABLED. Every invariant
and every action property a run checks, and every refinement, is also a theorem.

## Where the code and its documents disagree

Checked, each by the run that is expected to find it (`PROJECT.json`,
`findings`, quotes the text):

- `call_frames_return`: a RETURN performed while a paren's or a function's value
  is being delivered is thrown outside the loop's `try`, and leaves more than
  the function it is in.
- `page_navigation_leave`: a GO-BACK is worked out from the position last
  reported, and when a Back before it, the operator's or the app's own, has the
  browser at the first entry by the time it makes this one, the page is taken
  out of the app.
- `asks_unreadable`: an ask for files is never answered when a file cannot be read.

Met while modelling and visible in the models, but not the subject of a run:
`evaluateNextOrRaise` ends its walk and not the calls opened in it, so a host
that runs one value at a time keeps the call of a function that raised, and its
frame lent, for every later run (`NothingOpenAtRest` fails of `CallFrames` with
`HostSteps = TRUE`); a WAIT on the event port delivers nothing
(`WaitNative.waitOnScreen` and `waitOnScreenFor` do not call
`deliverWhatWasPosted`), so what an extension posts does not wait "there until
the script next calls `wait`" (`docs/writing-an-extension.md:216-217`) but until it next
waits on something else (`WaitOnScreen` in `PortWaits`); a stop that comes after
a callback has left the queue and before it is applied leaves the extension
without an answer (`unanswered`); an ask is not ended by its page going (`PageAsks`, `StreamBreaks`); files chosen
for an ask another browser answered go to the next ask for files (`Choose`); an
ask can wait for ever with no fault at all, when every page it was put to lost
its prompt to an ask already over: a chooser left open by one ask hides the next
one's prompt when it closes, and a copy the browser rejects late puts its own
handlers over it (`SettleWrite`, `CloseChooser`; `EveryAskEnds` fails with three
asks and no page that leaves nor file that fails); an entry the app makes that
crosses a report leaves app and page at different places, with nothing on its
way to put it right until the page next reports (`TheAppIsWhereThePageIs` fails
without `crossed # "now"`); an address typed in the middle of the history
leaves entries known that the browser dropped; a page is not painted while
events come as fast as they are taken, and a move through the history overtakes
events posted before it (`PageScreen`); with two mouse buttons down the first
release ends the grab (`Buttons = 2`); a script that settles after its deadline
and before its next check counts as finished (`Settle`); `runNext` lets signals
nothing catches reach the host (`Concluded`).

## What is not modelled

`PROJECT.json` lists every component with its status. Left out for good: the
reader, molder, value arithmetic, ciphers, compression, fonts and drawing
(sequential conversions of data, tested against the reference implementation),
the several hundred natives and actions that touch nothing but their arguments,
and the loading of the library, which happens once in a fixed order. Vendored
and generated code (`rebol3-source`, the ports of compression libraries and of
blend2d) is not JEBOL's own.

Not yet modelled, in the parts that are: AWAKE/ONLY of the system port, which
WAIT never asks for, and what a script itself puts on that port's queue; growth, protection and copying of
contexts; the molding of results; what an answer to an ask *becomes* (picked
files, saved ones); the written form of a picture and the layout of gobs; a
page's channel that loses or reorders posts, and a page loaded again while moves
are on their way (`Reload` of `PageNavigation` waits until none are: some would
be lost with the page).

## Plan

Done, in this order: `CallFrames` with its abstract specification and its
theorems; the navigation family with `AppHistory`, the theorems of the limit on
changes and of a window's history; `Surface` and `PageScreen`; `InterpreterRuns`
and `PageAsks` with their theorems; `PortWaits` with `Deliveries` and theirs.

Next, to be modelled:

1. `DesktopScreen`: toolkit windows kept in step across the toolkit's thread
   while the operator closes them. Composes with `WindowNavigation`.
2. `PickedFiles` and `PageMidiDevices`: numbers and connections that outlive a page.
3. A lossy, reordering stream between page and server, under `PageScreen` and `PageAsks`.
4. `SeriesMemory` and `GobStorage` (shared storage, panes without cycles), the
   states of a network port, child processes, the console's continuation, and
   the security policies as a decision table.

Next, to be proved: what those modules will promise. Of the ones there are, every
safety property is proved.
