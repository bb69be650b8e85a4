------------------------------- MODULE PortWaits -------------------------------
(***************************************************************************)
(* What extensions post and how WAIT takes it (Postbox.java,               *)
(* WaitNative.java, DoCallbackNative.java, and the AWAKE of the system     *)
(* port in sys-ports.reb).  Any thread posts, at any moment.  The script's *)
(* thread waits: a look delivers what was posted onto the system port's    *)
(* queue and has that port's AWAKE wake the port of each event in turn.    *)
(* What a port's own awake does is the script's: it says true or false,    *)
(* raises, or waits itself, so that one WAIT runs within another and both  *)
(* share the queue and the wake list of the system port.                   *)
(***************************************************************************)
EXTENDS Integers, Sequences, SequencesExt

CONSTANTS
  Ports,         \* the ports of extensions
  CallbackPort,  \* system/ports/callback
  Nameless,      \* where an event goes whose type the catalogue lacks
  Nothing,       \* no port, no post
  MostAtOnce,    \* the 8 of the system port's AWAKE
  Blocks,        \* the ports a script waits on together
  MaxPosts,      \* bound: posts in all
  MaxWaits,      \* bound: WAITs one within another
  MaxSlices      \* bound: slices of time a WAIT is given

ASSUME WaitsAssumption ==
  /\ CallbackPort \notin Ports
  /\ Nameless \notin Ports \cup {CallbackPort}
  /\ Nothing \notin Ports \cup {CallbackPort}
  /\ {"raised", "stopped"} \cap (Ports \cup {CallbackPort, Nothing}) = {}
  /\ Blocks \subseteq SUBSET (Ports \cup {CallbackPort})
  /\ MostAtOnce \in Nat /\ MaxPosts \in Nat /\ MaxWaits \in Nat /\ MaxSlices \in Nat

VARIABLES
  posted,     \* the two queues of the postbox, with what has left them
  polled,     \* how many have left each
  state,      \* the events queued on the system port
  data,       \* its wake list
  waits,      \* the WAITs being run, the innermost last
  answers,    \* what came back for each callback
  handled,    \* of each kind, the last one handled
  outcome,    \* what the last WAIT to end came to
  unanswered  \* the callbacks a stop took between the queue and their call

vars == <<posted, polled, state, data, waits, answers, handled, outcome, unanswered>>

Kinds == {"event", "callback"}

Targets(kind) == IF kind = "callback" THEN {CallbackPort} ELSE Ports \cup {Nameless}

Waitable == Ports \cup {CallbackPort}

Replies == {"awaited", "answered", "failed"}

\* The n-th post of a kind.
Posting(kind, n) == [kind |-> kind, n |-> n]

PortOf(post) == posted[post.kind][post.n]

Top == Last(waits)

Become(frame) == waits' = [waits EXCEPT ![Len(waits)] = frame]

Init ==
  /\ posted = [k \in Kinds |-> <<>>]
  /\ polled = [k \in Kinds |-> 0]
  /\ state = <<>> /\ data = {}
  /\ waits = <<>>
  /\ answers = <<>>
  /\ handled = [k \in Kinds |-> 0]
  /\ outcome = Nothing
  /\ unanswered = {}

-----------------------------------------------------------------------------
\* A thread of an extension posts an event for a port, or a callback.
Post(kind, to) ==
  /\ Len(posted["event"]) + Len(posted["callback"]) < MaxPosts
  /\ posted' = [posted EXCEPT ![kind] = Append(@, to)]
  /\ answers' = IF kind = "callback" THEN Append(answers, "awaited") ELSE answers
  /\ UNCHANGED <<polled, state, data, waits, handled, outcome, unanswered>>

-----------------------------------------------------------------------------
(***************************************************************************)
(* A WAIT, by where it has got to: delivering the events and then the      *)
(* callbacks posted, in the AWAKE of the system port, in the awake of a    *)
(* port, about to call a callback, calling it, having called it, or        *)
(* letting a slice of its time pass; or waiting on the screen, which       *)
(* delivers nothing.  heard and alone are history: the ports that said     *)
(* true to it, and whether the wake list began empty and was its alone,    *)
(* without which heard is not kept.                                        *)
(***************************************************************************)
Places == {"event", "callback", "awake", "handling", "waking", "calling", "called", "pausing",
           "screen"}

Frames == [on : SUBSET Waitable, left : 0 .. MaxSlices, at : Places, seen : Nat,
           heard : SUBSET Waitable, alone : BOOLEAN, post : [kind : Kinds, n : Nat] \cup {Nothing}]

\* Script of the user's runs: none waits, or a handler is being run.
ScriptRuns == waits # <<>> => Top.at \in {"handling", "calling", "screen"}

Begin(on, slices, at) ==
  /\ ScriptRuns /\ Len(waits) < MaxWaits
  /\ waits' = Append(IF waits = <<>> THEN waits
                     ELSE [waits EXCEPT ![Len(waits)] = [@ EXCEPT !.alone = FALSE, !.heard = {}]],
                     [on |-> on, left |-> slices, at |-> at, seen |-> 0,
                      heard |-> {}, alone |-> data = {}, post |-> Nothing])
  /\ outcome' = Nothing
  /\ UNCHANGED <<posted, polled, state, data, answers, handled, unanswered>>

\* WAIT of a time, of ports or of a block of them.
WaitOnPorts(on, slices) == Begin(on, slices, "event")

\* WAIT of the event port, alone or with a time.
WaitOnScreen == Begin({}, 0, "screen")

End(as) ==
  /\ waits' = Front(waits)
  /\ outcome' = as

\* The screen has nothing more to say, an event of it woke, time is up, or a
\* handler of the window's raised.
ScreenWaitEnds ==
  /\ waits # <<>> /\ Top.at = "screen"
  /\ \E as \in {Nothing, "raised"} : End(as)
  /\ UNCHANGED <<posted, polled, state, data, answers, handled, unanswered>>

\* (mutant) Deliveries are put before what is queued.
DeliverInFront(kind, next) ==
  /\ waits # <<>> /\ Top.at = kind
  /\ IF polled[kind] = Len(posted[kind])
     THEN Become([Top EXCEPT !.at = next]) /\ UNCHANGED <<polled, state>>
     ELSE LET n == polled[kind] + 1
          IN  /\ polled' = [polled EXCEPT ![kind] = n]
              /\ state' = IF posted[kind][n] = Nameless THEN state
                          ELSE <<Posting(kind, n)>> \o state
              /\ UNCHANGED waits
  /\ UNCHANGED <<posted, data, answers, handled, outcome, unanswered>>

\* One post is taken from the postbox and, if its type is known, queued.
Deliver(kind, next) ==
  /\ waits # <<>> /\ Top.at = kind
  /\ IF polled[kind] = Len(posted[kind])
     THEN Become([Top EXCEPT !.at = next]) /\ UNCHANGED <<polled, state>>
     ELSE LET n == polled[kind] + 1
          IN  /\ polled' = [polled EXCEPT ![kind] = n]
              /\ state' = IF posted[kind][n] = Nameless THEN state
                          ELSE Append(state, Posting(kind, n))
              /\ UNCHANGED waits
  /\ UNCHANGED <<posted, data, answers, handled, outcome, unanswered>>

-----------------------------------------------------------------------------
(***************************************************************************)
(* The AWAKE of the system port.                                           *)
(***************************************************************************)
InAwake == waits # <<>> /\ Top.at = "awake"

\* (mutant) Only events of the ports waited on are looked at.
LooksFurtherOnly ==
  /\ Top.seen <= MostAtOnce /\ state # <<>>
  /\ PortOf(Head(state)) \in Top.on

LooksFurther == Top.seen <= MostAtOnce /\ state # <<>>

\* An event is removed before its port is woken, as its awake may wait.
WakeNext ==
  /\ InAwake /\ LooksFurther
  /\ LET post == Head(state)
     IN  /\ Become([Top EXCEPT !.post = post,
                               !.at = IF PortOf(post) = CallbackPort THEN "waking" ELSE "handling"])
         /\ handled' = [handled EXCEPT ![post.kind] = post.n]
  /\ state' = Tail(state)
  /\ UNCHANGED <<posted, polled, data, answers, outcome, unanswered>>

\* One of the ports waited on is on the wake list, which is emptied.
WakeUp ==
  /\ InAwake /\ ~LooksFurther
  /\ \E port \in Top.on \cap data : End(port)
  /\ data' = {}
  /\ UNCHANGED <<posted, polled, state, answers, handled, unanswered>>

\* None is, but events were handled: AWAKE says false and is called again.
KeepLooking ==
  /\ InAwake /\ ~LooksFurther
  /\ Top.on \cap data = {} /\ Top.seen > 0
  /\ Become([Top EXCEPT !.seen = 0])
  /\ UNCHANGED <<posted, polled, state, data, answers, handled, outcome, unanswered>>

\* (mutant) A WAIT lets one slice more pass than it was given.
NothingWokeOneMore ==
  /\ InAwake /\ ~LooksFurther
  /\ Top.on \cap data = {} /\ Top.seen = 0
  /\ data' = {}
  /\ IF Top.left < 0
     THEN End(Nothing)
     ELSE Become([Top EXCEPT !.at = "pausing"]) /\ UNCHANGED outcome
  /\ UNCHANGED <<posted, polled, state, answers, handled, unanswered>>

\* None is and there was none to handle: AWAKE says none, the wake list is
\* emptied, and the WAIT ends or lets a slice of its time pass.
NothingWoke ==
  /\ InAwake /\ ~LooksFurther
  /\ Top.on \cap data = {} /\ Top.seen = 0
  /\ data' = {}
  /\ IF Top.left = 0
     THEN End(Nothing)
     ELSE Become([Top EXCEPT !.at = "pausing"]) /\ UNCHANGED outcome
  /\ UNCHANGED <<posted, polled, state, answers, handled, unanswered>>

\* (mutant) The time of a WAIT is not counted.
PauseUncounted ==
  /\ waits # <<>> /\ Top.at = "pausing"
  /\ Become([Top EXCEPT !.at = "event"])
  /\ UNCHANGED <<posted, polled, state, data, answers, handled, outcome, unanswered>>

Pause ==
  /\ waits # <<>> /\ Top.at = "pausing"
  /\ Become([Top EXCEPT !.at = "event", !.left = @ - 1])
  /\ UNCHANGED <<posted, polled, state, data, answers, handled, outcome, unanswered>>

\* A pause the host cuts short ends the WAIT.
PauseCutShort ==
  /\ waits # <<>> /\ Top.at = "pausing"
  /\ End(Nothing)
  /\ UNCHANGED <<posted, polled, state, data, answers, handled, unanswered>>

-----------------------------------------------------------------------------
(***************************************************************************)
(* Handlers.                                                               *)
(***************************************************************************)
Said(truth, woken) ==
  Become([Top EXCEPT !.at = "awake", !.seen = @ + 1, !.post = Nothing,
                     !.heard = IF truth /\ Top.alone THEN @ \cup woken ELSE @])

\* (mutant) The wake list holds the last port woken.
SaysTrueOverwriting ==
  /\ waits # <<>> /\ Top.at \in {"handling", "called"}
  /\ Said(TRUE, {PortOf(Top.post)})
  /\ data' = {PortOf(Top.post)}
  /\ UNCHANGED <<posted, polled, state, answers, handled, outcome, unanswered>>

\* The port's awake says true, or it has none; that of the callback port
\* says it once its callback has answered.
SaysTrue ==
  /\ waits # <<>> /\ Top.at \in {"handling", "called"}
  /\ Said(TRUE, {PortOf(Top.post)})
  /\ data' = data \cup {PortOf(Top.post)}
  /\ UNCHANGED <<posted, polled, state, answers, handled, outcome, unanswered>>

SaysOtherwise ==
  /\ waits # <<>> /\ Top.at = "handling"
  /\ Said(FALSE, {})
  /\ UNCHANGED <<posted, polled, state, data, answers, handled, outcome, unanswered>>

\* What a handler raises goes through the WAIT to whoever called it.
Raises ==
  /\ waits # <<>> /\ Top.at = "handling"
  /\ End("raised")
  /\ UNCHANGED <<posted, polled, state, data, answers, handled, unanswered>>

DoCallback ==
  /\ waits # <<>> /\ Top.at = "waking"
  /\ Become([Top EXCEPT !.at = "calling"])
  /\ UNCHANGED <<posted, polled, state, data, answers, handled, outcome, unanswered>>

CallbackAnswers ==
  /\ waits # <<>> /\ Top.at = "calling"
  /\ answers' = [answers EXCEPT ![Top.post.n] = "answered"]
  /\ Become([Top EXCEPT !.at = "called"])
  /\ UNCHANGED <<posted, polled, state, data, handled, outcome, unanswered>>

\* (mutant) A failure is told to the script and not to the extension.
CallbackRaisesUntold ==
  /\ waits # <<>> /\ Top.at = "calling"
  /\ End("raised")
  /\ UNCHANGED <<posted, polled, state, data, answers, handled, unanswered>>

CallbackRaises ==
  /\ waits # <<>> /\ Top.at = "calling"
  /\ answers' = [answers EXCEPT ![Top.post.n] = "failed"]
  /\ End("raised")
  /\ UNCHANGED <<posted, polled, state, data, handled, unanswered>>

\* The callbacks being called, by WAITs one within another.
Calling == {waits[i].post.n : i \in {j \in DOMAIN waits : waits[j].at = "calling"}}

(***************************************************************************)
(* The run is stopped, wherever script is run or time let pass.  It ends   *)
(* every WAIT; the callbacks being called fail, the one about to be called *)
(* is told nothing, and the system port is left as it was.                 *)
(***************************************************************************)
Stop ==
  /\ waits # <<>> /\ Top.at \notin {"event", "callback"}
  /\ answers' = [n \in DOMAIN answers |-> IF n \in Calling THEN "failed" ELSE answers[n]]
  /\ unanswered' = IF Top.at = "waking" THEN unanswered \cup {Top.post.n} ELSE unanswered
  /\ waits' = <<>> /\ outcome' = "stopped"
  /\ UNCHANGED <<posted, polled, state, data, handled>>

-----------------------------------------------------------------------------
Posts == \E k \in Kinds : \E to \in Targets(k) : Post(k, to)

Waits ==
  \/ Deliver("event", "callback") \/ Deliver("callback", "awake")
  \/ WakeNext \/ WakeUp \/ KeepLooking \/ NothingWoke
  \/ Pause \/ PauseCutShort \/ DoCallback

Handlers == SaysTrue \/ SaysOtherwise \/ Raises \/ CallbackAnswers \/ CallbackRaises

Scripts ==
  \/ \E on \in Blocks, slices \in 0 .. MaxSlices : WaitOnPorts(on, slices)
  \/ WaitOnScreen \/ ScreenWaitEnds

Next == Posts \/ Waits \/ Handlers \/ Scripts \/ Stop

(***************************************************************************)
(* The script's thread gets on with a WAIT, and a handler it runs comes to *)
(* its end however often it waits itself.  Nothing makes a script wait, a  *)
(* screen have nothing to say or an extension post.                        *)
(***************************************************************************)
Spec == Init /\ [][Next]_vars /\ WF_vars(Waits) /\ SF_vars(Handlers)

-----------------------------------------------------------------------------
\* Types and ranges of the variables.
TypeOK ==
  /\ posted \in [Kinds -> Seq(Waitable \cup {Nameless})]
  /\ polled \in [Kinds -> Nat]
  /\ state \in Seq([kind : Kinds, n : Nat])
  /\ data \subseteq Waitable
  /\ waits \in Seq(Frames)
  /\ answers \in Seq(Replies)
  /\ handled \in [Kinds -> Nat]
  /\ outcome \in Waitable \cup {Nothing, "raised", "stopped"}
  /\ unanswered \subseteq Nat

(***************************************************************************)
(* Every callback taken off the queue has been answered or failed, or some *)
(* WAIT is about to call it or calling it, however deep the calls go; only *)
(* a stop that comes after it is taken and before it is called leaves its  *)
(* extension without an answer.                                            *)
(***************************************************************************)
EveryCallbackIsAnswered ==
  \A n \in 1 .. handled["callback"] :
    answers[n] = "awaited" <=>
      \/ n \in unanswered
      \/ \E i \in DOMAIN waits : /\ waits[i].at \in {"waking", "calling"}
                                 /\ waits[i].post.n = n

(***************************************************************************)
(* A WAIT that begins with an empty wake list, and within which no other   *)
(* runs, comes to a port exactly when a port it waits on said true to it,  *)
(* and then to one that did: neither an event for another port, nor a      *)
(* batch cut short, nor a port woken late in a batch hides a wake.         *)
(***************************************************************************)
WakesMeanWhatTheySay ==
  [][\A port \in Waitable \cup {Nothing} :
       (/\ waits # <<>> /\ Top.alone /\ Top.at = "awake"
        /\ waits' = Front(waits) /\ outcome' = port)
         => IF port = Nothing THEN Top.on \cap Top.heard = {}
            ELSE port \in Top.on \cap Top.heard]_vars

(***************************************************************************)
(* Each post of a kind is handled in the order posted and at most once,    *)
(* and a callback answered at most once and not before it is handled, for  *)
(* all that WAITs within WAITs take from one queue and runs are stopped.   *)
(***************************************************************************)
Promised == INSTANCE Deliveries

DeliveriesSpec == Promised!Spec

(***************************************************************************)
(* A WAIT on ports ends, with its time, unless it comes to wait on the     *)
(* screen: what its handlers do and what WAITs they run, and events that   *)
(* wake no port it waits on, do not put its end off for ever.              *)
(***************************************************************************)
EveryWaitEnds == waits # <<>> ~> (waits = <<>> \/ Top.at = "screen")

\* Something posted, of a type that is known, has not been handled.
Outstanding ==
  \E k \in Kinds : \E n \in handled[k] + 1 .. Len(posted[k]) : posted[k][n] # Nameless

(***************************************************************************)
(* Whatever is posted is handled so long as the script keeps waiting on    *)
(* ports and is not stopped for ever: a handler that raises, or waits      *)
(* itself, costs no other post its turn.                                   *)
(***************************************************************************)
EveryPostIsHandled ==
  (/\ <>[][~Stop]_vars
   /\ []<>(waits # <<>> /\ Top.at = "event"))
    => (Outstanding ~> ~Outstanding)
=============================================================================
