--------------------------- MODULE InterpreterRuns ----------------------------
(***************************************************************************)
(* The runs of one interpreter and what stops them (Interpreter.java, the  *)
(* check between steps in Evaluator.java and the pauses of WaitNative).    *)
(* The host's thread runs one source after another; any thread may cancel, *)
(* at any moment; and time passes.  What a script does is left open: it    *)
(* walks on, waits, or settles.  A WAIT of any kind is a number of pauses, *)
(* with handlers, which are steps of the script, in between.               *)
(***************************************************************************)
EXTENDS Integers

CONSTANTS
  CheckEvery,  \* how many steps go by between two looks at reasonToStop
  TimeLimits,  \* those an interpreter may be made with
  Never        \* no deadline, or none that any clock will reach

ASSUME RunsAssumption ==
  /\ CheckEvery \in Nat \ {0}
  /\ Never \notin Nat
  /\ TimeLimits \subseteq (Nat \ {0}) \cup {Never}

VARIABLES
  timeLimit,              \* how long a run may take: of the interpreter's bounds
  phase,                  \* where the host's thread is
  cancellationRequested,
  left,                   \* how far off the deadline is; 0 once it has passed
  steps,                  \* stepsSinceLastCheck
  conclusion              \* what the last run came to

\* History: whether a cancel came since the host called run, and the steps
\* taken since there was a reason to stop.
VARIABLES asked, stepsDue

vars == <<timeLimit, phase, cancellationRequested, left, steps, conclusion, asked, stepsDue>>

Overdue == left = 0

\* The deadline is looked at before the cancellation.
ReasonToStop ==
  IF Overdue THEN "timed-out" ELSE IF cancellationRequested THEN "cancelled" ELSE "none"

Due == ReasonToStop # "none"

Init ==
  /\ timeLimit \in TimeLimits
  /\ phase = "idle" /\ cancellationRequested = FALSE
  /\ left = Never /\ steps = 0 /\ conclusion = "none"
  /\ asked = FALSE /\ stepsDue = 0

-----------------------------------------------------------------------------
\* The host calls run, runNext or start.
Call ==
  /\ phase = "idle"
  /\ phase' = "called"
  /\ conclusion' = "none"
  /\ asked' = FALSE /\ stepsDue' = 0
  /\ UNCHANGED <<timeLimit, cancellationRequested, left, steps>>

\* (mutant) A cancel from before the run is kept.
BeginKeepingCancel ==
  /\ phase = "called"
  /\ phase' = "running"
  /\ left' = timeLimit
  /\ UNCHANGED <<timeLimit, cancellationRequested, steps, conclusion, asked, stepsDue>>

\* A run forgets a cancel from before it and is given its deadline.
Begin ==
  /\ phase = "called"
  /\ phase' = "running"
  /\ cancellationRequested' = FALSE
  /\ left' = timeLimit
  /\ UNCHANGED <<timeLimit, steps, conclusion, asked, stepsDue>>

Cancel ==
  /\ cancellationRequested' = TRUE
  /\ asked' = TRUE
  /\ UNCHANGED <<timeLimit, phase, left, steps, conclusion, stepsDue>>

Tick ==
  /\ left \in Nat \ {0}
  /\ left' = left - 1
  /\ UNCHANGED <<timeLimit, phase, cancellationRequested, steps, conclusion, asked, stepsDue>>

-----------------------------------------------------------------------------
\* Whatever a run came to, its deadline is put away.
Conclude(as) ==
  /\ phase' = "idle" /\ conclusion' = as
  /\ left' = Never
  /\ UNCHANGED <<timeLimit, cancellationRequested, asked>>

GoOn(to) ==
  /\ phase' = to
  /\ UNCHANGED <<timeLimit, cancellationRequested, left, conclusion, asked>>

\* (mutant) A cancel stops nothing.
StopIfOverdue(to) == IF Overdue THEN Conclude("timed-out") ELSE GoOn(to)

\* A reason to stop ends the run: nothing a script does can catch it.
StopOr(to) == IF Due THEN Conclude(ReasonToStop) ELSE GoOn(to)

CheckedStep ==
  /\ steps + 1 >= CheckEvery
  /\ steps' = 0
  /\ StopOr("running")

\* (mutant) The count of steps is one off.
UncheckedStepOneMore ==
  /\ steps < CheckEvery
  /\ steps' = steps + 1
  /\ GoOn("running")

UncheckedStep ==
  /\ steps + 1 < CheckEvery
  /\ steps' = steps + 1
  /\ GoOn("running")

\* The evaluator takes a step of its walk.
Step ==
  /\ phase = "running"
  /\ CheckedStep \/ UncheckedStep
  /\ stepsDue' = IF Due THEN stepsDue + 1 ELSE 0

\* (mutant) A wait leaves the looking to the steps of the script.
WaitLooksNot(to) == GoOn(to)

\* A wait looks before each slice of it and after the last.
WaitLooks(to) == StopOr(to)

Pause ==
  /\ phase = "running"
  /\ WaitLooks("pausing")
  /\ UNCHANGED <<steps, stepsDue>>

Wake ==
  /\ phase = "pausing"
  /\ WaitLooks("running")
  /\ UNCHANGED <<steps, stepsDue>>

\* A pause the platform cuts short ends the wait, and the script goes on.
WakeInterrupted ==
  /\ phase = "pausing"
  /\ GoOn("running")
  /\ UNCHANGED <<steps, stepsDue>>

\* The script comes to its end, by a value, a failure, QUIT or HALT.
Settle ==
  /\ phase = "running"
  /\ \E as \in {"produced-a-value", "raised", "quit-early", "halted"} : Conclude(as)
  /\ UNCHANGED <<steps, stepsDue>>

Evaluates == Step \/ Pause \/ Wake \/ WakeInterrupted \/ Settle

Next == Call \/ Begin \/ Cancel \/ Tick \/ Evaluates

(***************************************************************************)
(* A thread that is running a script gets on with it, a pause ends, and    *)
(* time passes.  Nothing makes a script settle.                            *)
(***************************************************************************)
Spec ==
  /\ Init /\ [][Next]_vars
  /\ WF_vars(Begin) /\ WF_vars(Evaluates) /\ WF_vars(Tick)

-----------------------------------------------------------------------------
\* Types and ranges of the variables.
TypeOK ==
  /\ timeLimit \in TimeLimits
  /\ phase \in {"idle", "called", "running", "pausing"}
  /\ cancellationRequested \in BOOLEAN
  /\ left \in Nat \cup {Never}
  /\ steps \in 0 .. CheckEvery - 1
  /\ conclusion \in {"none", "produced-a-value", "raised", "quit-early", "halted",
                     "timed-out", "cancelled"}
  /\ asked \in BOOLEAN
  /\ stepsDue \in Nat

(***************************************************************************)
(* Once a run is overdue or cancelled its script takes fewer steps than    *)
(* there are between two checks, however it divides its time between       *)
(* walking and waiting, and however far the count of steps had got when    *)
(* the run began (Evaluator.stopIfAsked).                                  *)
(***************************************************************************)
StopsWithinACheck == phase \in {"running", "pausing"} => stepsDue < CheckEvery

(***************************************************************************)
(* A run stops as cancelled only when the host cancelled since it called   *)
(* that run: a cancel left over from before, or that came while nothing    *)
(* was running, stops nothing (EmbeddingTest, "cancelling when nothing is  *)
(* running is harmless").                                                  *)
(***************************************************************************)
ACancelStopsOnlyItsOwnRun == conclusion = "cancelled" => asked

(***************************************************************************)
(* No deadline outlives its run: between runs, and until a run has set its *)
(* own, nothing done with the interpreter can be found overdue.            *)
(***************************************************************************)
NoDeadlineBetweenRuns == phase \in {"idle", "called"} => left = Never

(***************************************************************************)
(* An overdue run ends, whether its script walks for ever, waits for ever  *)
(* or does both by turns.                                                  *)
(***************************************************************************)
OverdueRunsEnd == Overdue ~> phase = "idle"

(***************************************************************************)
(* A run the host cancels once it has begun ends too, with a time limit or *)
(* without one.                                                            *)
(***************************************************************************)
CancelledRunsEnd ==
  (cancellationRequested /\ phase \in {"running", "pausing"}) ~> phase = "idle"
=============================================================================
