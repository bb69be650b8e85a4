------------------------ MODULE InterpreterRunsProofs --------------------------
(***************************************************************************)
(* What holds of the runs of an interpreter for every time limit and every *)
(* number of steps between two checks.                                     *)
(***************************************************************************)
EXTENDS InterpreterRuns, TLAPS

Evaluating == phase \in {"running", "pausing"}

\* Steps taken while due are among those counted since the last check.
DueStepsAreCounted ==
  /\ Evaluating => stepsDue <= steps
  /\ phase = "called" => stepsDue = 0

\* A cancel a running script can see came since its run was called.
ACancelSeenIsItsOwn ==
  /\ Evaluating /\ cancellationRequested => asked
  /\ phase = "called" => conclusion = "none"

IInv ==
  /\ TypeOK
  /\ NoDeadlineBetweenRuns
  /\ DueStepsAreCounted
  /\ ACancelSeenIsItsOwn
  /\ ACancelStopsOnlyItsOwnRun

(***************************************************************************)
(* A look that finds a reason concludes by that reason; one that finds     *)
(* none goes on (Evaluator.stopIfAsked, WaitNative).                       *)
(***************************************************************************)
LEMMA ALookStopsOrGoesOn ==
  ASSUME NEW to, StopOr(to)
  PROVE  \/ /\ Due /\ Conclude(ReasonToStop)
            /\ ReasonToStop \in {"timed-out", "cancelled"}
            /\ ReasonToStop = "cancelled" => cancellationRequested
         \/ ~Due /\ GoOn(to)
BY DEF StopOr, Due, ReasonToStop

(***************************************************************************)
(* The state of a run stays sound however it is concluded: what a script   *)
(* may come to is a legal conclusion, and "cancelled" needs a cancel.      *)
(***************************************************************************)
LEMMA ConcludingKeepsIInv ==
  ASSUME IInv, Evaluating, NEW as, Conclude(as),
         as \in {"produced-a-value", "raised", "quit-early", "halted",
                 "timed-out", "cancelled"},
         as = "cancelled" => cancellationRequested,
         steps' \in 0 .. CheckEvery - 1, stepsDue' \in Nat
  PROVE  IInv'
<1>1. TypeOK'
  BY DEF IInv, TypeOK, Conclude
<1>2. NoDeadlineBetweenRuns'
  BY DEF Conclude, NoDeadlineBetweenRuns
<1>3. DueStepsAreCounted' /\ ACancelSeenIsItsOwn'
  BY DEF Conclude, DueStepsAreCounted, ACancelSeenIsItsOwn, Evaluating
<1>4. ACancelStopsOnlyItsOwnRun'
  BY DEF IInv, ACancelSeenIsItsOwn, ACancelStopsOnlyItsOwnRun, Conclude
<1> QED
  BY <1>1, <1>2, <1>3, <1>4 DEF IInv

(***************************************************************************)
(* Nor is it disturbed by a script that goes on, as long as the steps it   *)
(* takes while there is a reason to stop are counted.                      *)
(***************************************************************************)
LEMMA GoingOnKeepsIInv ==
  ASSUME IInv, Evaluating, NEW to \in {"running", "pausing"}, GoOn(to),
         steps' \in 0 .. CheckEvery - 1, stepsDue' \in Nat, stepsDue' <= steps'
  PROVE  IInv'
<1>1. TypeOK'
  BY DEF IInv, TypeOK, GoOn
<1>2. NoDeadlineBetweenRuns'
  BY DEF GoOn, NoDeadlineBetweenRuns
<1>3. DueStepsAreCounted'
  BY DEF GoOn, DueStepsAreCounted, Evaluating
<1>4. ACancelSeenIsItsOwn' /\ ACancelStopsOnlyItsOwnRun'
  BY DEF IInv, GoOn, ACancelSeenIsItsOwn, ACancelStopsOnlyItsOwnRun, Evaluating
<1> QED
  BY <1>1, <1>2, <1>3, <1>4 DEF IInv

\* The run begins sound: nothing is running and nothing has a deadline.
LEMMA InitIsSound == Init => IInv
<1> SUFFICES ASSUME Init PROVE IInv
  OBVIOUS
<1>1. TypeOK
  <2>1. steps \in 0 .. CheckEvery - 1 /\ stepsDue \in Nat
    BY RunsAssumption DEF RunsAssumption, Init
  <2>2. left \in Nat \cup {Never}
    BY DEF Init
  <2> QED
    BY <2>1, <2>2 DEF Init, TypeOK
<1>2. NoDeadlineBetweenRuns /\ DueStepsAreCounted
  BY DEF Init, NoDeadlineBetweenRuns, DueStepsAreCounted, Evaluating
<1>3. ACancelSeenIsItsOwn /\ ACancelStopsOnlyItsOwnRun
  BY DEF Init, ACancelSeenIsItsOwn, ACancelStopsOnlyItsOwnRun, Evaluating
<1> QED
  BY <1>1, <1>2, <1>3 DEF IInv

\* Every step of host, clock and script keeps the invariant.
LEMMA NextIsSound == IInv /\ [Next]_vars => IInv'
<1> SUFFICES ASSUME IInv, [Next]_vars PROVE IInv'
  OBVIOUS
<1> USE RunsAssumption DEF RunsAssumption
<1>1. CASE Call
  BY <1>1 DEF Call, IInv, TypeOK, NoDeadlineBetweenRuns, DueStepsAreCounted,
              ACancelSeenIsItsOwn, ACancelStopsOnlyItsOwnRun, Evaluating
<1>2. CASE Begin
  <2>1. TypeOK'
    BY <1>2 DEF Begin, IInv, TypeOK
  <2>2. NoDeadlineBetweenRuns' /\ DueStepsAreCounted'
    BY <1>2 DEF Begin, IInv, TypeOK, NoDeadlineBetweenRuns, DueStepsAreCounted, Evaluating
  <2>3. ACancelSeenIsItsOwn' /\ ACancelStopsOnlyItsOwnRun'
    BY <1>2 DEF Begin, IInv, ACancelSeenIsItsOwn, ACancelStopsOnlyItsOwnRun, Evaluating
  <2> QED
    BY <2>1, <2>2, <2>3 DEF IInv
<1>3. CASE Cancel
  BY <1>3 DEF Cancel, IInv, TypeOK, NoDeadlineBetweenRuns, DueStepsAreCounted,
              ACancelSeenIsItsOwn, ACancelStopsOnlyItsOwnRun, Evaluating
<1>4. CASE Tick
  BY <1>4 DEF Tick, IInv, TypeOK, NoDeadlineBetweenRuns, DueStepsAreCounted,
              ACancelSeenIsItsOwn, ACancelStopsOnlyItsOwnRun, Evaluating
<1>5. CASE Step
  <2>1. Evaluating /\ steps \in 0 .. CheckEvery - 1 /\ stepsDue \in Nat /\ stepsDue <= steps
    BY <1>5 DEF Step, Evaluating, IInv, TypeOK, DueStepsAreCounted
  <2>2. stepsDue' = IF Due THEN stepsDue + 1 ELSE 0
    BY <1>5 DEF Step
  <2>3. CASE CheckedStep
    <3>1. steps' = 0 /\ StopOr("running") /\ steps' \in 0 .. CheckEvery - 1 /\ stepsDue' \in Nat
      BY <2>1, <2>2, <2>3 DEF CheckedStep
    <3>2. CASE Due
      BY <2>1, <3>1, <3>2, ALookStopsOrGoesOn, ConcludingKeepsIInv
    <3>3. CASE ~Due
      <4>1. GoOn("running") /\ stepsDue' <= steps'
        BY <2>2, <3>1, <3>3, ALookStopsOrGoesOn
      <4> QED
        BY <2>1, <3>1, <4>1, GoingOnKeepsIInv
    <3> QED
      BY <3>2, <3>3
  <2>4. CASE UncheckedStep
    <3>1. /\ GoOn("running") /\ steps' \in 0 .. CheckEvery - 1
          /\ stepsDue' \in Nat /\ stepsDue' <= steps'
      BY <2>1, <2>2, <2>4 DEF UncheckedStep
    <3> QED
      BY <2>1, <3>1, GoingOnKeepsIInv
  <2> QED
    BY <1>5, <2>3, <2>4 DEF Step
<1>6. CASE Pause \/ Wake \/ WakeInterrupted
  <2>1. /\ Evaluating /\ steps' \in 0 .. CheckEvery - 1
        /\ stepsDue' \in Nat /\ stepsDue' <= steps'
    BY <1>6 DEF Pause, Wake, WakeInterrupted, Evaluating, IInv, TypeOK, DueStepsAreCounted
  <2>2. \/ StopOr("pausing") \/ StopOr("running") \/ GoOn("running")
    BY <1>6 DEF Pause, Wake, WakeInterrupted, WaitLooks
  <2> QED
    BY <2>1, <2>2, ALookStopsOrGoesOn, ConcludingKeepsIInv, GoingOnKeepsIInv
<1>7. CASE Settle
  <2>1. Evaluating /\ steps' \in 0 .. CheckEvery - 1 /\ stepsDue' \in Nat
    BY <1>7 DEF Settle, Evaluating, IInv, TypeOK
  <2> QED
    BY <1>7, <2>1, ConcludingKeepsIInv DEF Settle
<1>8. CASE UNCHANGED vars
  BY <1>8 DEF vars, IInv, TypeOK, NoDeadlineBetweenRuns, DueStepsAreCounted,
              ACancelSeenIsItsOwn, ACancelStopsOnlyItsOwnRun, Evaluating
<1> QED
  BY <1>1, <1>2, <1>3, <1>4, <1>5, <1>6, <1>7, <1>8 DEF Next, Evaluates

\* The inductive invariant holds throughout.
LEMMA AlwaysSound == Spec => []IInv
BY InitIsSound, NextIsSound, PTL DEF Spec

(***************************************************************************)
(* Runs are well typed: above all the count of steps never reaches the     *)
(* number at which it should have been looked at.                          *)
(***************************************************************************)
THEOREM RunsAreWellTyped == Spec => []TypeOK
<1>1. IInv => TypeOK
  BY DEF IInv
<1> QED
  BY <1>1, AlwaysSound, PTL

(***************************************************************************)
(* For every CheckEvery, a run that is overdue or cancelled takes fewer    *)
(* than CheckEvery steps more (Evaluator.stopIfAsked).                     *)
(***************************************************************************)
THEOREM RunsStopWithinACheck == Spec => []StopsWithinACheck
<1>1. IInv => StopsWithinACheck
  BY RunsAssumption DEF RunsAssumption, IInv, TypeOK, DueStepsAreCounted, Evaluating, StopsWithinACheck
<1> QED
  BY <1>1, AlwaysSound, PTL

(***************************************************************************)
(* No run is stopped by a cancel that came before the host called it       *)
(* (Interpreter.concludeWithinBounds clears the request).                  *)
(***************************************************************************)
THEOREM RunsAreStoppedByTheirOwnCancel == Spec => []ACancelStopsOnlyItsOwnRun
<1>1. IInv => ACancelStopsOnlyItsOwnRun
  BY DEF IInv
<1> QED
  BY <1>1, AlwaysSound, PTL

(***************************************************************************)
(* A deadline is put away with its run, whatever the run came to           *)
(* (the finally of Interpreter.concludeWithinBounds).                      *)
(***************************************************************************)
THEOREM NoDeadlineOutlivesItsRun == Spec => []NoDeadlineBetweenRuns
<1>1. IInv => NoDeadlineBetweenRuns
  BY DEF IInv
<1> QED
  BY <1>1, AlwaysSound, PTL
=============================================================================
