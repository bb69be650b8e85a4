------------------------------ MODULE ChangeRate ------------------------------
(***************************************************************************)
(* The limit on how often an app may change its history (History.java,     *)
(* countChange): so many changes in so many milliseconds, kept by the      *)
(* times of the changes that still count.  The clock is the one the screen *)
(* hands in, System.nanoTime in milliseconds, which never goes back.       *)
(***************************************************************************)
EXTENDS Integers, Sequences

CONSTANTS
  MostChanges,  \* MOST_CHANGES_PER_WINDOW
  Window,       \* CHANGE_WINDOW_MILLISECONDS, in ticks of the clock
  MaxTime       \* bound: how far the clock runs

ASSUME RateAssumption ==
  /\ MostChanges \in Nat \ {0}
  /\ Window \in Nat \ {0}
  /\ MaxTime \in Nat

VARIABLES
  now,        \* millisecondsNow
  changedAt,  \* the times of the changes that still count, oldest first
  made        \* auxiliary: the time of every change ever let through

rateVars == <<now, changedAt, made>>

\* (mutant) A change stops counting a tick early.
StillCountsOneTickLess(t) == now - t < Window - 1

StillCounts(t) == now - t < Window

\* How many of the oldest changes the loop drops: up to the first that counts.
Dropped ==
  CHOOSE k \in 0 .. Len(changedAt) :
    /\ \A i \in 1 .. k : ~StillCounts(changedAt[i])
    /\ k < Len(changedAt) => StillCounts(changedAt[k + 1])

Counted == SubSeq(changedAt, Dropped + 1, Len(changedAt))

\* (mutant) The changes that no longer count are counted.
RateReachedByAll == Len(changedAt) >= MostChanges

RateReached == Len(Counted) >= MostChanges

CountChange ==
  /\ ~RateReached
  /\ changedAt' = Append(Counted, now)
  /\ made' = Append(made, now)
  /\ UNCHANGED now

RefuseChange ==
  /\ RateReached
  /\ changedAt' = Counted
  /\ UNCHANGED <<now, made>>

Tick ==
  /\ now < MaxTime
  /\ now' = now + 1
  /\ UNCHANGED <<changedAt, made>>

RateInit == now = 0 /\ changedAt = <<>> /\ made = <<>>

RateNext == CountChange \/ RefuseChange \/ Tick

RateSpec == RateInit /\ [][RateNext]_rateVars

-----------------------------------------------------------------------------
\* Types and ranges of the variables.
RateTypeOK ==
  /\ now \in 0 .. MaxTime
  /\ changedAt \in Seq(0 .. MaxTime)
  /\ made \in Seq(0 .. MaxTime)

(***************************************************************************)
(* However the changes fall, no window of the given length ever holds more *)
(* than the given number of them (nav.allium, AChangePastTheRateIsRefused).*)
(***************************************************************************)
NeverPastTheRate ==
  \A i \in 1 .. Len(made) - MostChanges : made[i + MostChanges] - made[i] >= Window

(***************************************************************************)
(* Nothing is refused without cause: a change the limit turns away would   *)
(* have been one too many in the window that ends with it.                 *)
(***************************************************************************)
RefusedOnlyWhenFull ==
  RateReached =>
    /\ Len(made) >= MostChanges
    /\ now - made[Len(made) - MostChanges + 1] < Window
=============================================================================
