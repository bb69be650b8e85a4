------------------------------ MODULE CallFrames ------------------------------
(***************************************************************************)
(* The evaluator's record of what is running (Evaluator.java): the stack   *)
(* of walks and the frames of each, the record of open function calls, and *)
(* the call frame a running function is lent so that the words of its body *)
(* read the innermost call.                                                *)
(*                                                                         *)
(* One evaluator runs on one thread, so a step here is one thing the walk  *)
(* loop does.  What the code of a script is, and so which step comes next, *)
(* is left open: any value may be a call, a paren, a native that walks a   *)
(* block of its own, a RETURN or a failure.                                *)
(***************************************************************************)
EXTENDS Integers, Sequences, FiniteSets

CONSTANTS
  Functions,     \* the functions a script has made
  Closures,      \* those of them made by CLOSURE
  Frames,        \* the contexts calls use for their arguments and locals
  NoFrame,       \* Java's null where a context is expected
  MaximumDepth,  \* how many frames one walk may stack
  MaxEntries,    \* bound: how many frames all walks together stack
  HostSteps      \* whether the host also runs a source one value at a time

ASSUME FramesAssumption ==
  /\ Closures \subseteq Functions
  /\ Functions \cap Frames = {}
  /\ NoFrame \notin Functions \cup Frames
  /\ MaximumDepth \in Nat \ {0}
  /\ MaxEntries \in Nat
  /\ HostSteps \in BOOLEAN

VARIABLES
  stack,         \* the frames of every walk in progress, outermost first
  calls,         \* functionsBeingRun, outermost first
  supersededBy,  \* the link of each context to the frame it gives way to
  signal,        \* what is unwinding the Java stack, if anything is
  outcome        \* what the host's last run came to

vars == <<stack, calls, supersededBy, signal, outcome>>

(***************************************************************************)
(* A function's declared words are a context of their own, which the words *)
(* of its body are bound to; it stands here under the function's name.     *)
(***************************************************************************)
Contexts == Functions \cup Frames

Plain == Functions \ Closures

Roots == {"walk", "next", "applied"}

\* RETURN and EXIT throw a ReturnSignal; THROW, BREAK and CONTINUE throw
\* signals of their own; a failure, a frame too deep included, is a Raised.
Thrown == {"return", "throw", "raise"}

Signals == {"none"} \cup Thrown

Outcomes == {"none", "completed", "raised", "escaped"}

(***************************************************************************)
(* A frame of a walk.  A root frame starts a walk: "walk" evaluates a      *)
(* block, "next" one value of it, "applied" the body of a function called  *)
(* from Java.  Over it come the frames of parens and of function bodies.   *)
(* base is how many calls were open when the walk began.  doing says where *)
(* the walk loop is: in a step inside its try, in a delivery outside it,   *)
(* at a frame a RETURN stopped, or leaving the walk.                       *)
(***************************************************************************)
Entry == [kind: Roots \cup {"paren", "body"},
          locals: Frames \cup {NoFrame},
          base: Nat,
          doing: {"step", "deliver", "stopped", "leaving"}]

OpenCall == [fn: Functions, locals: Frames]

\* (mutant) A walk counts one call too few.
FrameCountingOneTooFew(kind, locals, base) ==
  [kind |-> kind, locals |-> locals, base |-> base - 1, doing |-> "step"]

Frame(kind, locals, base) ==
  [kind |-> kind, locals |-> locals, base |-> base, doing |-> "step"]

Top == stack[Len(stack)]

Cut(n) == SubSeq(stack, 1, n)

\* r is the root frame of the innermost walk.
InnermostRoot(r) ==
  /\ r \in DOMAIN stack
  /\ stack[r].kind \in Roots
  /\ \A i \in DOMAIN stack : i > r => stack[i].kind \notin Roots

\* The stack with its innermost frame at another place of the walk loop.
TopDoing(s, what) == [s EXCEPT ![Len(s)].doing = what]

\* A frame nobody uses, as a new Java object is.
Fresh(c) ==
  /\ \A i \in DOMAIN calls : calls[i].locals # c
  /\ \A i \in DOMAIN stack : stack[i].locals # c

\* (mutant) The outermost call of f instead of the innermost.
TakesOverFromOutermost(cs, f, h) ==
  \/ h = f /\ \A i \in DOMAIN cs : cs[i].fn # f
  \/ \E i \in DOMAIN cs :
       /\ cs[i] = [fn |-> f, locals |-> h]
       /\ \A j \in DOMAIN cs : j < i => cs[j].fn # f

\* h is the context a call of f takes over from when cs are the calls open.
TakesOverFrom(cs, f, h) ==
  \/ /\ h = f
     /\ \A i \in DOMAIN cs : cs[i].fn # f
  \/ \E i \in DOMAIN cs :
       /\ cs[i] = [fn |-> f, locals |-> h]
       /\ \A j \in DOMAIN cs : j > i => cs[j].fn # f

(***************************************************************************)
(* Opening a call records it and lends its frame; a closure's frame is its *)
(* own and is lent to nobody.                                              *)
(***************************************************************************)
LendFrame(f, c) ==
  IF f \in Closures THEN UNCHANGED supersededBy
  ELSE \E h \in Contexts :
         /\ TakesOverFrom(calls, f, h)
         /\ supersededBy' = [supersededBy EXCEPT ![h] = c]

RecordCall(f, c) == calls' = Append(calls, [fn |-> f, locals |-> c])

\* (mutant) The frame below is not told that it reads itself again.
HandBackOwnFrameOnly(ending, left) ==
  IF ending.fn \in Closures THEN UNCHANGED supersededBy
  ELSE supersededBy' = [supersededBy EXCEPT ![ending.locals] = NoFrame]

HandBackFrame(ending, left) ==
  IF ending.fn \in Closures THEN UNCHANGED supersededBy
  ELSE \E h \in Contexts :
         /\ TakesOverFrom(left, ending.fn, h)
         /\ supersededBy' = [supersededBy EXCEPT ![ending.locals] = NoFrame,
                                                 ![h] = NoFrame]

EndInnermostCall ==
  /\ calls # <<>>
  /\ calls' = SubSeq(calls, 1, Len(calls) - 1)
  /\ HandBackFrame(calls[Len(calls)], calls')

-----------------------------------------------------------------------------

Init ==
  /\ stack = <<>>
  /\ calls = <<>>
  /\ supersededBy = [x \in Contexts |-> NoFrame]
  /\ signal = "none"
  /\ outcome = "none"

\* Java code may ask for a walk at rest, and a native may during a step.
MayStart ==
  /\ signal = "none"
  /\ Len(stack) < MaxEntries
  /\ stack # <<>> => Top.doing \in {"step", "deliver"}

\* The walk loop may take a step of the script.
Stepping ==
  /\ signal = "none"
  /\ stack # <<>>
  /\ Top.doing \in {"step", "deliver"}

StartWalk(kind) ==
  /\ MayStart
  /\ kind = "next" /\ stack = <<>> => HostSteps
  /\ stack' = Append(stack, Frame(kind, NoFrame, Len(calls)))
  /\ outcome' = "none"
  /\ UNCHANGED <<calls, supersededBy, signal>>

ApplyFunction(f, c) ==
  /\ MayStart
  /\ Fresh(c)
  /\ LendFrame(f, c)
  /\ RecordCall(f, c)
  /\ stack' = Append(stack, Frame("applied", c, Len(calls) + 1))
  /\ outcome' = "none"
  /\ UNCHANGED signal

\* A frame goes on the innermost walk, unless it is as deep as it may be.
MayPush ==
  /\ Stepping
  /\ Len(stack) < MaxEntries
  /\ \E r \in DOMAIN stack : InnermostRoot(r) /\ Len(stack) - r + 1 < MaximumDepth

CallFunction(f, c) ==
  /\ MayPush
  /\ Fresh(c)
  /\ LendFrame(f, c)
  /\ RecordCall(f, c)
  /\ stack' = Append(TopDoing(stack, "step"), Frame("body", c, 0))
  /\ UNCHANGED <<signal, outcome>>

EnterParen ==
  /\ MayPush
  /\ stack' = Append(TopDoing(stack, "step"), Frame("paren", NoFrame, 0))
  /\ UNCHANGED <<calls, supersededBy, signal, outcome>>

\* An argument taken as written is delivered outside the loop's try.
DeliverAsWritten ==
  /\ Stepping
  /\ Top.doing = "step"
  /\ stack' = TopDoing(stack, "deliver")
  /\ UNCHANGED <<calls, supersededBy, signal, outcome>>

\* A delivery that started nothing goes back to the loop.
FinishDelivery ==
  /\ Stepping
  /\ Top.doing = "deliver"
  /\ stack' = TopDoing(stack, "step")
  /\ UNCHANGED <<calls, supersededBy, signal, outcome>>

\* (mutant) Any frame that ends takes a call off the record.
EndFrameWithoutLooking ==
  /\ signal = "none"
  /\ stack # <<>>
  /\ Top.kind \notin Roots
  /\ Top.doing \in {"step", "stopped"}
  /\ IF calls # <<>> THEN EndInnermostCall ELSE UNCHANGED <<calls, supersededBy>>
  /\ stack' = TopDoing(Cut(Len(stack) - 1), "deliver")
  /\ UNCHANGED <<signal, outcome>>

\* A frame that is not a root ends and its value is delivered to the next.
EndFrame ==
  /\ signal = "none"
  /\ stack # <<>>
  /\ Top.kind \notin Roots
  /\ Top.doing \in {"step", "stopped"}
  /\ IF Top.kind = "body" /\ calls # <<>>
     THEN EndInnermostCall
     ELSE UNCHANGED <<calls, supersededBy>>
  /\ stack' = TopDoing(Cut(Len(stack) - 1), "deliver")
  /\ UNCHANGED <<signal, outcome>>

\* The root frame ends, and with it the walk.
EndWalk ==
  /\ signal = "none"
  /\ stack # <<>>
  /\ Top.kind \in Roots
  /\ Top.doing = "step"
  /\ stack' = TopDoing(stack, "leaving")
  /\ UNCHANGED <<calls, supersededBy, signal, outcome>>

Throw(s) ==
  /\ Stepping
  /\ signal' = s
  /\ UNCHANGED <<stack, calls, supersededBy, outcome>>

\* A ReturnSignal out of a step is caught by the loop, which drops the frames
\* above the innermost function body of this walk and stops that one.
Unwindable(b) ==
  /\ signal = "return"
  /\ Top.doing = "step"
  /\ b \in DOMAIN stack
  /\ stack[b].kind = "body"
  /\ \A i \in DOMAIN stack : i > b => stack[i].kind = "paren"

UnwindToFunction ==
  /\ stack # <<>>
  /\ \E b \in DOMAIN stack :
       /\ Unwindable(b)
       /\ stack' = TopDoing(Cut(b), "stopped")
  /\ signal' = "none"
  /\ UNCHANGED <<calls, supersededBy, outcome>>

\* (mutant) The walk is cut back but never left.
AbandonFramesOnly ==
  /\ signal # "none"
  /\ stack # <<>>
  /\ Top.doing # "leaving"
  /\ ~ \E b \in DOMAIN stack : Unwindable(b)
  /\ \E r \in DOMAIN stack : InnermostRoot(r) /\ stack' = Cut(r)
  /\ UNCHANGED <<calls, supersededBy, signal, outcome>>

\* Everything else that is thrown leaves the walk.
AbandonWalk ==
  /\ signal # "none"
  /\ stack # <<>>
  /\ Top.doing # "leaving"
  /\ ~ \E b \in DOMAIN stack : Unwindable(b)
  /\ \E r \in DOMAIN stack : InnermostRoot(r) /\ stack' = TopDoing(Cut(r), "leaving")
  /\ UNCHANGED <<calls, supersededBy, signal, outcome>>

\* (mutants) One call too many is ended; only applied functions clean up.
HandsBackOneMore == Top.kind # "next" /\ Len(calls) >= Top.base /\ calls # <<>>

HandsBackIfApplied == Top.kind = "applied" /\ Len(calls) > Top.base

\* The finally of an ordinary walk ends the calls opened during it.
HandsBack == Top.kind # "next" /\ Len(calls) > Top.base

HandBackLeftOver ==
  /\ stack # <<>>
  /\ Top.doing = "leaving"
  /\ HandsBack
  /\ EndInnermostCall
  /\ UNCHANGED <<stack, signal, outcome>>

\* What is left of the signal: nothing goes further than the host, applying a
\* function catches a RETURN, and whether a native that walks a block catches
\* anything is its own affair.  Those that take one value at a time do not.
Remaining ==
  IF Len(stack) = 1 \/ (Top.kind = "applied" /\ signal = "return") THEN {"none"}
  ELSE IF Top.kind = "walk" THEN {signal, "none"}
  ELSE {signal}

\* (mutant) A run of a whole source catches no more than a run of one value.
ConcludedUnsignalled(kind) ==
  CASE signal = "none" -> "completed"
    [] signal = "raise" -> "raised"
    [] OTHER -> "escaped"

\* What the host is told.  A run of a whole source and a function the host
\* applies turn every signal into an error (runUnsignalled); a run of one
\* value (Interpreter.runNext) catches only a Raised.
Concluded(kind) ==
  CASE signal = "none" -> "completed"
    [] signal = "return" /\ kind = "applied" -> "completed"
    [] signal = "raise" -> "raised"
    [] OTHER -> IF kind = "next" THEN "escaped" ELSE "raised"

\* Control goes back to the Java code that started the walk.
FinishWalk ==
  /\ stack # <<>>
  /\ Top.doing = "leaving"
  /\ ~HandsBack
  /\ IF Top.kind = "applied"
     THEN EndInnermostCall
     ELSE UNCHANGED <<calls, supersededBy>>
  /\ signal' \in Remaining
  /\ outcome' = IF Len(stack) = 1 THEN Concluded(Top.kind) ELSE outcome
  /\ stack' = Cut(Len(stack) - 1)

Unwinding ==
  UnwindToFunction \/ AbandonWalk \/ HandBackLeftOver \/ FinishWalk

Next ==
  \/ \E kind \in {"walk", "next"} : StartWalk(kind)
  \/ \E f \in Functions, c \in Frames : ApplyFunction(f, c)
  \/ \E f \in Functions, c \in Frames : CallFunction(f, c)
  \/ EnterParen
  \/ DeliverAsWritten
  \/ FinishDelivery
  \/ EndFrame
  \/ EndWalk
  \/ \E s \in Thrown : Throw(s)
  \/ Unwinding

\* The Java stack unwinds whatever the script says, so only that is fair.
Spec == Init /\ [][Next]_vars /\ WF_vars(Unwinding)

-----------------------------------------------------------------------------
\* Types and ranges of the variables.
TypeOK ==
  /\ stack \in Seq(Entry)
  /\ calls \in Seq(OpenCall)
  /\ supersededBy \in [Contexts -> Frames \cup {NoFrame}]
  /\ signal \in Signals
  /\ outcome \in Outcomes

\* No frame is the frame of two open calls.
NotShared(cs) ==
  \A i, j \in DOMAIN cs : cs[i].locals = cs[j].locals => i = j

\* Call j of cs takes its function over from context x.
TakesOver(cs, j, x) ==
  /\ cs[j].fn \in Plain
  /\ TakesOverFrom(SubSeq(cs, 1, j - 1), cs[j].fn, x)

\* The links are those the calls cs call for.
LinksMatch(links, cs) ==
  \A x \in Contexts, c \in Frames :
    links[x] = c <=> \E j \in DOMAIN cs : cs[j].locals = c /\ TakesOver(cs, j, x)

(***************************************************************************)
(* A context gives way to exactly the frame of the call that took over     *)
(* from it: the declared words of a function to its outermost open call,   *)
(* a call's frame to the next call of the same function, and every other   *)
(* context, a closure's frame and an ended call's among them, to nothing   *)
(* (lendFrameToFunction and handBackFrameTakenOverBy).                     *)
(***************************************************************************)
LinksFollowTheCalls == NotShared(calls) /\ LinksMatch(supersededBy, calls)

\* Where on the stack the frames of function calls are that really run.
RunningIn(s) == {i \in DOMAIN s : s[i].locals # NoFrame}

(***************************************************************************)
(* Every call that is running is on the record, in order: whatever a       *)
(* RETURN or a failure unwound, the record may name a call that has ended  *)
(* but never misses one that has not, so a backtrace is not cut short and  *)
(* no running function loses its words (functionsBeingRun).                *)
(***************************************************************************)
RunningCallsAreRecorded ==
  \E at \in [RunningIn(stack) -> DOMAIN calls] :
    /\ \A i \in RunningIn(stack) : calls[at[i]].locals = stack[i].locals
    /\ \A i, j \in RunningIn(stack) : i < j => at[i] < at[j]

(***************************************************************************)
(* A walk never ends a call that was open before it began, and so a        *)
(* function evaluated by a native cannot take the native's caller off the  *)
(* record (walk's callsOpenBeforeWalk).                                    *)
(***************************************************************************)
EnclosingCallsSurviveAWalk ==
  [][\A i \in DOMAIN stack \cap DOMAIN stack' :
       stack[i].kind \in Roots /\ stack[i].doing # "leaving" =>
         /\ Len(calls') >= stack[i].base
         /\ SubSeq(calls', 1, stack[i].base) = SubSeq(calls, 1, stack[i].base)]_vars

(***************************************************************************)
(* At rest nothing is open: however a run of whole sources ended, no call  *)
(* stays recorded and no function is left lent a frame.                    *)
(***************************************************************************)
NothingOpenAtRest ==
  stack = <<>> => calls = <<>> /\ \A x \in Contexts : supersededBy[x] = NoFrame

(***************************************************************************)
(* Nothing a script does reaches the host as a Java exception: whatever    *)
(* was thrown, the run comes to an outcome.                                *)
(***************************************************************************)
NothingEscapesAsAHostException == outcome # "escaped"

(***************************************************************************)
(* RETURN leaves the nearest function and no further: while the signal is  *)
(* travelling no frame of a function body is dropped.                      *)
(***************************************************************************)
ReturnLeavesTheNearestFunctionOnly ==
  [][signal = "return" /\ signal' = "return" =>
       RunningIn(stack') = RunningIn(stack)]_vars

\* What was thrown is caught or comes to the host: unwinding ends.
EverySignalLands == signal # "none" ~> signal = "none"

\* The contexts the links lead to from x, the last of them again and again.
Following(x) ==
  LET follow[n \in Nat] ==
        IF n = 0 THEN x
        ELSE IF supersededBy[follow[n - 1]] = NoFrame THEN follow[n - 1]
        ELSE supersededBy[follow[n - 1]]
  IN  follow

\* The frame a word of f reads through: the end of the links, which are no
\* more than the open calls.
ReadsThrough(f) ==
  LET resolving == Following(f)[Len(calls)]
  IN  IF resolving = f THEN NoFrame ELSE resolving

\* The chain of links is a correct implementation of innermost-call scoping.
Scopes == INSTANCE CallScopes
            WITH open <- calls, reads <- [f \in Plain |-> ReadsThrough(f)]

ScopesSpec == Scopes!Spec
=============================================================================
