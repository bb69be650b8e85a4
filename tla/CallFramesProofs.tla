--------------------------- MODULE CallFramesProofs ---------------------------
(***************************************************************************)
(* Proofs about CallFrames, for every set of functions and frames and      *)
(* every bound.                                                            *)
(***************************************************************************)
EXTENDS CallFrames, SequenceTheorems, WellFoundedInduction, TLAPS

(***************************************************************************)
(* A function is taken over from one context at a time                     *)
(* (findFrameThisCallTakesOverFrom answers the innermost call, or the      *)
(* declared words).                                                        *)
(***************************************************************************)
LEMMA TakenOverFromOne ==
  ASSUME NEW cs \in Seq(OpenCall), NEW f \in Functions, NEW g, NEW h,
         TakesOverFrom(cs, f, g), TakesOverFrom(cs, f, h)
  PROVE  g = h
<1>1. \A i \in DOMAIN cs : i \in Int
  BY LenProperties
<1> QED
  BY <1>1 DEF TakesOverFrom

(***************************************************************************)
(* Nobody has yet taken over from the context the next call of f will take *)
(* over from.                                                              *)
(***************************************************************************)
LEMMA InnermostIsFree ==
  ASSUME NEW cs \in Seq(OpenCall), NotShared(cs),
         NEW f \in Functions, NEW h \in Contexts, TakesOverFrom(cs, f, h),
         NEW j \in DOMAIN cs
  PROVE  ~TakesOver(cs, j, h)
<1> SUFFICES ASSUME TakesOver(cs, j, h)
             PROVE  FALSE
  OBVIOUS
<1> DEFINE before == SubSeq(cs, 1, j - 1)
<1>1. /\ j \in 1 .. Len(cs) /\ Len(cs) \in Nat
      /\ \A i \in DOMAIN cs : cs[i].fn \in Functions /\ cs[i].locals \in Frames
  <2>1. /\ Len(cs) \in Nat /\ DOMAIN cs = 1 .. Len(cs)
        /\ cs \in [1 .. Len(cs) -> OpenCall]
    BY LenProperties
  <2>2. \A i \in DOMAIN cs : cs[i] \in OpenCall
    BY <2>1
  <2> QED
    BY <2>1, <2>2 DEF OpenCall
<1>2. /\ DOMAIN before = 1 .. j - 1
      /\ \A i \in DOMAIN before : i \in DOMAIN cs /\ i < j /\ before[i] = cs[i]
  BY <1>1, SubSeqProperties, LenProperties
<1>3. PICK g \in Functions : g = cs[j].fn /\ TakesOverFrom(before, g, h)
  BY <1>1 DEF TakesOver
<1>4. CASE h = g
  <2>1. h \notin Frames
    BY <1>3, <1>4, FramesAssumption
  <2>2. h = f
    BY <2>1, <1>1 DEF TakesOverFrom
  <2> QED
    BY <2>1, <2>2, <1>3, <1>4, <1>1 DEF TakesOverFrom
<1>5. CASE h # g
  <2>1. PICK i \in DOMAIN before : cs[i] = [fn |-> g, locals |-> h]
    BY <1>2, <1>3, <1>5 DEF TakesOverFrom
  <2>2. h \in Frames /\ h # f
    BY <2>1, <1>1, <1>2, FramesAssumption
  <2>3. PICK k \in DOMAIN cs : /\ cs[k] = [fn |-> f, locals |-> h]
                               /\ \A l \in DOMAIN cs : l > k => cs[l].fn # f
    BY <2>2 DEF TakesOverFrom
  <2>4. i = k
    BY <2>1, <2>3, <1>2 DEF NotShared
  <2> QED
    BY <2>1, <2>3, <2>4, <1>1, <1>2, <1>3
<1> QED
  BY <1>4, <1>5

(***************************************************************************)
(* What earlier calls took over from does not change when a call is opened *)
(* after them.                                                             *)
(***************************************************************************)
LEMMA EarlierCallsKeepTheirs ==
  ASSUME NEW cs \in Seq(OpenCall), NEW more \in Seq(OpenCall),
         Len(cs) <= Len(more), \A i \in DOMAIN cs : more[i] = cs[i],
         NEW j \in DOMAIN cs, NEW x
  PROVE  TakesOver(more, j, x) <=> TakesOver(cs, j, x)
<1>1. j \in 1 .. Len(cs) /\ Len(cs) \in Nat /\ Len(more) \in Nat
  BY LenProperties
<1>2. SubSeq(more, 1, j - 1) = SubSeq(cs, 1, j - 1)
  BY <1>1, LenProperties
<1> QED
  BY <1>2 DEF TakesOver

(***************************************************************************)
(* Opening a call keeps the links in step with the calls                   *)
(* (lendFrameToFunction, then functionsBeingRun.push).                     *)
(***************************************************************************)
LEMMA LendingKeepsTheLinks ==
  ASSUME TypeOK, LinksFollowTheCalls,
         NEW f \in Functions, NEW c \in Frames,
         Fresh(c), LendFrame(f, c), RecordCall(f, c)
  PROVE  LinksFollowTheCalls'
<1> DEFINE n == Len(calls)
<1>1. /\ calls \in Seq(OpenCall) /\ n \in Nat /\ DOMAIN calls = 1 .. n
      /\ [fn |-> f, locals |-> c] \in OpenCall
  BY LenProperties DEF TypeOK, OpenCall
<1>2. /\ calls' \in Seq(OpenCall) /\ Len(calls') = n + 1 /\ DOMAIN calls' = 1 .. n + 1
      /\ \A i \in DOMAIN calls : calls'[i] = calls[i]
      /\ calls'[n + 1] = [fn |-> f, locals |-> c]
  BY <1>1, AppendProperties, LenProperties DEF RecordCall
<1>3. NotShared(calls')
  BY <1>1, <1>2 DEF NotShared, Fresh, LinksFollowTheCalls
<1>4. ASSUME NEW j \in DOMAIN calls, NEW x
      PROVE  TakesOver(calls', j, x) <=> TakesOver(calls, j, x)
  <2>1. Len(calls) <= Len(calls')
    BY <1>1, <1>2
  <2>2. j \in DOMAIN calls
    BY <1>4
  <2> HIDE DEF n
  <2> QED
    BY <1>1, <1>2, <2>1, <2>2, EarlierCallsKeepTheirs
<1>5. SubSeq(calls', 1, n) = calls
  BY <1>1, <1>2, LenProperties
<1>6. ASSUME NEW x
      PROVE  TakesOver(calls', n + 1, x) <=> f \in Plain /\ TakesOverFrom(calls, f, x)
  <2>1. (n + 1) - 1 = n /\ calls'[n + 1].fn = f
    BY <1>1, <1>2
  <2>2. SubSeq(calls', 1, (n + 1) - 1) = calls
    BY <2>1, <1>5
  <2> QED
    BY <2>1, <2>2 DEF TakesOver
<1>7. ASSUME NEW x \in Contexts, NEW d \in Frames
      PROVE  supersededBy'[x] = d <=>
               \E j \in DOMAIN calls' : calls'[j].locals = d /\ TakesOver(calls', j, x)
  <2>1. supersededBy[x] = d <=>
          \E j \in DOMAIN calls : calls[j].locals = d /\ TakesOver(calls, j, x)
    BY <1>7 DEF LinksFollowTheCalls, LinksMatch
  <2>2. CASE f \in Closures
    <3>1. f \notin Plain /\ supersededBy' = supersededBy
      BY <2>2 DEF Plain, LendFrame
    <3> QED
      BY <3>1, <2>1, <1>1, <1>2, <1>4, <1>6
  <2>3. CASE f \notin Closures
    <3>1. PICK h \in Contexts : /\ TakesOverFrom(calls, f, h)
                                /\ supersededBy' = [supersededBy EXCEPT ![h] = c]
      BY <2>3 DEF LendFrame
    <3>2. CASE x = h
      <4>1. \A j \in DOMAIN calls : ~TakesOver(calls, j, x)
        BY <3>1, <3>2, <1>1, InnermostIsFree DEF LinksFollowTheCalls
      <4>2. supersededBy'[x] = c
        BY <3>1, <3>2 DEF TypeOK
      <4>3. TakesOver(calls', n + 1, x)
        BY <3>1, <3>2, <2>3, <1>6 DEF Plain
      <4> QED
        BY <4>1, <4>2, <4>3, <1>1, <1>2, <1>4
    <3>3. CASE x # h
      <4>1. ~TakesOver(calls', n + 1, x)
        BY <3>1, <3>3, <1>1, <1>6, TakenOverFromOne
      <4>2. supersededBy'[x] = supersededBy[x]
        BY <3>1, <3>3 DEF TypeOK
      <4> QED
        BY <4>1, <4>2, <2>1, <1>1, <1>2, <1>4
    <3> QED
      BY <3>2, <3>3
  <2> QED
    BY <2>2, <2>3
<1> QED
  BY <1>3, <1>7 DEF LinksFollowTheCalls, LinksMatch

(***************************************************************************)
(* Ending the innermost call keeps the links in step with the calls        *)
(* (functionsBeingRun.pop, then handBackFrameTakenOverBy).                 *)
(***************************************************************************)
LEMMA HandingBackKeepsTheLinks ==
  ASSUME TypeOK, LinksFollowTheCalls, EndInnermostCall
  PROVE  LinksFollowTheCalls'
<1> DEFINE n == Len(calls)
<1> DEFINE e == calls[n]
<1>1. /\ calls \in Seq(OpenCall) /\ n \in Nat \ {0} /\ DOMAIN calls = 1 .. n
      /\ \A i \in DOMAIN calls : calls[i] \in OpenCall
  <2>1. calls \in Seq(OpenCall) /\ calls # <<>>
    BY DEF TypeOK, EndInnermostCall
  <2> QED
    BY <2>1, LenProperties, EmptySeq
<1>2. /\ e \in OpenCall /\ e.fn \in Functions /\ e.locals \in Frames
  BY <1>1 DEF OpenCall
<1>3. /\ calls' = SubSeq(calls, 1, n - 1) /\ calls' \in Seq(OpenCall)
      /\ Len(calls') = n - 1 /\ DOMAIN calls' = 1 .. n - 1
      /\ \A i \in DOMAIN calls' : calls'[i] = calls[i]
  <2>1. calls' = SubSeq(calls, 1, n - 1)
    BY DEF EndInnermostCall
  <2>2. \A i \in 1 .. n - 1 : calls[i] \in OpenCall
    BY <1>1
  <2> HIDE DEF n
  <2> QED
    BY <1>1, <2>1, <2>2, SubSeqProperties, LenProperties
<1>4. NotShared(calls')
  BY <1>1, <1>3 DEF NotShared, LinksFollowTheCalls
<1>5. ASSUME NEW j \in DOMAIN calls', NEW x
      PROVE  TakesOver(calls, j, x) <=> TakesOver(calls', j, x)
  <2>1. Len(calls') <= Len(calls) /\ \A i \in DOMAIN calls' : calls[i] = calls'[i]
    BY <1>1, <1>3
  <2> HIDE DEF n
  <2> QED
    BY <1>1, <1>3, <1>5, <2>1, EarlierCallsKeepTheirs
<1>6. ASSUME NEW x
      PROVE  TakesOver(calls, n, x) <=> e.fn \in Plain /\ TakesOverFrom(calls', e.fn, x)
  BY <1>3 DEF TakesOver
<1>7. \A j \in DOMAIN calls' : calls'[j].locals # e.locals
  <2>1. \A j \in DOMAIN calls' : j \in DOMAIN calls /\ j # n
    BY <1>1, <1>3
  <2>2. n \in DOMAIN calls
    BY <1>1
  <2> QED
    BY <1>3, <2>1, <2>2 DEF NotShared, LinksFollowTheCalls
<1>8. ASSUME NEW j \in DOMAIN calls'
      PROVE  ~TakesOver(calls', j, e.locals)
  <2>1. /\ j \in 1 .. n - 1
        /\ \A i \in 1 .. j - 1 : SubSeq(calls', 1, j - 1)[i] = calls'[i]
        /\ DOMAIN SubSeq(calls', 1, j - 1) = 1 .. j - 1
    BY <1>1, <1>3, SubSeqProperties, LenProperties
  <2>2. \A i \in DOMAIN SubSeq(calls', 1, j - 1) :
          SubSeq(calls', 1, j - 1)[i].locals # e.locals
    BY <1>1, <1>3, <1>7, <2>1
  <2>3. calls'[j].fn \in Functions
    BY <1>1, <1>3 DEF OpenCall
  <2>4. e.locals # calls'[j].fn
    BY <1>2, <2>3, FramesAssumption
  <2>5. ASSUME NEW before, NEW f, NEW h, h # f,
               \A i \in DOMAIN before : before[i].locals # h
        PROVE  ~TakesOverFrom(before, f, h)
    BY <2>5 DEF TakesOverFrom
  <2>6. ~TakesOverFrom(SubSeq(calls', 1, j - 1), calls'[j].fn, e.locals)
    BY <2>2, <2>4, <2>5
  <2> QED
    BY <2>6 DEF TakesOver
<1>9. ASSUME NEW x \in Contexts, NEW d \in Frames
      PROVE  supersededBy'[x] = d <=>
               \E j \in DOMAIN calls' : calls'[j].locals = d /\ TakesOver(calls', j, x)
  <2>1. supersededBy[x] = d <=>
          \E j \in DOMAIN calls : calls[j].locals = d /\ TakesOver(calls, j, x)
    BY <1>9 DEF LinksFollowTheCalls, LinksMatch
  <2>2. \A j : j \in DOMAIN calls <=> j \in DOMAIN calls' \/ j = n
    BY <1>1, <1>3
  <2>3. CASE e.fn \in Closures
    <3>1. e.fn \notin Plain /\ supersededBy' = supersededBy
      BY <2>3 DEF Plain, EndInnermostCall, HandBackFrame
    <3> QED
      BY <3>1, <2>1, <2>2, <1>3, <1>5, <1>6
  <2>4. CASE e.fn \notin Closures
    <3>1. PICK h \in Contexts :
            /\ TakesOverFrom(calls', e.fn, h)
            /\ supersededBy' = [supersededBy EXCEPT ![e.locals] = NoFrame, ![h] = NoFrame]
      BY <2>4 DEF EndInnermostCall, HandBackFrame
    <3>2. /\ x \in {e.locals, h} => supersededBy'[x] = NoFrame
          /\ x \notin {e.locals, h} => supersededBy'[x] = supersededBy[x]
      BY <3>1 DEF TypeOK
    <3>3. NoFrame # d
      BY FramesAssumption
    <3>4. CASE x = e.locals
      BY <3>2, <3>3, <3>4, <1>8
    <3>5. CASE x = h
      <4>1. \A j \in DOMAIN calls' : ~TakesOver(calls', j, x)
        BY <3>1, <3>5, <1>2, <1>3, <1>4, InnermostIsFree
      <4> QED
        BY <3>2, <3>3, <3>5, <4>1
    <3>6. CASE x \notin {e.locals, h}
      <4>1. ~TakesOver(calls, n, x)
        BY <3>1, <3>6, <1>2, <1>3, <1>6, TakenOverFromOne
      <4>2. supersededBy'[x] = supersededBy[x]
        BY <3>2, <3>6
      <4> QED
        BY <4>1, <4>2, <2>1, <2>2, <1>3, <1>5
    <3> QED
      BY <3>4, <3>5, <3>6
  <2> QED
    BY <2>3, <2>4
<1> QED
  BY <1>4, <1>9 DEF LinksFollowTheCalls, LinksMatch

(***************************************************************************)
(* Every variable keeps its type, whatever a script and its host do.       *)
(***************************************************************************)
THEOREM TypeCorrect == Spec => []TypeOK
<1>1. Init => TypeOK
  BY DEF Init, TypeOK, Signals, Outcomes
<1>2. TypeOK /\ [Next]_vars => TypeOK'
  <2> SUFFICES ASSUME TypeOK, [Next]_vars
               PROVE  TypeOK'
    OBVIOUS
  <2>1. /\ stack \in Seq(Entry) /\ Len(stack) \in Nat
        /\ calls \in Seq(OpenCall) /\ Len(calls) \in Nat
        /\ supersededBy \in [Contexts -> Frames \cup {NoFrame}]
        /\ signal \in Signals /\ outcome \in Outcomes
    BY LenProperties DEF TypeOK
  <2>2. ASSUME NEW s \in Seq(Entry), NEW what \in {"step", "deliver", "stopped", "leaving"}
        PROVE  TopDoing(s, what) \in Seq(Entry)
    <3>1. /\ s \in [1 .. Len(s) -> Entry] /\ Len(s) \in Nat
      BY <2>2, LenProperties
    <3>2. CASE Len(s) = 0
      <4>1. DOMAIN TopDoing(s, what) = DOMAIN s /\ DOMAIN s = {}
        BY <3>1, <3>2 DEF TopDoing
      <4>2. TopDoing(s, what) = [k \in DOMAIN s |-> TopDoing(s, what)[k]]
        BY <4>1 DEF TopDoing
      <4>3. TopDoing(s, what) \in [1 .. Len(s) -> Entry]
        BY <3>1, <3>2, <4>1, <4>2
      <4> QED
        BY <3>1, <4>3, SeqDef
    <3>3. CASE Len(s) # 0
      <4>1. s[Len(s)] \in Entry
        BY <3>1, <3>3
      <4>2. [s[Len(s)] EXCEPT !.doing = what] \in Entry
        BY <4>1 DEF Entry
      <4>3. TopDoing(s, what) \in [1 .. Len(s) -> Entry]
        BY <3>1, <4>2 DEF TopDoing
      <4> QED
        BY <3>1, <4>3, SeqDef
    <3> QED
      BY <3>2, <3>3
  <2>3. ASSUME NEW i \in 0 .. Len(stack)
        PROVE  Cut(i) \in Seq(Entry)
    <3>1. /\ stack \in [1 .. Len(stack) -> Entry]
          /\ \A k \in 1 .. i : stack[k] \in Entry
      BY <2>1, LenProperties
    <3> QED
      BY <2>1, <3>1, SubSeqProperties DEF Cut
  <2>4. \A kind \in Roots \cup {"paren", "body"}, locals \in Frames \cup {NoFrame}, base \in Nat :
          Frame(kind, locals, base) \in Entry
    BY DEF Frame, Entry
  <2>5. ASSUME NEW f \in Functions, NEW c \in Frames, LendFrame(f, c), RecordCall(f, c)
        PROVE  /\ calls' \in Seq(OpenCall)
               /\ supersededBy' \in [Contexts -> Frames \cup {NoFrame}]
    <3>1. [fn |-> f, locals |-> c] \in OpenCall
      BY DEF OpenCall
    <3>2. calls' \in Seq(OpenCall)
      BY <2>1, <2>5, <3>1, AppendProperties DEF RecordCall
    <3> QED
      BY <2>1, <2>5, <3>2 DEF LendFrame
  <2>6. ASSUME EndInnermostCall
        PROVE  /\ calls' \in Seq(OpenCall)
               /\ supersededBy' \in [Contexts -> Frames \cup {NoFrame}]
    <3>1. Len(calls) # 0
      BY <2>1, <2>6, EmptySeq DEF EndInnermostCall
    <3>2. \A k \in 1 .. Len(calls) - 1 : calls[k] \in OpenCall
      BY <2>1, LenProperties
    <3>3. calls' \in Seq(OpenCall)
      BY <2>1, <2>6, <3>1, <3>2, SubSeqProperties DEF EndInnermostCall
    <3> QED
      BY <2>1, <2>6, <3>3 DEF EndInnermostCall, HandBackFrame
  <2>7. stack # <<>> => Len(stack) - 1 \in 0 .. Len(stack) /\ Len(stack) \in DOMAIN stack
    BY <2>1, LenProperties, EmptySeq
  <2>8. ASSUME NEW kind \in {"walk", "next"}, StartWalk(kind)
        PROVE  TypeOK'
    BY <2>1, <2>4, <2>8, AppendProperties DEF StartWalk, TypeOK, Outcomes, Roots
  <2>9. ASSUME NEW f \in Functions, NEW c \in Frames, ApplyFunction(f, c)
        PROVE  TypeOK'
    <3>1. Frame("applied", c, Len(calls) + 1) \in Entry
      BY <2>1, <2>4 DEF Roots
    <3>2. stack' \in Seq(Entry)
      BY <2>1, <2>9, <3>1, AppendProperties DEF ApplyFunction
    <3> QED
      BY <2>1, <2>5, <2>9, <3>2 DEF ApplyFunction, TypeOK, Outcomes
  <2>10. ASSUME NEW f \in Functions, NEW c \in Frames, CallFunction(f, c)
         PROVE  TypeOK'
    <3>1. Frame("body", c, 0) \in Entry
      BY <2>4
    <3>2. TopDoing(stack, "step") \in Seq(Entry)
      BY <2>1, <2>2, <2>10 DEF CallFunction, MayPush, Stepping
    <3>3. stack' \in Seq(Entry)
      BY <2>10, <3>1, <3>2, AppendProperties DEF CallFunction
    <3> QED
      BY <2>1, <2>5, <2>10, <3>3 DEF CallFunction, TypeOK
  <2>11. CASE EnterParen
    <3>1. Frame("paren", NoFrame, 0) \in Entry
      BY <2>4
    <3>2. TopDoing(stack, "step") \in Seq(Entry)
      BY <2>1, <2>2, <2>11 DEF EnterParen, MayPush, Stepping
    <3>3. stack' \in Seq(Entry)
      BY <2>11, <3>1, <3>2, AppendProperties DEF EnterParen
    <3> QED
      BY <2>1, <2>11, <3>3 DEF EnterParen, TypeOK
  <2>12. CASE DeliverAsWritten
    BY <2>1, <2>2, <2>12 DEF DeliverAsWritten, Stepping, TypeOK
  <2>13. CASE FinishDelivery
    BY <2>1, <2>2, <2>13 DEF FinishDelivery, Stepping, TypeOK
  <2>14. CASE EndFrame
    <3>1. stack # <<>> /\ Len(stack) - 1 \in 0 .. Len(stack)
      BY <2>7, <2>14 DEF EndFrame
    <3>2. stack' \in Seq(Entry)
      BY <2>2, <2>3, <2>14, <3>1 DEF EndFrame
    <3> QED
      BY <2>1, <2>6, <2>14, <3>2 DEF EndFrame, TypeOK
  <2>15. CASE EndWalk
    BY <2>1, <2>2, <2>15 DEF EndWalk, TypeOK
  <2>16. ASSUME NEW s \in Thrown, Throw(s)
         PROVE  TypeOK'
    BY <2>1, <2>16 DEF Throw, TypeOK, Signals
  <2>17. CASE UnwindToFunction
    <3>1. PICK b \in DOMAIN stack : stack' = TopDoing(Cut(b), "stopped")
      BY <2>17 DEF UnwindToFunction
    <3>2. b \in 0 .. Len(stack)
      BY <2>1, <3>1, LenProperties
    <3>3. stack' \in Seq(Entry)
      BY <2>2, <2>3, <3>1, <3>2
    <3> QED
      BY <2>1, <2>17, <3>3 DEF UnwindToFunction, TypeOK, Signals
  <2>18. CASE AbandonWalk
    <3>1. PICK r \in DOMAIN stack : stack' = TopDoing(Cut(r), "leaving")
      BY <2>18 DEF AbandonWalk
    <3>2. r \in 0 .. Len(stack)
      BY <2>1, <3>1, LenProperties
    <3>3. stack' \in Seq(Entry)
      BY <2>2, <2>3, <3>1, <3>2
    <3> QED
      BY <2>1, <2>18, <3>3 DEF AbandonWalk, TypeOK
  <2>19. CASE HandBackLeftOver
    BY <2>1, <2>6, <2>19 DEF HandBackLeftOver, TypeOK
  <2>20. CASE FinishWalk
    <3>1. stack # <<>> /\ Len(stack) - 1 \in 0 .. Len(stack)
      BY <2>7, <2>20 DEF FinishWalk
    <3>2. stack' \in Seq(Entry)
      BY <2>3, <2>20, <3>1 DEF FinishWalk
    <3>3. signal' \in Signals
      BY <2>1, <2>20 DEF FinishWalk, Remaining, Signals
    <3>4. outcome' \in Outcomes
      BY <2>1, <2>20 DEF FinishWalk, Concluded, Outcomes
    <3> QED
      BY <2>1, <2>6, <2>20, <3>2, <3>3, <3>4 DEF FinishWalk, TypeOK
  <2>21. CASE UNCHANGED vars
    BY <2>1, <2>21 DEF vars, TypeOK
  <2> QED
    BY <2>8, <2>9, <2>10, <2>11, <2>12, <2>13, <2>14, <2>15, <2>16, <2>17, <2>18,
       <2>19, <2>20, <2>21 DEF Next, Unwinding
<1>3. QED
  BY <1>1, <1>2, PTL DEF Spec

(***************************************************************************)
(* The links of the contexts always follow the calls on the record,        *)
(* however deep the recursion and however a walk was left.                 *)
(***************************************************************************)
THEOREM LinksAlwaysFollow == Spec => []LinksFollowTheCalls
<1>1. Init => LinksFollowTheCalls
  <2> SUFFICES ASSUME Init
               PROVE  LinksFollowTheCalls
    OBVIOUS
  <2>1. DOMAIN calls = {} /\ \A x \in Contexts : supersededBy[x] = NoFrame
    BY DEF Init
  <2> QED
    BY <2>1, FramesAssumption DEF LinksFollowTheCalls, NotShared, LinksMatch
<1>2. TypeOK /\ LinksFollowTheCalls /\ [Next]_vars => LinksFollowTheCalls'
  <2> SUFFICES ASSUME TypeOK, LinksFollowTheCalls, [Next]_vars
               PROVE  LinksFollowTheCalls'
    OBVIOUS
  <2>1. ASSUME UNCHANGED <<calls, supersededBy>>
        PROVE  LinksFollowTheCalls'
    BY <2>1 DEF LinksFollowTheCalls
  <2>2. ASSUME NEW f \in Functions, NEW c \in Frames,
               ApplyFunction(f, c) \/ CallFunction(f, c)
        PROVE  LinksFollowTheCalls'
    BY <2>2, LendingKeepsTheLinks DEF ApplyFunction, CallFunction
  <2>3. CASE EndFrame
    BY <2>1, <2>3, HandingBackKeepsTheLinks DEF EndFrame
  <2>4. CASE HandBackLeftOver
    BY <2>4, HandingBackKeepsTheLinks DEF HandBackLeftOver
  <2>5. CASE FinishWalk
    BY <2>1, <2>5, HandingBackKeepsTheLinks DEF FinishWalk
  <2>6. ASSUME \/ \E kind \in {"walk", "next"} : StartWalk(kind)
               \/ EnterParen \/ DeliverAsWritten \/ FinishDelivery \/ EndWalk
               \/ \E s \in Thrown : Throw(s)
               \/ UnwindToFunction \/ AbandonWalk \/ UNCHANGED vars
        PROVE  UNCHANGED <<calls, supersededBy>>
    BY <2>6 DEF StartWalk, EnterParen, DeliverAsWritten, FinishDelivery, EndWalk,
                Throw, UnwindToFunction, AbandonWalk, vars
  <2> QED
    BY <2>1, <2>2, <2>3, <2>4, <2>5, <2>6 DEF Next, Unwinding
<1>3. QED
  BY <1>1, <1>2, TypeCorrect, PTL DEF Spec

-----------------------------------------------------------------------------
(***************************************************************************)
(* Numbers and iteration, for what follows a chain of links to its end.    *)
(***************************************************************************)
LEMMA SomeNumberIsLeast ==
  ASSUME NEW T \in SUBSET Nat, T # {}
  PROVE  \E x \in T : \A y \in T : x <= y
<1>1. PICK x \in T : \A y \in T : ~ (<<y, x>> \in OpToRel(<, Nat))
  BY NatLessThanWellFounded, WFMin, Zenon
<1>2. ASSUME NEW y \in T, y < x
      PROVE  FALSE
  <2>1. <<y, x>> \in Nat \X Nat /\ <<y, x>>[1] < <<y, x>>[2]
    BY <1>2
  <2>2. <<y, x>> \in OpToRel(<, Nat)
    BY <2>1, Zenon DEF OpToRel
  <2> QED
    BY <1>1, <2>2, Zenon
<1>3. \A y \in T : x \in Nat /\ y \in Nat
  OBVIOUS
<1>4. \A y \in T : x <= y
  BY <1>2, <1>3
<1> QED
  BY <1>4

LEMMA SomePositionIsLast ==
  ASSUME NEW n \in Nat, NEW S \in SUBSET (1 .. n), S # {}
  PROVE  \E x \in S : \A y \in S : y <= x
<1> DEFINE T == {n - i : i \in S}
<1>1. T \in SUBSET Nat /\ T # {}
  <2>1. \A i \in S : n - i \in Nat
    OBVIOUS
  <2> QED
    BY <2>1
<1>2. PICK x \in T : \A y \in T : x <= y
  <2> HIDE DEF T
  <2> QED
    BY <1>1, SomeNumberIsLeast
<1>3. PICK m \in S : x = n - m
  OBVIOUS
<1>4. ASSUME NEW i \in S
      PROVE  i <= m
  <2>1. n - i \in T /\ i \in Int /\ m \in Int
    OBVIOUS
  <2>2. n - m <= n - i
    BY <1>2, <1>3, <2>1
  <2> HIDE DEF T
  <2> QED
    BY <2>1, <2>2
<1> QED
  BY <1>4

\* step maps the elements of its domain to one another.
MapsToItself(step) == \A y \in DOMAIN step : step[y] \in DOMAIN step

\* g is the first n steps of iterating step from x.
Iterates(g, step, x, n) ==
  /\ DOMAIN g = 0 .. n
  /\ \A k \in 0 .. n : g[k] \in DOMAIN step
  /\ g[0] = x
  /\ \A k \in 0 .. n : k < n => g[k + 1] = step[g[k]]

LEMMA IteratesAgree ==
  ASSUME NEW step, NEW x, NEW m \in Nat, NEW n \in Nat, NEW g, NEW h,
         Iterates(g, step, x, m), Iterates(h, step, x, n)
  PROVE  \A k \in Nat : k <= m /\ k <= n => g[k] = h[k]
<1> DEFINE T == {k \in Nat : k <= m /\ k <= n /\ g[k] # h[k]}
<1>1. SUFFICES ASSUME T # {}
               PROVE  FALSE
  OBVIOUS
<1>2. PICK k \in T : \A j \in T : k <= j
  <2>1. T \in SUBSET Nat
    OBVIOUS
  <2> HIDE DEF T
  <2> QED
    BY <1>1, <2>1, SomeNumberIsLeast
<1>3. k \in Nat /\ k <= m /\ k <= n /\ g[k] # h[k]
  OBVIOUS
<1>4. k # 0
  BY <1>3 DEF Iterates
<1>5. k - 1 \in Nat /\ k - 1 < m /\ k - 1 < n /\ (k - 1) + 1 = k
  BY <1>3, <1>4
<1>6. k - 1 \notin T
  <2> HIDE DEF T
  <2> QED
    BY <1>2, <1>3, <1>5
<1>7. g[k - 1] = h[k - 1]
  BY <1>5, <1>6
<1>8. k - 1 \in 0 .. m /\ k - 1 \in 0 .. n
  BY <1>5
<1>9. g[k] = step[g[k - 1]] /\ h[k] = step[h[k - 1]]
  BY <1>5, <1>8 DEF Iterates
<1> QED
  BY <1>3, <1>7, <1>9

LEMMA IteratesExist ==
  ASSUME NEW step, MapsToItself(step), NEW x \in DOMAIN step
  PROVE  \A n \in Nat : \E g : Iterates(g, step, x, n)
<1> DEFINE T == {n \in Nat : ~ \E g : Iterates(g, step, x, n)}
<1>1. SUFFICES ASSUME T # {}
               PROVE  FALSE
  OBVIOUS
<1>2. PICK n \in T : \A j \in T : n <= j
  <2>1. T \in SUBSET Nat
    OBVIOUS
  <2> HIDE DEF T
  <2> QED
    BY <1>1, <2>1, SomeNumberIsLeast
<1>3. n \in Nat /\ ~ \E g : Iterates(g, step, x, n)
  OBVIOUS
<1>4. n # 0
  <2>1. Iterates([k \in 0 .. 0 |-> x], step, x, 0)
    BY DEF Iterates
  <2> QED
    BY <1>3, <2>1
<1>5. n - 1 \in Nat /\ n - 1 \notin T
  <2>1. n - 1 \in Nat /\ ~ (n <= n - 1)
    BY <1>3, <1>4
  <2> HIDE DEF T
  <2> QED
    BY <1>2, <2>1
<1>6. PICK g : Iterates(g, step, x, n - 1)
  BY <1>5
<1> DEFINE h == [k \in 0 .. n |-> IF k = n THEN step[g[n - 1]] ELSE g[k]]
<1>7. Iterates(h, step, x, n)
  <2>1. DOMAIN h = 0 .. n /\ h[0] = x
    BY <1>3, <1>4, <1>6 DEF Iterates
  <2>2. ASSUME NEW k \in 0 .. n
        PROVE  h[k] \in DOMAIN step
    <3>1. CASE k = n
      <4>1. n - 1 \in 0 .. n - 1
        BY <1>5
      <4> QED
        BY <1>6, <3>1, <4>1 DEF Iterates, MapsToItself
    <3>2. CASE k # n
      BY <1>3, <1>6, <3>2 DEF Iterates
    <3> QED
      BY <3>1, <3>2
  <2>3. ASSUME NEW k \in 0 .. n, k < n
        PROVE  h[k + 1] = step[h[k]]
    <3>1. k \in 0 .. n - 1 /\ h[k] = g[k] /\ k + 1 \in 0 .. n
      BY <1>3, <2>3
    <3>2. CASE k + 1 = n
      <4>1. k = n - 1
        BY <1>3, <3>1, <3>2
      <4> QED
        BY <3>1, <3>2, <4>1
    <3>3. CASE k + 1 # n
      BY <1>3, <1>6, <2>3, <3>1, <3>3 DEF Iterates
    <3> QED
      BY <3>2, <3>3
  <2> HIDE DEF h
  <2> QED
    BY <2>1, <2>2, <2>3 DEF Iterates
<1> QED
  BY <1>3, <1>7

LEMMA IterationExists ==
  ASSUME NEW step, MapsToItself(step), NEW x \in DOMAIN step
  PROVE  \E f : /\ DOMAIN f = Nat /\ f[0] = x
                /\ \A n \in Nat : f[n] \in DOMAIN step /\ f[n + 1] = step[f[n]]
                /\ f = [n \in Nat |-> f[n]]
<1> DEFINE g(n) == CHOOSE g : Iterates(g, step, x, n)
           f == [n \in Nat |-> g(n)[n]]
<1>1. \A n \in Nat : Iterates(g(n), step, x, n)
  BY IteratesExist
<1> HIDE DEF g
<1>2. f[0] = x
  BY <1>1 DEF Iterates
<1>3. ASSUME NEW n \in Nat
      PROVE  f[n] \in DOMAIN step /\ f[n + 1] = step[f[n]]
  <2>1. f[n] = g(n)[n] /\ f[n + 1] = g(n + 1)[n + 1]
    OBVIOUS
  <2>2. Iterates(g(n), step, x, n) /\ Iterates(g(n + 1), step, x, n + 1)
    BY <1>1
  <2>3. g(n)[n] = g(n + 1)[n]
    BY <2>2, IteratesAgree
  <2>4. n \in 0 .. n + 1 /\ n \in 0 .. n
    OBVIOUS
  <2>5. g(n + 1)[n + 1] = step[g(n + 1)[n]]
    BY <2>2, <2>4 DEF Iterates
  <2> QED
    BY <2>1, <2>2, <2>3, <2>4, <2>5 DEF Iterates
<1>4. DOMAIN f = Nat /\ f = [n \in Nat |-> f[n]]
  OBVIOUS
<1> HIDE DEF f
<1> QED
  BY <1>2, <1>3, <1>4

(***************************************************************************)
(* What Following defines exists: it follows one link after another.       *)
(***************************************************************************)
LEMMA FollowingFollows ==
  ASSUME TypeOK, NEW x \in Contexts
  PROVE  /\ Following(x)[0] = x
         /\ \A n \in Nat :
              /\ Following(x)[n] \in Contexts
              /\ Following(x)[n + 1] = IF supersededBy[Following(x)[n]] = NoFrame
                                       THEN Following(x)[n]
                                       ELSE supersededBy[Following(x)[n]]
<1> DEFINE step == [y \in Contexts |-> IF supersededBy[y] = NoFrame THEN y
                                       ELSE supersededBy[y]]
           Satisfies(f) == f = [n \in Nat |->
                                  IF n = 0 THEN x
                                  ELSE IF supersededBy[f[n - 1]] = NoFrame THEN f[n - 1]
                                  ELSE supersededBy[f[n - 1]]]
<1>1. step \in [Contexts -> Contexts]
  BY DEF TypeOK, Contexts
<1>2. PICK f : /\ DOMAIN f = Nat /\ f[0] = x
               /\ \A n \in Nat : f[n] \in Contexts /\ f[n + 1] = step[f[n]]
               /\ f = [n \in Nat |-> f[n]]
  <2>1. MapsToItself(step) /\ DOMAIN step = Contexts
    BY <1>1 DEF MapsToItself
  <2> HIDE DEF step
  <2> QED
    BY <2>1, IterationExists
<1>3. Satisfies(f)
  <2> DEFINE Value(n) == IF n = 0 THEN x
                         ELSE IF supersededBy[f[n - 1]] = NoFrame THEN f[n - 1]
                         ELSE supersededBy[f[n - 1]]
  <2>1. ASSUME NEW n \in Nat
        PROVE  f[n] = Value(n)
    <3>1. CASE n = 0
      BY <1>2, <3>1
    <3>2. CASE n # 0
      <4>1. n - 1 \in Nat /\ (n - 1) + 1 = n
        BY <3>2
      <4>2. f[n - 1] \in Contexts /\ f[n] = step[f[n - 1]]
        BY <1>2, <4>1
      <4> QED
        BY <3>2, <4>2
    <3> QED
      BY <3>1, <3>2
  <2>2. [n \in Nat |-> f[n]] = [n \in Nat |-> Value(n)]
    BY <2>1
  <2> QED
    BY <1>2, <2>2
<1>4. Satisfies(Following(x))
  BY <1>3 DEF Following
<1>5. /\ Following(x)[0] = x
      /\ \A n \in Nat : Following(x)[n + 1] = IF supersededBy[Following(x)[n]] = NoFrame
                                              THEN Following(x)[n]
                                              ELSE supersededBy[Following(x)[n]]
  <2> DEFINE g == Following(x)
  <2> HIDE DEF g
  <2>1. Satisfies(g)
    BY <1>4 DEF g
  <2>2. \A n \in Nat : n + 1 \in Nat /\ n + 1 # 0 /\ (n + 1) - 1 = n
    OBVIOUS
  <2>3. g[0] = x
    BY <2>1
  <2>4. \A n \in Nat : g[n + 1] = IF supersededBy[g[n]] = NoFrame THEN g[n]
                                  ELSE supersededBy[g[n]]
    BY <2>1, <2>2
  <2> QED
    BY <2>3, <2>4 DEF g
<1>6. \A n \in Nat : Following(x)[n] \in Contexts
  <2> DEFINE g == Following(x)
             T == {n \in Nat : g[n] \notin Contexts}
  <2>1. SUFFICES ASSUME T # {}
                 PROVE  FALSE
    OBVIOUS
  <2>2. PICK n \in T : \A j \in T : n <= j
    <3>1. T \in SUBSET Nat
      OBVIOUS
    <3> HIDE DEF T
    <3> QED
      BY <2>1, <3>1, SomeNumberIsLeast
  <2>3. n \in Nat /\ g[n] \notin Contexts
    OBVIOUS
  <2>4. n # 0
    BY <1>5, <2>3
  <2>5. n - 1 \in Nat /\ (n - 1) + 1 = n /\ n - 1 \notin T
    <3>1. n - 1 \in Nat /\ ~ (n <= n - 1) /\ (n - 1) + 1 = n
      BY <2>3, <2>4
    <3> HIDE DEF T
    <3> QED
      BY <2>2, <3>1
  <2>6. g[n - 1] \in Contexts
    BY <2>5
  <2>7. g[n] = IF supersededBy[g[n - 1]] = NoFrame THEN g[n - 1]
               ELSE supersededBy[g[n - 1]]
    BY <1>5, <2>5
  <2> HIDE DEF g
  <2> QED
    BY <2>3, <2>6, <2>7 DEF TypeOK, Contexts
<1> QED
  BY <1>5, <1>6

-----------------------------------------------------------------------------
(***************************************************************************)
(* Where the links lead.  CallsOf are the open calls of f.                 *)
(***************************************************************************)
CallsOf(cs, f) == {j \in DOMAIN cs : cs[j].fn = f}

LastOf(cs, f, j) == j \in CallsOf(cs, f) /\ \A k \in CallsOf(cs, f) : k <= j

LEMMA OpenCallsHaveTheirParts ==
  ASSUME NEW cs \in Seq(OpenCall)
  PROVE  /\ Len(cs) \in Nat /\ DOMAIN cs = 1 .. Len(cs)
         /\ \A j \in DOMAIN cs :
              /\ cs[j] \in OpenCall /\ cs[j].fn \in Functions /\ cs[j].locals \in Frames
              /\ cs[j] = [fn |-> cs[j].fn, locals |-> cs[j].locals]
              /\ j \in Nat
<1>1. Len(cs) \in Nat /\ DOMAIN cs = 1 .. Len(cs) /\ cs \in [1 .. Len(cs) -> OpenCall]
  BY LenProperties
<1>2. \A j \in DOMAIN cs : cs[j] \in OpenCall
  BY <1>1
<1> QED
  BY <1>1, <1>2 DEF OpenCall

LEMMA CallsBefore ==
  ASSUME NEW cs \in Seq(OpenCall), NEW j \in DOMAIN cs
  PROVE  LET before == SubSeq(cs, 1, j - 1)
         IN  /\ DOMAIN before = 1 .. j - 1
             /\ \A i \in DOMAIN before : i \in DOMAIN cs /\ i < j /\ before[i] = cs[i]
             /\ \A i \in DOMAIN cs : i < j => i \in DOMAIN before
<1>1. j \in 1 .. Len(cs) /\ Len(cs) \in Nat /\ DOMAIN cs = 1 .. Len(cs)
  BY LenProperties
<1> QED
  BY <1>1, SubSeqProperties, LenProperties

(***************************************************************************)
(* The declared words of a function no call of which is open, and the      *)
(* frame of the last of its calls, give way to nothing.                    *)
(***************************************************************************)
LEMMA LinksEnd ==
  ASSUME TypeOK, LinksFollowTheCalls, NEW f \in Plain, NEW x \in Contexts,
         \/ x = f /\ CallsOf(calls, f) = {}
         \/ \E j : LastOf(calls, f, j) /\ x = calls[j].locals
  PROVE  supersededBy[x] = NoFrame
<1>1. calls \in Seq(OpenCall) /\ supersededBy[x] \in Frames \cup {NoFrame}
  BY DEF TypeOK
<1>2. SUFFICES ASSUME NEW c \in Frames, supersededBy[x] = c
               PROVE  FALSE
  BY <1>1
<1>3. PICK k \in DOMAIN calls : calls[k].locals = c /\ TakesOver(calls, k, x)
  BY <1>2 DEF LinksFollowTheCalls, LinksMatch
<1> DEFINE g == calls[k].fn
           before == SubSeq(calls, 1, k - 1)
<1>4. g \in Functions /\ g \in Plain /\ TakesOverFrom(before, g, x)
  BY <1>1, <1>3, OpenCallsHaveTheirParts DEF TakesOver
<1>5. /\ DOMAIN before = 1 .. k - 1
      /\ \A i \in DOMAIN before : i \in DOMAIN calls /\ i < k /\ before[i] = calls[i]
  BY <1>1, CallsBefore
<1>6. f \in Functions /\ \A i \in DOMAIN calls : calls[i].locals \in Frames /\ i \in Nat
  BY <1>1, OpenCallsHaveTheirParts DEF Plain
<1> HIDE DEF before
<1>7. CASE x = f /\ CallsOf(calls, f) = {}
  <2>1. x \notin Frames /\ g # f
    BY <1>3, <1>6, <1>7, FramesAssumption DEF CallsOf
  <2>2. PICK i \in DOMAIN before : before[i] = [fn |-> g, locals |-> x]
    BY <1>4, <1>7, <2>1 DEF TakesOverFrom
  <2>3. calls[i].locals = x /\ i \in DOMAIN calls
    BY <1>5, <2>2
  <2> QED
    BY <1>6, <2>1, <2>3
<1>8. ASSUME NEW j, LastOf(calls, f, j), x = calls[j].locals
      PROVE  FALSE
  <2>1. j \in DOMAIN calls /\ calls[j].fn = f /\ x \in Frames /\ x # g
    BY <1>4, <1>6, <1>8, FramesAssumption DEF LastOf, CallsOf
  <2>2. PICK i \in DOMAIN before : before[i] = [fn |-> g, locals |-> x]
    BY <1>4, <2>1 DEF TakesOverFrom
  <2>3. calls[i].locals = x /\ calls[i].fn = g /\ i \in DOMAIN calls /\ i < k
    BY <1>5, <2>2
  <2>4. i = j
    BY <1>8, <2>1, <2>3 DEF LinksFollowTheCalls, NotShared
  <2>5. k \in CallsOf(calls, f) /\ j < k
    BY <2>1, <2>3, <2>4 DEF CallsOf
  <2> QED
    BY <1>6, <1>8, <2>1, <2>5 DEF LastOf
<1> QED
  BY <1>7, <1>8

(***************************************************************************)
(* Everything else on the way leads to a later call: the declared words to *)
(* the first, a call's frame to the next.                                  *)
(***************************************************************************)
LEMMA LinksLeadOn ==
  ASSUME TypeOK, LinksFollowTheCalls, NEW f \in Plain, NEW x \in Contexts, NEW low \in Nat,
         \/ x = f /\ low = 0
         \/ low \in CallsOf(calls, f) /\ x = calls[low].locals,
         \E k \in CallsOf(calls, f) : k > low
  PROVE  \E k \in CallsOf(calls, f) : k > low /\ supersededBy[x] = calls[k].locals
<1>1. calls \in Seq(OpenCall)
  BY DEF TypeOK
<1>2. /\ Len(calls) \in Nat /\ DOMAIN calls = 1 .. Len(calls)
      /\ \A j \in DOMAIN calls :
           /\ calls[j].locals \in Frames /\ j \in Nat
           /\ calls[j] = [fn |-> calls[j].fn, locals |-> calls[j].locals]
  BY <1>1, OpenCallsHaveTheirParts
<1> DEFINE T == {k \in CallsOf(calls, f) : k > low}
<1>3. PICK k \in T : \A j \in T : k <= j
  <2>1. T \in SUBSET Nat /\ T # {}
    BY <1>2 DEF CallsOf
  <2> HIDE DEF T
  <2> QED
    BY <2>1, SomeNumberIsLeast
<1>4. k \in CallsOf(calls, f) /\ k > low /\ k \in DOMAIN calls /\ calls[k].fn = f
  BY DEF CallsOf
<1>5. \A j \in CallsOf(calls, f) : j > low => k <= j
  BY <1>3
<1> HIDE DEF T
<1> DEFINE before == SubSeq(calls, 1, k - 1)
<1>6. /\ \A i \in DOMAIN before : i \in DOMAIN calls /\ i < k /\ before[i] = calls[i]
      /\ \A i \in DOMAIN calls : i < k => i \in DOMAIN before
  BY <1>1, <1>4, CallsBefore
<1> HIDE DEF before
<1>7. \A i \in DOMAIN before : i > low => before[i].fn # f
  <2> SUFFICES ASSUME NEW i \in DOMAIN before, i > low, before[i].fn = f
               PROVE  FALSE
    OBVIOUS
  <2>1. i \in CallsOf(calls, f) /\ i < k
    BY <1>6 DEF CallsOf
  <2> QED
    BY <1>2, <1>4, <1>5, <2>1 DEF CallsOf
<1>8. TakesOverFrom(before, f, x)
  <2>1. CASE x = f /\ low = 0
    <3>1. \A i \in DOMAIN before : i > 0
      BY <1>2, <1>6
    <3> QED
      BY <1>7, <2>1, <3>1 DEF TakesOverFrom
  <2>2. CASE low \in CallsOf(calls, f) /\ x = calls[low].locals
    <3>1. low \in DOMAIN before /\ before[low] = [fn |-> f, locals |-> x]
      BY <1>2, <1>4, <1>6, <2>2 DEF CallsOf
    <3> QED
      BY <1>7, <3>1 DEF TakesOverFrom
  <2> QED
    BY <2>1, <2>2
<1>9. TakesOver(calls, k, x)
  BY <1>4, <1>8 DEF TakesOver, before
<1>10. supersededBy[x] = calls[k].locals
  BY <1>2, <1>4, <1>9 DEF LinksFollowTheCalls, LinksMatch
<1> QED
  BY <1>4, <1>10

\* After n links from f: nowhere yet, or at a call no earlier than the n-th or
\* the last.
HasCome(cs, f, n, x) ==
  \/ x = f /\ (n = 0 \/ CallsOf(cs, f) = {})
  \/ \E j \in CallsOf(cs, f) : x = cs[j].locals /\ (n <= j \/ LastOf(cs, f, j))

LEMMA LinksComeToTheLastCall ==
  ASSUME TypeOK, LinksFollowTheCalls, NEW f \in Plain
  PROVE  \A n \in Nat : HasCome(calls, f, n, Following(f)[n])
<1> DEFINE g == Following(f)
           T == {n \in Nat : ~HasCome(calls, f, n, g[n])}
<1>1. f \in Contexts
  BY DEF Plain, Contexts
<1>2. /\ g[0] = f
      /\ \A n \in Nat :
           /\ g[n] \in Contexts
           /\ g[n + 1] = IF supersededBy[g[n]] = NoFrame THEN g[n] ELSE supersededBy[g[n]]
  BY <1>1, FollowingFollows
<1> HIDE DEF g
<1>3. calls \in Seq(OpenCall) /\ \A j \in DOMAIN calls : j \in Nat /\ calls[j].locals \in Frames
  BY OpenCallsHaveTheirParts DEF TypeOK
<1>4. SUFFICES ASSUME T # {}
               PROVE  FALSE
  BY DEF g
<1>5. PICK n \in T : \A j \in T : n <= j
  <2>1. T \in SUBSET Nat
    OBVIOUS
  <2> HIDE DEF T
  <2> QED
    BY <1>4, <2>1, SomeNumberIsLeast
<1>6. n \in Nat /\ ~HasCome(calls, f, n, g[n])
  OBVIOUS
<1>7. n # 0
  BY <1>2, <1>6 DEF HasCome
<1> DEFINE m == n - 1
<1>8. m \in Nat /\ m + 1 = n /\ HasCome(calls, f, m, g[m])
  <2>1. m \in Nat /\ m + 1 = n /\ ~ (n <= m)
    BY <1>6, <1>7
  <2>2. m \notin T
    <3> HIDE DEF T
    <3> QED
      BY <1>5, <2>1
  <2> QED
    BY <2>1, <2>2
<1> HIDE DEF m
<1>9. /\ g[m] \in Contexts
      /\ g[n] = IF supersededBy[g[m]] = NoFrame THEN g[m] ELSE supersededBy[g[m]]
  BY <1>2, <1>8
<1>10. ASSUME \/ g[m] = f /\ CallsOf(calls, f) = {}
              \/ \E j : LastOf(calls, f, j) /\ g[m] = calls[j].locals
       PROVE  FALSE
  <2>1. g[n] = g[m]
    BY <1>9, <1>10, LinksEnd
  <2> QED
    BY <1>6, <1>10, <2>1 DEF HasCome, LastOf
<1>11. ASSUME NEW low \in Nat, m <= low,
              \/ g[m] = f /\ low = 0
              \/ low \in CallsOf(calls, f) /\ g[m] = calls[low].locals,
              NEW k \in CallsOf(calls, f), k > low
       PROVE  FALSE
  <2>1. PICK j \in CallsOf(calls, f) : j > low /\ supersededBy[g[m]] = calls[j].locals
    BY <1>9, <1>11, LinksLeadOn
  <2>2. j \in Nat /\ calls[j].locals \in Frames
    BY <1>3 DEF CallsOf
  <2>3. g[n] = calls[j].locals /\ n <= j
    BY <1>8, <1>9, <1>11, <2>1, <2>2, FramesAssumption
  <2> QED
    BY <1>6, <2>3 DEF HasCome
<1>12. CASE g[m] = f /\ m = 0
  <2>1. PICK k \in CallsOf(calls, f) : TRUE
    BY <1>10, <1>12
  <2>2. k > 0
    BY <1>3, OpenCallsHaveTheirParts DEF CallsOf
  <2> QED
    BY <1>11, <1>12, <2>2
<1>13. ASSUME NEW j \in CallsOf(calls, f), g[m] = calls[j].locals, m <= j
       PROVE  FALSE
  <2>1. PICK k \in CallsOf(calls, f) : ~ (k <= j)
    BY <1>10, <1>13 DEF LastOf
  <2>2. j \in Nat /\ k \in Nat
    BY <1>3 DEF CallsOf
  <2> QED
    BY <1>11, <1>13, <2>1, <2>2
<1> QED
  BY <1>8, <1>10, <1>12, <1>13 DEF HasCome

LEMMA InnermostIs ==
  ASSUME NEW cs \in Seq(OpenCall), NEW f
  PROVE  /\ CallsOf(cs, f) = {} => Scopes!InnermostCall(cs, f) = NoFrame
         /\ \A j : LastOf(cs, f, j) => Scopes!InnermostCall(cs, f) = cs[j].locals
<1>1. CallsOf(cs, f) = {} => Scopes!InnermostCall(cs, f) = NoFrame
  BY DEF CallsOf, Scopes!InnermostCall
<1>2. ASSUME NEW j, LastOf(cs, f, j)
      PROVE  Scopes!InnermostCall(cs, f) = cs[j].locals
  <2> DEFINE of == CallsOf(cs, f)
             last == CHOOSE i \in of : \A k \in of : k <= i
  <2>1. \A k \in of : k \in Nat
    BY OpenCallsHaveTheirParts DEF CallsOf
  <2>2. j \in of /\ \A k \in of : k <= j
    BY <1>2 DEF LastOf
  <2> HIDE DEF of
  <2>3. last \in of /\ \A k \in of : k <= last
    BY <2>2
  <2> HIDE DEF last
  <2>4. last = j
    BY <2>1, <2>2, <2>3
  <2>5. Scopes!InnermostCall(cs, f) = cs[last].locals
    BY <2>2 DEF Scopes!InnermostCall, CallsOf, of, last
  <2> QED
    BY <2>4, <2>5
<1> QED
  BY <1>1, <1>2

LEMMA SomeCallIsLast ==
  ASSUME NEW cs \in Seq(OpenCall), NEW f, CallsOf(cs, f) # {}
  PROVE  \E j : LastOf(cs, f, j)
<1>1. Len(cs) \in Nat /\ CallsOf(cs, f) \in SUBSET (1 .. Len(cs))
  BY OpenCallsHaveTheirParts DEF CallsOf
<1>2. PICK j \in CallsOf(cs, f) : \A k \in CallsOf(cs, f) : k <= j
  BY <1>1, SomePositionIsLast
<1> QED
  BY <1>2 DEF LastOf

(***************************************************************************)
(* Following the links from the declared words of a function comes to the  *)
(* frame of its innermost open call (WordValues' reading of supersededBy). *)
(***************************************************************************)
LEMMA LinksReadTheInnermostCall ==
  ASSUME TypeOK, LinksFollowTheCalls, NEW f \in Plain
  PROVE  ReadsThrough(f) = Scopes!InnermostCall(calls, f)
<1> DEFINE n == Len(calls)
           x == Following(f)[n]
<1>1. /\ calls \in Seq(OpenCall) /\ n \in Nat
      /\ \A j \in DOMAIN calls : j \in 1 .. n /\ calls[j].locals \in Frames
  BY OpenCallsHaveTheirParts DEF TypeOK
<1>2. HasCome(calls, f, n, x)
  BY <1>1, LinksComeToTheLastCall
<1>3. ReadsThrough(f) = IF x = f THEN NoFrame ELSE x
  BY DEF ReadsThrough
<1>4. f \notin Frames
  BY FramesAssumption DEF Plain
<1> HIDE DEF x
<1>5. CASE CallsOf(calls, f) = {}
  <2>1. x = f
    BY <1>2, <1>5 DEF HasCome
  <2> QED
    BY <1>1, <1>3, <1>5, <2>1, InnermostIs
<1>6. CASE CallsOf(calls, f) # {}
  <2>1. n # 0
    BY <1>1, <1>6 DEF CallsOf
  <2>2. PICK j \in CallsOf(calls, f) : x = calls[j].locals /\ (n <= j \/ LastOf(calls, f, j))
    BY <1>2, <1>6, <2>1 DEF HasCome
  <2>3. LastOf(calls, f, j)
    BY <1>1, <2>2 DEF LastOf, CallsOf
  <2>4. x \in Frames /\ x # f
    BY <1>1, <1>4, <2>2 DEF CallsOf
  <2> QED
    BY <1>1, <1>3, <2>2, <2>3, <2>4, InnermostIs
<1> QED
  BY <1>5, <1>6

(***************************************************************************)
(* What opening and ending a call do to the innermost calls.               *)
(***************************************************************************)
LEMMA InnermostAfterOpening ==
  ASSUME NEW cs \in Seq(OpenCall), NEW f \in Functions, NEW c \in Frames, NEW g
  PROVE  Scopes!InnermostCall(Append(cs, [fn |-> f, locals |-> c]), g)
           = IF g = f THEN c ELSE Scopes!InnermostCall(cs, g)
<1> DEFINE call == [fn |-> f, locals |-> c]
           more == Append(cs, call)
           n == Len(cs)
<1> SUFFICES Scopes!InnermostCall(more, g)
               = IF g = f THEN c ELSE Scopes!InnermostCall(cs, g)
  OBVIOUS
<1>1. call \in OpenCall
  BY DEF OpenCall
<1>2. call.fn = f /\ call.locals = c
  OBVIOUS
<1> HIDE DEF call
<1>3. /\ more \in Seq(OpenCall) /\ n \in Nat /\ DOMAIN cs = 1 .. n
      /\ DOMAIN more = 1 .. n + 1
      /\ \A i \in 1 .. n : more[i] = cs[i]
      /\ more[n + 1] = call
  BY <1>1, AppendProperties, LenProperties
<1> HIDE DEF more, n
<1>4. CASE g = f
  <2>1. LastOf(more, g, n + 1)
    BY <1>2, <1>3, <1>4 DEF LastOf, CallsOf
  <2> QED
    BY <1>2, <1>3, <1>4, <2>1, InnermostIs
<1>5. CASE g # f
  <2>1. CallsOf(more, g) = CallsOf(cs, g)
    BY <1>2, <1>3, <1>5 DEF CallsOf
  <2>2. CASE CallsOf(cs, g) = {}
    BY <1>3, <1>5, <2>1, <2>2, InnermostIs
  <2>3. CASE CallsOf(cs, g) # {}
    <3>1. PICK j : LastOf(cs, g, j)
      BY <2>3, SomeCallIsLast
    <3>2. LastOf(more, g, j) /\ more[j] = cs[j]
      BY <1>3, <2>1, <3>1 DEF LastOf, CallsOf
    <3> QED
      BY <1>3, <1>5, <3>1, <3>2, InnermostIs
  <2> QED
    BY <2>2, <2>3
<1> QED
  BY <1>4, <1>5

LEMMA InnermostAfterEnding ==
  ASSUME NEW cs \in Seq(OpenCall), cs # <<>>, NEW g, g # cs[Len(cs)].fn
  PROVE  Scopes!InnermostCall(SubSeq(cs, 1, Len(cs) - 1), g) = Scopes!InnermostCall(cs, g)
<1> DEFINE n == Len(cs)
           fewer == SubSeq(cs, 1, n - 1)
<1> SUFFICES Scopes!InnermostCall(fewer, g) = Scopes!InnermostCall(cs, g)
  OBVIOUS
<1>1. n \in Nat \ {0} /\ DOMAIN cs = 1 .. n /\ \A i \in 1 .. n : cs[i] \in OpenCall
  BY EmptySeq, OpenCallsHaveTheirParts
<1>2. /\ fewer \in Seq(OpenCall) /\ DOMAIN fewer = 1 .. n - 1
      /\ \A i \in 1 .. n - 1 : fewer[i] = cs[i]
  <2> HIDE DEF n
  <2>1. \A i \in 1 .. n - 1 : cs[i] \in OpenCall
    BY <1>1
  <2> QED
    BY <1>1, <2>1, SubSeqProperties, LenProperties DEF n
<1> HIDE DEF fewer, n
<1>3. CallsOf(fewer, g) = CallsOf(cs, g)
  BY <1>1, <1>2 DEF CallsOf, n
<1>4. CASE CallsOf(cs, g) = {}
  <2>1. Scopes!InnermostCall(cs, g) = NoFrame
    BY <1>4, InnermostIs
  <2>2. Scopes!InnermostCall(fewer, g) = NoFrame
    BY <1>2, <1>3, <1>4, InnermostIs
  <2> QED
    BY <2>1, <2>2
<1>5. CASE CallsOf(cs, g) # {}
  <2>1. PICK j : LastOf(cs, g, j)
    BY <1>5, SomeCallIsLast
  <2>2. LastOf(fewer, g, j) /\ fewer[j] = cs[j]
    BY <1>2, <1>3, <2>1 DEF LastOf, CallsOf
  <2>3. Scopes!InnermostCall(cs, g) = cs[j].locals
    BY <2>1, InnermostIs
  <2>4. Scopes!InnermostCall(fewer, g) = fewer[j].locals
    BY <1>2, <2>2, InnermostIs
  <2> QED
    BY <2>2, <2>3, <2>4
<1> QED
  BY <1>4, <1>5

(***************************************************************************)
(* The record changes only by a call opened or the innermost one ended.    *)
(***************************************************************************)
LEMMA StepsOnTheRecord ==
  ASSUME [Next]_vars
  PROVE  \/ UNCHANGED calls
         \/ \E f \in Functions, c \in Frames : RecordCall(f, c)
         \/ EndInnermostCall
<1>1. ASSUME NEW f \in Functions, NEW c \in Frames,
             ApplyFunction(f, c) \/ CallFunction(f, c)
      PROVE  RecordCall(f, c)
  BY <1>1 DEF ApplyFunction, CallFunction
<1>2. CASE EndFrame \/ HandBackLeftOver \/ FinishWalk
  BY <1>2 DEF EndFrame, HandBackLeftOver, FinishWalk
<1>3. ASSUME \/ \E kind \in {"walk", "next"} : StartWalk(kind)
             \/ EnterParen \/ DeliverAsWritten \/ FinishDelivery \/ EndWalk
             \/ \E s \in Thrown : Throw(s)
             \/ UnwindToFunction \/ AbandonWalk \/ UNCHANGED vars
      PROVE  UNCHANGED calls
  BY <1>3 DEF StartWalk, EnterParen, DeliverAsWritten, FinishDelivery, EndWalk,
              Throw, UnwindToFunction, AbandonWalk, vars
<1> QED
  BY <1>1, <1>2, <1>3 DEF Next, Unwinding

(***************************************************************************)
(* What the links read is what the record says; the record and the links   *)
(* decide both.                                                            *)
(***************************************************************************)
ReadsTheInnermost ==
  [f \in Plain |-> ReadsThrough(f)]
    = [f \in Plain |-> Scopes!InnermostCall(calls, f)]

LEMMA ReadsAre == TypeOK /\ LinksFollowTheCalls => ReadsTheInnermost
BY LinksReadTheInnermostCall DEF ReadsTheInnermost

(***************************************************************************)
(* The chain of links implements innermost-call scoping: whatever calls    *)
(* open and end, in whatever order walks are left, the words of a function *)
(* read the frame of its innermost open call and nothing else              *)
(* (lendFrameToFunction, handBackFrameTakenOverBy, Context.resolving).     *)
(***************************************************************************)
THEOREM LinksImplementScopes == Spec => ScopesSpec
<1> DEFINE Read == [f \in Plain |-> ReadsThrough(f)]
           In(cs) == [f \in Plain |-> Scopes!InnermostCall(cs, f)]
<1>1. Init /\ TypeOK /\ LinksFollowTheCalls => Scopes!Init
  <2> SUFFICES ASSUME Init, TypeOK, LinksFollowTheCalls
               PROVE  Scopes!Init
    OBVIOUS
  <2>1. calls = <<>> /\ \A f : CallsOf(calls, f) = {}
    BY DEF Init, CallsOf
  <2>2. \A f \in Plain : ReadsThrough(f) = NoFrame
    BY <2>1, LinksReadTheInnermostCall, InnermostIs DEF TypeOK
  <2> QED
    BY <2>1, <2>2 DEF Scopes!Init
<1>2. TypeOK' /\ LinksFollowTheCalls' => ReadsTheInnermost'
  BY ReadsAre, PTL
<1>3. /\ TypeOK /\ LinksFollowTheCalls /\ [Next]_vars /\ TypeOK' /\ LinksFollowTheCalls'
      => [Scopes!Next]_Scopes!scopeVars
  <2> SUFFICES ASSUME TypeOK, LinksFollowTheCalls, [Next]_vars,
                      TypeOK', LinksFollowTheCalls'
               PROVE  [Scopes!Next]_Scopes!scopeVars
    OBVIOUS
  <2>1. Read = In(calls)
    BY ReadsAre DEF ReadsTheInnermost
  <2>2. Read' = In(calls')
    BY <1>2 DEF ReadsTheInnermost
  <2>3. calls \in Seq(OpenCall)
    BY DEF TypeOK
  <2> HIDE DEF Read, In
  <2>4. ASSUME UNCHANGED calls
        PROVE  UNCHANGED Scopes!scopeVars
    <3>1. Read' = Read
      BY <2>1, <2>2, <2>4
    <3> QED
      BY <2>4, <3>1 DEF Scopes!scopeVars, Read
  <2>5. ASSUME NEW f \in Functions, NEW c \in Frames, RecordCall(f, c)
        PROVE  Scopes!Next
    <3>1. calls' = Append(calls, [fn |-> f, locals |-> c])
      BY <2>5 DEF RecordCall
    <3>2. Read' = IF f \in Plain THEN [Read EXCEPT ![f] = c] ELSE Read
      BY <2>1, <2>2, <2>3, <3>1, InnermostAfterOpening DEF In
    <3>3. Scopes!Open(f, c)
      BY <3>1, <3>2 DEF Scopes!Open, Read
    <3> QED
      BY <3>3 DEF Scopes!Next
  <2>6. ASSUME EndInnermostCall
        PROVE  Scopes!Next
    <3> DEFINE f == calls[Len(calls)].fn
    <3>1. calls # <<>> /\ calls' = SubSeq(calls, 1, Len(calls) - 1)
      BY <2>6 DEF EndInnermostCall
    <3>2. Read' = IF f \in Plain
                  THEN [Read EXCEPT ![f] = Scopes!InnermostCall(calls', f)]
                  ELSE Read
      BY <2>1, <2>2, <2>3, <3>1, InnermostAfterEnding DEF In
    <3>3. Scopes!End
      BY <3>1, <3>2 DEF Scopes!End, Read
    <3> QED
      BY <3>3 DEF Scopes!Next
  <2> QED
    BY <2>4, <2>5, <2>6, StepsOnTheRecord
<1> QED
  BY <1>1, <1>3, TypeCorrect, LinksAlwaysFollow, PTL DEF Spec, ScopesSpec, Scopes!Spec

-----------------------------------------------------------------------------
(***************************************************************************)
(* The record of the function calls being run, for every nesting of walks  *)
(* and every way of leaving them.                                          *)
(***************************************************************************)
Doings == {"step", "deliver", "stopped", "leaving"}

-----------------------------------------------------------------------------
(***************************************************************************)
(* The invariant.  at says where on the record each running call is.  The  *)
(* calls of a walk are above those that were open when it began, and those *)
(* of the walks around it are not.                                         *)
(***************************************************************************)
RecordedAt(at, s, cs) ==
  /\ at \in [RunningIn(s) -> DOMAIN cs]
  /\ \A i \in RunningIn(s) : cs[at[i]].locals = s[i].locals
  /\ \A i, j \in RunningIn(s) : i < j => at[i] < at[j]
  /\ \A i \in RunningIn(s), r \in DOMAIN s :
       s[r].kind \in Roots => IF i > r THEN at[i] > s[r].base ELSE at[i] <= s[r].base

\* A walk began with no more calls open than are open now, and none fewer
\* than the walks around it; a frame of a call has the frame of that call.
WalksAreBased(s, open) ==
  /\ \A r \in DOMAIN s : s[r].kind \in Roots => s[r].base <= open
  /\ \A q, r \in DOMAIN s :
       (q < r /\ s[q].kind \in Roots /\ s[r].kind \in Roots) => s[q].base <= s[r].base
  /\ \A i \in DOMAIN s : s[i].kind \in {"applied", "body"} => s[i].locals \in Frames

\* Only the innermost walk can be on its way out.
LeavingIsInnermost(s) ==
  \A i \in DOMAIN s : s[i].doing = "leaving" => i = Len(s) /\ s[i].kind \in Roots

CallsAreKept(s, cs) == WalksAreBased(s, Len(cs)) /\ \E at : RecordedAt(at, s, cs)

OutermostIsAWalk(s) == s # <<>> => s[1].kind \in Roots

RecordInv ==
  /\ TypeOK
  /\ CallsAreKept(stack, calls)
  /\ LeavingIsInnermost(stack)
  /\ OutermostIsAWalk(stack)

-----------------------------------------------------------------------------
(***************************************************************************)
(* Stacks.  SameFrames says that two stacks agree up to where the walk     *)
(* loop is in the frames.                                                  *)
(***************************************************************************)
SameFrames(s, t, n) ==
  \A i \in 1 .. n : s[i].kind = t[i].kind /\ s[i].locals = t[i].locals /\ s[i].base = t[i].base

LEMMA StacksOfEntries ==
  ASSUME NEW s \in Seq(Entry)
  PROVE  /\ Len(s) \in Nat /\ DOMAIN s = 1 .. Len(s)
         /\ s # <<>> => Len(s) \in 1 .. Len(s)
         /\ \A i \in 1 .. Len(s) :
              /\ s[i].kind \in Roots \cup {"paren", "body"}
              /\ s[i].locals \in Frames \cup {NoFrame}
              /\ s[i].base \in Nat /\ s[i].doing \in Doings
<1>1. Len(s) \in Nat /\ DOMAIN s = 1 .. Len(s) /\ \A i \in 1 .. Len(s) : s[i] \in Entry
  OBVIOUS
<1>2. s # <<>> => Len(s) # 0
  BY EmptySeq
<1> QED
  BY <1>1, <1>2 DEF Entry, Doings

LEMMA RecordsOfCalls ==
  ASSUME NEW cs \in Seq(OpenCall)
  PROVE  Len(cs) \in Nat /\ DOMAIN cs = 1 .. Len(cs) /\ (cs # <<>> => Len(cs) >= 1)
BY EmptySeq

LEMMA TopDoingIs ==
  ASSUME NEW s \in Seq(Entry), s # <<>>, NEW what \in Doings
  PROVE  LET t == TopDoing(s, what)
         IN  /\ t \in Seq(Entry) /\ Len(t) = Len(s) /\ t # <<>>
             /\ SameFrames(t, s, Len(s))
             /\ \A i \in 1 .. Len(s) : t[i].doing = IF i = Len(s) THEN what ELSE s[i].doing
<1> DEFINE n == Len(s)
           t == TopDoing(s, what)
<1>1. n \in Nat /\ n \in 1 .. n /\ s \in [1 .. n -> Entry]
  BY StacksOfEntries
<1>2. s[n] \in Entry
  BY <1>1
<1>3. t = [s EXCEPT ![n] = [s[n] EXCEPT !.doing = what]]
  BY DEF TopDoing
<1>4. [s[n] EXCEPT !.doing = what] \in Entry
  BY <1>2 DEF Entry, Doings
<1> HIDE DEF n, t
<1>5. t \in [1 .. n -> Entry]
  BY <1>1, <1>3, <1>4
<1>6. t \in Seq(Entry) /\ Len(t) = n
  BY <1>1, <1>5
<1>7. \A i \in 1 .. n : t[i] = IF i = n THEN [s[n] EXCEPT !.doing = what] ELSE s[i]
  BY <1>1, <1>3
<1>8. /\ [s[n] EXCEPT !.doing = what].kind = s[n].kind
      /\ [s[n] EXCEPT !.doing = what].locals = s[n].locals
      /\ [s[n] EXCEPT !.doing = what].base = s[n].base
      /\ [s[n] EXCEPT !.doing = what].doing = what
  BY <1>2 DEF Entry
<1>9. t # <<>>
  BY <1>1, <1>6, EmptySeq
<1> QED
  BY <1>6, <1>7, <1>8, <1>9 DEF SameFrames, n, t

LEMMA CutIs ==
  ASSUME stack \in Seq(Entry), NEW n \in 0 .. Len(stack)
  PROVE  /\ Cut(n) \in Seq(Entry) /\ Len(Cut(n)) = n
         /\ \A i \in 1 .. n : Cut(n)[i] = stack[i]
<1>1. Len(stack) \in Nat /\ n \in Nat /\ \A i \in 1 .. n : stack[i] \in Entry
  BY StacksOfEntries
<1> QED
  BY <1>1 DEF Cut

\* A stack cut short, with its innermost frame at another place.
LEMMA CutDoingIs ==
  ASSUME stack \in Seq(Entry), NEW n \in 1 .. Len(stack), NEW what \in Doings
  PROVE  LET t == TopDoing(Cut(n), what)
         IN  /\ t \in Seq(Entry) /\ Len(t) = n
             /\ SameFrames(t, stack, n)
             /\ \A i \in 1 .. n : t[i].doing = IF i = n THEN what ELSE stack[i].doing
<1>1. /\ Cut(n) \in Seq(Entry) /\ Len(Cut(n)) = n
      /\ \A i \in 1 .. n : Cut(n)[i] = stack[i]
  BY CutIs
<1>2. Cut(n) # <<>>
  BY <1>1, EmptySeq
<1> DEFINE c == Cut(n)
           t == TopDoing(c, what)
<1> HIDE DEF c
<1>3. c \in Seq(Entry) /\ c # <<>> /\ Len(c) = n /\ \A i \in 1 .. n : c[i] = stack[i]
  BY <1>1, <1>2 DEF c
<1>4. /\ t \in Seq(Entry) /\ Len(t) = n /\ SameFrames(t, c, n)
      /\ \A i \in 1 .. n : t[i].doing = IF i = n THEN what ELSE c[i].doing
  BY <1>3, TopDoingIs
<1> HIDE DEF t
<1>5. /\ SameFrames(t, stack, n)
      /\ \A i \in 1 .. n : t[i].doing = IF i = n THEN what ELSE stack[i].doing
  BY <1>3, <1>4 DEF SameFrames
<1> QED
  BY <1>4, <1>5 DEF c, t

-----------------------------------------------------------------------------
(***************************************************************************)
(* Frames are dropped from the top of the stack and calls from the top of  *)
(* the record, but none of a frame that stays.                             *)
(***************************************************************************)
SparesWhatStays(at, s, cs, t, left) ==
  /\ Len(t) <= Len(s) /\ SameFrames(t, s, Len(t))
  /\ Len(left) <= Len(cs) /\ \A k \in 1 .. Len(left) : left[k] = cs[k]
  /\ \A i \in RunningIn(s) : i <= Len(t) => at[i] <= Len(left)
  /\ \A r \in 1 .. Len(t) : s[r].kind \in Roots => s[r].base <= Len(left)

LEMMA DroppingKeepsTheRecord ==
  ASSUME NEW s \in Seq(Entry), NEW cs \in Seq(OpenCall), WalksAreBased(s, Len(cs)),
         NEW at, RecordedAt(at, s, cs),
         NEW t \in Seq(Entry), NEW left \in Seq(OpenCall),
         SparesWhatStays(at, s, cs, t, left)
  PROVE  CallsAreKept(t, left)
<1> USE DEF SparesWhatStays
<1>1. /\ Len(s) \in Nat /\ DOMAIN s = 1 .. Len(s)
      /\ Len(t) \in Nat /\ DOMAIN t = 1 .. Len(t)
      /\ Len(cs) \in Nat /\ DOMAIN cs = 1 .. Len(cs)
      /\ Len(left) \in Nat /\ DOMAIN left = 1 .. Len(left)
  BY StacksOfEntries, RecordsOfCalls
<1>2. \A i \in 1 .. Len(t) : /\ i \in DOMAIN s /\ t[i].kind = s[i].kind
                             /\ t[i].locals = s[i].locals /\ t[i].base = s[i].base
  BY <1>1 DEF SameFrames
<1>3. WalksAreBased(t, Len(left))
  BY <1>1, <1>2 DEF WalksAreBased
<1> DEFINE there == [i \in RunningIn(t) |-> at[i]]
<1>4. \A i \in RunningIn(t) : i \in RunningIn(s) /\ i \in 1 .. Len(t) /\ there[i] = at[i]
  BY <1>1, <1>2 DEF RunningIn
<1>5. \A i \in RunningIn(t) : there[i] \in DOMAIN left /\ left[there[i]] = cs[at[i]]
  BY <1>1, <1>4 DEF RecordedAt
<1>6. there \in [RunningIn(t) -> DOMAIN left]
  BY <1>5
<1> HIDE DEF there
<1>7. \A i \in RunningIn(t) : left[there[i]].locals = t[i].locals
  BY <1>2, <1>4, <1>5 DEF RecordedAt
<1>8. \A i, j \in RunningIn(t) : i < j => there[i] < there[j]
  BY <1>4 DEF RecordedAt
<1>9. \A i \in RunningIn(t), r \in DOMAIN t :
        t[r].kind \in Roots =>
          IF i > r THEN there[i] > t[r].base ELSE there[i] <= t[r].base
  BY <1>1, <1>2, <1>4 DEF RecordedAt
<1>10. RecordedAt(there, t, left)
  BY <1>6, <1>7, <1>8, <1>9 DEF RecordedAt
<1> QED
  BY <1>3, <1>10 DEF CallsAreKept

\* Where only the walk loop has moved on, what is kept is kept.
LEMMA MovingOnKeepsTheRecord ==
  ASSUME NEW s \in Seq(Entry), NEW cs \in Seq(OpenCall), CallsAreKept(s, cs),
         NEW t \in Seq(Entry), Len(t) <= Len(s), SameFrames(t, s, Len(t))
  PROVE  CallsAreKept(t, cs)
<1>1. PICK at : RecordedAt(at, s, cs)
  BY DEF CallsAreKept
<1>2. /\ WalksAreBased(s, Len(cs)) /\ Len(cs) \in Nat /\ DOMAIN cs = 1 .. Len(cs)
      /\ Len(t) \in Nat /\ Len(s) \in Nat /\ DOMAIN s = 1 .. Len(s)
  BY RecordsOfCalls, StacksOfEntries DEF CallsAreKept
<1>3. \A i \in RunningIn(s) : at[i] <= Len(cs)
  BY <1>1, <1>2 DEF RecordedAt
<1>4. \A r \in 1 .. Len(t) : s[r].kind \in Roots => s[r].base <= Len(cs)
  BY <1>2 DEF WalksAreBased
<1>5. SparesWhatStays(at, s, cs, t, cs)
  BY <1>2, <1>3, <1>4 DEF SparesWhatStays
<1> QED
  BY <1>1, <1>2, <1>5, DroppingKeepsTheRecord

(***************************************************************************)
(* A frame goes on the stack: s becomes t, n frames with another one.  A   *)
(* frame that runs no call leaves the record cs as it is, and a walk       *)
(* begins with the m calls open then.                                      *)
(***************************************************************************)
LEMMA PushingAFrame ==
  ASSUME NEW n \in Nat, NEW m \in Nat, NEW s, NEW t, NEW cs,
         DOMAIN s = 1 .. n, DOMAIN t = 1 .. n + 1, DOMAIN cs = 1 .. m,
         \A i \in 1 .. n : s[i].base \in Nat,
         SameFrames(t, s, n), WalksAreBased(s, m),
         t[n + 1].locals = NoFrame, t[n + 1].kind \notin {"applied", "body"},
         t[n + 1].kind \in Roots => t[n + 1].base = m,
         NEW at, RecordedAt(at, s, cs)
  PROVE  WalksAreBased(t, m) /\ RecordedAt(at, t, cs)
<1>1. \A i \in 1 .. n : /\ t[i].kind = s[i].kind /\ t[i].locals = s[i].locals
                        /\ t[i].base = s[i].base /\ i \in 1 .. n + 1 /\ i < n + 1
  BY DEF SameFrames
<1>2. \A i \in 1 .. n + 1 : i \in 1 .. n \/ i = n + 1
  OBVIOUS
<1>3. WalksAreBased(t, m)
  <2>1. \A r \in DOMAIN t : t[r].kind \in Roots => t[r].base <= m
    BY <1>1, <1>2 DEF WalksAreBased
  <2>2. \A q, r \in DOMAIN t :
          (q < r /\ t[q].kind \in Roots /\ t[r].kind \in Roots) => t[q].base <= t[r].base
    BY <1>1, <1>2, <2>1 DEF WalksAreBased
  <2>3. \A i \in DOMAIN t : t[i].kind \in {"applied", "body"} => t[i].locals \in Frames
    BY <1>1, <1>2 DEF WalksAreBased
  <2> QED
    BY <2>1, <2>2, <2>3 DEF WalksAreBased
<1>4. RunningIn(t) = RunningIn(s)
  BY <1>1, <1>2 DEF RunningIn
<1>5. RunningIn(s) \subseteq 1 .. n /\ \A i \in RunningIn(s) : at[i] \in 1 .. m
  BY DEF RunningIn, RecordedAt
<1>6. ASSUME NEW i \in RunningIn(t), NEW r \in DOMAIN t, t[r].kind \in Roots
      PROVE  IF i > r THEN at[i] > t[r].base ELSE at[i] <= t[r].base
  <2>1. CASE r = n + 1
    BY <1>4, <1>5, <1>6, <2>1
  <2>2. CASE r \in 1 .. n
    BY <1>1, <1>4, <1>6, <2>2 DEF RecordedAt
  <2> QED
    BY <1>2, <2>1, <2>2
<1>7. \A i \in RunningIn(t) : cs[at[i]].locals = t[i].locals
  BY <1>1, <1>4, <1>5 DEF RecordedAt
<1> QED
  BY <1>3, <1>4, <1>6, <1>7 DEF RecordedAt

-----------------------------------------------------------------------------
(***************************************************************************)
(* The actions.                                                            *)
(***************************************************************************)
LEMMA PushedIs ==
  ASSUME NEW s \in Seq(Entry), NEW e \in Entry
  PROVE  LET t == Append(s, e)
             n == Len(s)
         IN  /\ t \in Seq(Entry) /\ n \in Nat /\ Len(t) = n + 1 /\ DOMAIN t = 1 .. n + 1
             /\ \A i \in 1 .. n : t[i] = s[i]
             /\ t[n + 1] = e
BY AppendProperties, StacksOfEntries

\* s is the stack, or the stack with its innermost frame at another place.
LEMMA PushingQuietly ==
  ASSUME RecordInv, NEW s \in Seq(Entry), Len(s) = Len(stack), SameFrames(s, stack, Len(stack)),
         NEW e \in Entry, e.locals = NoFrame, e.kind \notin {"applied", "body"},
         e.kind \in Roots => e.base = Len(calls),
         stack' = Append(s, e), calls' = calls
  PROVE  CallsAreKept(stack', calls')
<1> DEFINE n == Len(stack)
           m == Len(calls)
<1>1. /\ n \in Nat /\ m \in Nat /\ DOMAIN stack = 1 .. n /\ DOMAIN calls = 1 .. m
      /\ \A i \in 1 .. n : stack[i].base \in Nat
  BY StacksOfEntries, RecordsOfCalls DEF RecordInv, TypeOK
<1>2. DOMAIN stack' = 1 .. n + 1 /\ stack'[n + 1] = e /\ SameFrames(stack', stack, n)
  BY <1>1, PushedIs DEF SameFrames
<1>3. PICK at : WalksAreBased(stack, m) /\ RecordedAt(at, stack, calls)
  BY DEF RecordInv, CallsAreKept
<1> HIDE DEF n, m
<1>4. WalksAreBased(stack', m) /\ RecordedAt(at, stack', calls)
  BY <1>1, <1>2, <1>3, PushingAFrame DEF m
<1> QED
  BY <1>4 DEF CallsAreKept, m

LEMMA PushingAndRecording ==
  ASSUME RecordInv, NEW s \in Seq(Entry), Len(s) = Len(stack), SameFrames(s, stack, Len(stack)),
         NEW f \in Functions, NEW c \in Frames, RecordCall(f, c),
         NEW e \in Entry, e.locals = c, e.kind \in Roots => e.base = Len(calls) + 1,
         stack' = Append(s, e)
  PROVE  CallsAreKept(stack', calls')
<1> DEFINE n == Len(stack)
           m == Len(calls)
<1>1. /\ n \in Nat /\ m \in Nat /\ DOMAIN stack = 1 .. n /\ DOMAIN calls = 1 .. m
      /\ \A i \in 1 .. n : stack[i].base \in Nat
  BY StacksOfEntries, RecordsOfCalls DEF RecordInv, TypeOK
<1>2. DOMAIN stack' = 1 .. n + 1 /\ stack'[n + 1] = e /\ SameFrames(stack', stack, n)
  BY <1>1, PushedIs DEF SameFrames
<1>3. PICK at : WalksAreBased(stack, m) /\ RecordedAt(at, stack, calls)
  BY DEF RecordInv, CallsAreKept
<1>4. /\ DOMAIN calls' = 1 .. m + 1 /\ \A k \in 1 .. m : calls'[k] = calls[k]
      /\ calls'[m + 1].locals = c /\ Len(calls') = m + 1
  <2>1. calls \in Seq(OpenCall) /\ [fn |-> f, locals |-> c] \in OpenCall
    BY DEF RecordInv, TypeOK, OpenCall
  <2>2. calls' = Append(calls, [fn |-> f, locals |-> c])
    BY DEF RecordCall
  <2> DEFINE call == [fn |-> f, locals |-> c]
  <2> HIDE DEF call
  <2>3. /\ calls' \in Seq(OpenCall) /\ Len(calls') = m + 1
        /\ \A k \in 1 .. m : calls'[k] = calls[k]
        /\ calls'[m + 1] = call
    <3>1. calls \in Seq(OpenCall) /\ call \in OpenCall /\ calls' = Append(calls, call)
      BY <2>1, <2>2 DEF call
    <3> QED
      BY <3>1, AppendProperties
  <2>4. call.locals = c
    BY DEF call
  <2> QED
    BY <1>1, <2>3, <2>4, RecordsOfCalls
<1>5. /\ stack'[n + 1].locals \in Frames /\ calls'[m + 1].locals = stack'[n + 1].locals
      /\ stack'[n + 1].kind \in Roots => stack'[n + 1].base = m + 1
  BY <1>2, <1>4
<1> HIDE DEF n, m
<1>6. \A i \in 1 .. n : /\ stack'[i].kind = stack[i].kind /\ stack'[i].locals = stack[i].locals
                        /\ stack'[i].base = stack[i].base /\ i \in 1 .. n + 1 /\ i < n + 1
  BY <1>1, <1>2 DEF SameFrames
<1>7. \A i \in 1 .. n + 1 : i \in 1 .. n \/ i = n + 1
  BY <1>1
<1>8. \A r \in 1 .. n : stack[r].kind \in Roots => stack[r].base <= m
  BY <1>1, <1>3 DEF WalksAreBased
<1>9. WalksAreBased(stack', m + 1)
  <2>1. \A r \in DOMAIN stack' : stack'[r].kind \in Roots => stack'[r].base <= m + 1
    BY <1>1, <1>2, <1>5, <1>6, <1>7, <1>8
  <2>2. \A q, r \in DOMAIN stack' :
          (q < r /\ stack'[q].kind \in Roots /\ stack'[r].kind \in Roots) => stack'[q].base <= stack'[r].base
    BY <1>1, <1>2, <1>3, <1>5, <1>6, <1>7, <1>8 DEF WalksAreBased
  <2>3. \A i \in DOMAIN stack' : stack'[i].kind \in {"applied", "body"} => stack'[i].locals \in Frames
    BY <1>1, <1>2, <1>3, <1>5, <1>6, <1>7 DEF WalksAreBased
  <2> QED
    BY <2>1, <2>2, <2>3 DEF WalksAreBased
<1>10. /\ RunningIn(stack') = RunningIn(stack) \cup {n + 1} /\ RunningIn(stack) \subseteq 1 .. n
      /\ \A i \in RunningIn(stack) : at[i] \in 1 .. m
  BY <1>1, <1>2, <1>3, <1>5, <1>6, <1>7, FramesAssumption DEF RunningIn, RecordedAt
<1> DEFINE there == [i \in RunningIn(stack') |-> IF i = n + 1 THEN m + 1 ELSE at[i]]
<1>11. \A i \in RunningIn(stack) : there[i] = at[i] /\ i \in 1 .. n /\ i # n + 1
  BY <1>1, <1>10
<1>12. there[n + 1] = m + 1
  BY <1>10
<1>13. there \in [RunningIn(stack') -> DOMAIN calls']
  BY <1>1, <1>4, <1>10, <1>11, <1>12
<1> HIDE DEF there
<1>14. ASSUME NEW i \in RunningIn(stack') PROVE calls'[there[i]].locals = stack'[i].locals
  <2>1. CASE i = n + 1
    BY <1>5, <1>12, <2>1
  <2>2. CASE i \in RunningIn(stack)
    <3>1. there[i] = at[i] /\ at[i] \in 1 .. m /\ i \in 1 .. n
      BY <1>10, <1>11, <2>2
    <3>2. calls'[at[i]] = calls[at[i]] /\ calls[at[i]].locals = stack[i].locals
      BY <1>3, <1>4, <2>2, <3>1 DEF RecordedAt
    <3> QED
      BY <1>6, <3>1, <3>2
  <2> QED
    BY <1>10, <2>1, <2>2
<1>15. ASSUME NEW i \in RunningIn(stack'), NEW j \in RunningIn(stack'), i < j PROVE there[i] < there[j]
  <2>1. i \in RunningIn(stack)
    BY <1>1, <1>10, <1>15
  <2>2. CASE j = n + 1
    BY <1>1, <1>10, <1>11, <1>12, <2>1, <2>2
  <2>3. CASE j \in RunningIn(stack)
    BY <1>3, <1>11, <1>15, <2>1, <2>3 DEF RecordedAt
  <2> QED
    BY <1>10, <2>2, <2>3
<1>16. ASSUME NEW i \in RunningIn(stack'), NEW r \in DOMAIN stack', stack'[r].kind \in Roots
       PROVE  IF i > r THEN there[i] > stack'[r].base ELSE there[i] <= stack'[r].base
  <2>1. CASE r = n + 1
    <3>1. stack'[r].base = m + 1
      BY <1>5, <1>16, <2>1
    <3>2. i \in 1 .. n + 1 /\ (i = n + 1 \/ i \in RunningIn(stack))
      BY <1>1, <1>10
    <3>3. there[i] <= m + 1
      BY <1>1, <1>10, <1>11, <1>12, <3>2
    <3> QED
      BY <1>1, <2>1, <3>1, <3>2, <3>3
  <2>2. CASE r \in 1 .. n
    <3>1. /\ stack[r].kind \in Roots /\ stack'[r].base = stack[r].base
          /\ stack[r].base <= m /\ stack[r].base \in Nat
      BY <1>1, <1>6, <1>8, <1>16, <2>2
    <3>2. CASE i = n + 1
      BY <1>1, <1>12, <2>2, <3>1, <3>2
    <3>3. CASE i \in RunningIn(stack)
      BY <1>1, <1>3, <1>11, <2>2, <3>1, <3>3 DEF RecordedAt
    <3> QED
      BY <1>10, <3>2, <3>3
  <2> QED
    BY <1>2, <1>7, <2>1, <2>2
<1>17. RecordedAt(there, stack', calls')
  BY <1>13, <1>14, <1>15, <1>16 DEF RecordedAt
<1> QED
  BY <1>4, <1>9, <1>17 DEF CallsAreKept, m

\* A frame pushed on a stack none of which is on its way out is not either.
LEMMA PushingLeavesNoWalk ==
  ASSUME stack \in Seq(Entry), LeavingIsInnermost(stack),
         stack # <<>> => Top.doing \in {"step", "deliver"},
         NEW s \in Seq(Entry), Len(s) = Len(stack),
         \A i \in 1 .. Len(stack) : s[i].doing = "leaving" => stack[i].doing = "leaving",
         NEW e \in Entry, e.doing = "step", stack' = Append(s, e)
  PROVE  LeavingIsInnermost(stack')
<1> DEFINE n == Len(stack)
<1>1. /\ n \in Nat /\ DOMAIN stack = 1 .. n /\ DOMAIN stack' = 1 .. n + 1
      /\ \A i \in 1 .. n : stack'[i] = s[i]
      /\ stack'[n + 1].doing = "step"
  BY StacksOfEntries, PushedIs
<1>2. \A i \in 1 .. n : stack[i].doing # "leaving"
  <2> SUFFICES ASSUME NEW i \in 1 .. n, stack[i].doing = "leaving" PROVE FALSE
    OBVIOUS
  <2>1. i = n
    BY <1>1 DEF LeavingIsInnermost
  <2>2. stack # <<>>
    BY <1>1, EmptySeq
  <2> QED
    BY <2>1, <2>2 DEF Top
<1>3. \A i \in 1 .. n + 1 : i \in 1 .. n \/ i = n + 1
  BY <1>1
<1>4. \A i \in DOMAIN stack' : stack'[i].doing # "leaving"
  BY <1>1, <1>2, <1>3
<1> QED
  BY <1>4 DEF LeavingIsInnermost

\* The innermost call ends with the innermost frame, which is its own.
LEMMA EndingIs ==
  ASSUME RecordInv, EndInnermostCall
  PROVE  /\ calls' \in Seq(OpenCall) /\ Len(calls) \in Nat \ {0}
         /\ Len(calls') = Len(calls) - 1
         /\ \A k \in 1 .. Len(calls') : calls'[k] = calls[k]
<1> DEFINE m == Len(calls)
<1>1. calls \in Seq(OpenCall) /\ calls # <<>> /\ calls' = SubSeq(calls, 1, m - 1)
  BY DEF RecordInv, TypeOK, EndInnermostCall
<1>2. /\ m \in Nat \ {0} /\ \A k \in 1 .. m - 1 : calls[k] \in OpenCall
  BY <1>1, RecordsOfCalls
<1> HIDE DEF m
<1>3. calls' \in Seq(OpenCall) /\ Len(calls') = m - 1 /\ \A k \in 1 .. m - 1 : calls'[k] = calls[k]
  BY <1>1, <1>2, SubSeqProperties
<1> QED
  BY <1>2, <1>3 DEF m

LEMMA EndingACall ==
  ASSUME RecordInv, EndInnermostCall, stack # <<>>, Top.kind \in {"applied", "body"},
         NEW t \in Seq(Entry), Len(t) = Len(stack) - 1, SameFrames(t, stack, Len(t))
  PROVE  CallsAreKept(t, calls')
<1> DEFINE n == Len(stack)
           m == Len(calls)
<1>1. /\ stack \in Seq(Entry) /\ calls \in Seq(OpenCall)
      /\ n \in Nat \ {0} /\ DOMAIN stack = 1 .. n /\ n \in 1 .. n
      /\ \A r \in 1 .. n : stack[r].base \in Nat
  BY StacksOfEntries DEF RecordInv, TypeOK
<1>2. PICK at : WalksAreBased(stack, m) /\ RecordedAt(at, stack, calls)
  BY DEF RecordInv, CallsAreKept
<1>3. /\ calls' \in Seq(OpenCall) /\ m \in Nat \ {0} /\ Len(calls') = m - 1
      /\ DOMAIN calls = 1 .. m /\ \A k \in 1 .. Len(calls') : calls'[k] = calls[k]
  BY <1>1, EndingIs, RecordsOfCalls
<1>4. n \in RunningIn(stack)
  BY <1>1, <1>2, FramesAssumption DEF RunningIn, WalksAreBased, Top
<1>5. \A i \in RunningIn(stack) : at[i] \in 1 .. m /\ i \in 1 .. n
  BY <1>1, <1>2, <1>3 DEF RecordedAt, RunningIn
<1>6. \A i \in RunningIn(stack) : i <= Len(t) => at[i] <= Len(calls')
  <2> SUFFICES ASSUME NEW i \in RunningIn(stack), i <= Len(t)
               PROVE  at[i] <= Len(calls')
    OBVIOUS
  <2>1. i < n
    BY <1>1, <1>5
  <2>2. at[i] < at[n]
    BY <1>2, <1>4, <2>1 DEF RecordedAt
  <2> QED
    BY <1>3, <1>4, <1>5, <2>2
<1>7. \A r \in 1 .. Len(t) : stack[r].kind \in Roots => stack[r].base <= Len(calls')
  <2> SUFFICES ASSUME NEW r \in 1 .. Len(t), stack[r].kind \in Roots
               PROVE  stack[r].base <= Len(calls')
    OBVIOUS
  <2>1. r \in DOMAIN stack /\ n > r /\ stack[r].base \in Nat
    BY <1>1
  <2>2. at[n] > stack[r].base
    BY <1>2, <1>4, <2>1 DEF RecordedAt
  <2> QED
    BY <1>3, <1>4, <1>5, <2>1, <2>2
<1>8. Len(t) <= Len(stack) /\ Len(calls') <= Len(calls)
  BY <1>1, <1>3
<1> HIDE DEF n, m
<1>9. SparesWhatStays(at, stack, calls, t, calls')
  BY <1>3, <1>6, <1>7, <1>8 DEF SparesWhatStays
<1> QED
  BY <1>1, <1>2, <1>3, <1>9, DroppingKeepsTheRecord DEF m

(***************************************************************************)
(* Frames from the n-th on are dropped and the n-th is somewhere else in   *)
(* the walk loop.                                                          *)
(***************************************************************************)
LEMMA StackAfterACut ==
  ASSUME RecordInv, NEW n \in 1 .. Len(stack), NEW what \in Doings,
         stack' = TopDoing(Cut(n), what), what = "leaving" => stack[n].kind \in Roots
  PROVE  /\ stack' \in Seq(Entry) /\ Len(stack') = n /\ n <= Len(stack)
         /\ SameFrames(stack', stack, n)
         /\ LeavingIsInnermost(stack') /\ OutermostIsAWalk(stack')
<1>1. stack \in Seq(Entry) /\ Len(stack) \in Nat /\ n \in 0 .. Len(stack) /\ 1 \in 1 .. n
  BY StacksOfEntries DEF RecordInv, TypeOK
<1>2. /\ stack' \in Seq(Entry) /\ Len(stack') = n
      /\ SameFrames(stack', stack, n)
      /\ \A i \in 1 .. n : stack'[i].doing = IF i = n THEN what ELSE stack[i].doing
  BY <1>1, CutDoingIs
<1>3. LeavingIsInnermost(stack')
  <2>1. DOMAIN stack = 1 .. Len(stack) /\ DOMAIN stack' = 1 .. n /\ n \in Nat
    BY <1>1, <1>2
  <2>2. \A i \in DOMAIN stack : stack[i].doing = "leaving" => i = Len(stack)
    BY DEF RecordInv, LeavingIsInnermost
  <2>3. \A i \in DOMAIN stack' : stack'[i].doing = "leaving" => i = n /\ stack[n].kind \in Roots
    BY <1>1, <1>2, <2>1, <2>2 DEF RecordInv, LeavingIsInnermost
  <2>4. stack'[n].kind = stack[n].kind
    BY <1>1, <1>2 DEF SameFrames
  <2> QED
    BY <1>2, <2>3, <2>4 DEF LeavingIsInnermost
<1>4. stack # <<>>
  BY <1>1, EmptySeq
<1>5. OutermostIsAWalk(stack')
  BY <1>1, <1>2, <1>4 DEF OutermostIsAWalk, SameFrames, RecordInv
<1> QED
  BY <1>1, <1>2, <1>3, <1>5

LEMMA MovingOn ==
  ASSUME RecordInv, NEW n \in 1 .. Len(stack), NEW what \in Doings,
         stack' = TopDoing(Cut(n), what), what = "leaving" => stack[n].kind \in Roots,
         calls' = calls
  PROVE  CallsAreKept(stack', calls') /\ LeavingIsInnermost(stack') /\ OutermostIsAWalk(stack')
BY StackAfterACut, MovingOnKeepsTheRecord DEF RecordInv, TypeOK

LEMMA WholeStack ==
  ASSUME RecordInv, stack # <<>>
  PROVE  Cut(Len(stack)) = stack /\ Len(stack) \in 1 .. Len(stack) /\ Len(stack) \in Nat
<1>1. stack \in Seq(Entry) /\ Len(stack) \in Nat /\ Len(stack) \in 1 .. Len(stack)
  BY StacksOfEntries DEF RecordInv, TypeOK
<1>2. Cut(Len(stack)) \in Seq(Entry) /\ Len(Cut(Len(stack))) = Len(stack)
      /\ \A i \in 1 .. Len(stack) : Cut(Len(stack))[i] = stack[i]
  BY <1>1, CutIs
<1> QED
  BY <1>1, <1>2, SeqEqual

-----------------------------------------------------------------------------
(***************************************************************************)
(* Every step keeps the record.  What a step leaves of stack and calls:    *)
(***************************************************************************)
AreKept(s, cs) == CallsAreKept(s, cs) /\ LeavingIsInnermost(s) /\ OutermostIsAWalk(s)

LEMMA StartingKeeps ==
  ASSUME RecordInv, NEW kind \in {"walk", "next"}, StartWalk(kind)
  PROVE  AreKept(stack', calls')
<1> DEFINE e == Frame(kind, NoFrame, Len(calls))
<1>1. /\ stack \in Seq(Entry) /\ Len(stack) \in Nat /\ Len(calls) \in Nat
      /\ stack # <<>> => 1 \in 1 .. Len(stack)
  BY StacksOfEntries, RecordsOfCalls DEF RecordInv, TypeOK
<1>2. /\ e \in Entry /\ e.locals = NoFrame /\ e.kind = kind /\ e.base = Len(calls)
      /\ e.doing = "step" /\ kind \in Roots
  BY <1>1 DEF Frame, Entry, Roots
<1>3. stack' = Append(stack, e) /\ calls' = calls
  BY DEF StartWalk
<1> HIDE DEF e
<1>4. CallsAreKept(stack', calls')
  BY <1>1, <1>2, <1>3, PushingQuietly DEF SameFrames
<1>5. LeavingIsInnermost(stack')
  BY <1>1, <1>2, <1>3, PushingLeavesNoWalk DEF RecordInv, StartWalk, MayStart
<1>6. OutermostIsAWalk(stack')
  <2>1. CASE stack = <<>>
    BY <1>1, <1>2, <1>3, <2>1, PushedIs DEF OutermostIsAWalk
  <2>2. CASE stack # <<>>
    BY <1>1, <1>2, <1>3, <2>2, PushedIs DEF OutermostIsAWalk, RecordInv
  <2> QED
    BY <2>1, <2>2
<1> QED
  BY <1>4, <1>5, <1>6 DEF AreKept

LEMMA ApplyingKeeps ==
  ASSUME RecordInv, NEW f \in Functions, NEW c \in Frames, ApplyFunction(f, c)
  PROVE  AreKept(stack', calls')
<1> DEFINE e == Frame("applied", c, Len(calls) + 1)
<1>1. /\ stack \in Seq(Entry) /\ Len(stack) \in Nat /\ Len(calls) \in Nat
      /\ stack # <<>> => 1 \in 1 .. Len(stack)
  BY StacksOfEntries, RecordsOfCalls DEF RecordInv, TypeOK
<1>2. /\ e \in Entry /\ e.locals = c /\ e.kind = "applied" /\ e.base = Len(calls) + 1
      /\ e.doing = "step" /\ "applied" \in Roots
  BY <1>1 DEF Frame, Entry, Roots
<1>3. stack' = Append(stack, e) /\ RecordCall(f, c)
  BY DEF ApplyFunction
<1> HIDE DEF e
<1>4. CallsAreKept(stack', calls')
  BY <1>1, <1>2, <1>3, PushingAndRecording DEF SameFrames
<1>5. LeavingIsInnermost(stack')
  BY <1>1, <1>2, <1>3, PushingLeavesNoWalk DEF RecordInv, ApplyFunction, MayStart
<1>6. OutermostIsAWalk(stack')
  <2>1. CASE stack = <<>>
    BY <1>1, <1>2, <1>3, <2>1, PushedIs DEF OutermostIsAWalk
  <2>2. CASE stack # <<>>
    BY <1>1, <1>2, <1>3, <2>2, PushedIs DEF OutermostIsAWalk, RecordInv
  <2> QED
    BY <2>1, <2>2
<1> QED
  BY <1>4, <1>5, <1>6 DEF AreKept

\* A frame pushed during a step, over the frame whose step it is.
LEMMA SteppingOver ==
  ASSUME RecordInv, Stepping, NEW e \in Entry, e.doing = "step",
         stack' = Append(TopDoing(stack, "step"), e)
  PROVE  LET s == TopDoing(stack, "step")
         IN  /\ s \in Seq(Entry) /\ Len(s) = Len(stack) /\ SameFrames(s, stack, Len(stack))
             /\ LeavingIsInnermost(stack') /\ OutermostIsAWalk(stack')
<1> DEFINE s == TopDoing(stack, "step")
<1>1. /\ stack \in Seq(Entry) /\ Len(stack) \in Nat /\ stack # <<>> /\ 1 \in 1 .. Len(stack)
      /\ Top.doing \in {"step", "deliver"}
  BY StacksOfEntries DEF RecordInv, TypeOK, Stepping
<1>2. /\ s \in Seq(Entry) /\ Len(s) = Len(stack) /\ SameFrames(s, stack, Len(stack))
      /\ \A i \in 1 .. Len(stack) : s[i].doing = IF i = Len(stack) THEN "step" ELSE stack[i].doing
  BY <1>1, TopDoingIs DEF Doings
<1>3. stack' = Append(s, e)
  OBVIOUS
<1> HIDE DEF s
<1>4. \A i \in 1 .. Len(stack) : s[i].doing = "leaving" => stack[i].doing = "leaving"
  BY <1>2
<1>5. LeavingIsInnermost(stack')
  BY <1>1, <1>2, <1>3, <1>4, PushingLeavesNoWalk DEF RecordInv
<1>6. OutermostIsAWalk(stack')
  BY <1>1, <1>2, <1>3, PushedIs DEF OutermostIsAWalk, RecordInv, SameFrames
<1> QED
  BY <1>2, <1>5, <1>6 DEF s

LEMMA CallingKeeps ==
  ASSUME RecordInv, NEW f \in Functions, NEW c \in Frames, CallFunction(f, c)
  PROVE  AreKept(stack', calls')
<1> DEFINE e == Frame("body", c, 0)
           s == TopDoing(stack, "step")
<1>1. e \in Entry /\ e.locals = c /\ e.kind \notin Roots /\ e.doing = "step"
  BY DEF Frame, Entry, Roots
<1>2. stack' = Append(s, e) /\ RecordCall(f, c) /\ Stepping
  BY DEF CallFunction, MayPush
<1> HIDE DEF e
<1>3. /\ s \in Seq(Entry) /\ Len(s) = Len(stack) /\ SameFrames(s, stack, Len(stack))
      /\ LeavingIsInnermost(stack') /\ OutermostIsAWalk(stack')
  BY <1>1, <1>2, SteppingOver
<1> HIDE DEF s
<1>4. CallsAreKept(stack', calls')
  BY <1>1, <1>2, <1>3, PushingAndRecording
<1> QED
  BY <1>3, <1>4 DEF AreKept

LEMMA EnteringKeeps ==
  ASSUME RecordInv, EnterParen
  PROVE  AreKept(stack', calls')
<1> DEFINE e == Frame("paren", NoFrame, 0)
           s == TopDoing(stack, "step")
<1>1. /\ e \in Entry /\ e.locals = NoFrame /\ e.kind = "paren" /\ e.doing = "step"
      /\ "paren" \notin Roots
  BY DEF Frame, Entry, Roots
<1>2. stack' = Append(s, e) /\ calls' = calls /\ Stepping
  BY DEF EnterParen, MayPush
<1> HIDE DEF e
<1>3. /\ s \in Seq(Entry) /\ Len(s) = Len(stack) /\ SameFrames(s, stack, Len(stack))
      /\ LeavingIsInnermost(stack') /\ OutermostIsAWalk(stack')
  BY <1>1, <1>2, SteppingOver
<1> HIDE DEF s
<1>4. CallsAreKept(stack', calls')
  BY <1>1, <1>2, <1>3, PushingQuietly
<1> QED
  BY <1>3, <1>4 DEF AreKept

LEMMA LoopingKeeps ==
  ASSUME RecordInv, DeliverAsWritten \/ FinishDelivery \/ EndWalk
  PROVE  AreKept(stack', calls')
<1>1. stack # <<>> /\ calls' = calls
  BY DEF DeliverAsWritten, FinishDelivery, EndWalk, Stepping
<1>2. PICK what \in Doings : /\ stack' = TopDoing(stack, what)
                             /\ what = "leaving" => Top.kind \in Roots
  BY DEF DeliverAsWritten, FinishDelivery, EndWalk, Doings
<1>3. Cut(Len(stack)) = stack /\ Len(stack) \in 1 .. Len(stack)
  BY <1>1, WholeStack
<1> QED
  BY <1>1, <1>2, <1>3, MovingOn DEF AreKept, Top

LEMMA UnwindingKeeps ==
  ASSUME RecordInv, UnwindToFunction \/ AbandonWalk
  PROVE  AreKept(stack', calls')
<1>1. calls' = calls /\ DOMAIN stack = 1 .. Len(stack)
  BY StacksOfEntries DEF UnwindToFunction, AbandonWalk, RecordInv, TypeOK
<1>2. CASE UnwindToFunction
  <2>1. PICK b \in 1 .. Len(stack) : stack' = TopDoing(Cut(b), "stopped")
    BY <1>1, <1>2 DEF UnwindToFunction
  <2> QED
    BY <1>1, <2>1, MovingOn DEF AreKept, Doings
<1>3. CASE AbandonWalk
  <2>1. PICK r \in 1 .. Len(stack) : stack[r].kind \in Roots /\ stack' = TopDoing(Cut(r), "leaving")
    BY <1>1, <1>3 DEF AbandonWalk, InnermostRoot
  <2> QED
    BY <1>1, <2>1, MovingOn DEF AreKept, Doings
<1> QED
  BY <1>2, <1>3

\* The frame that ends is not the outermost, which is a walk.
LEMMA EndingAFrameCuts ==
  ASSUME RecordInv, EndFrame
  PROVE  Len(stack) - 1 \in 1 .. Len(stack)
<1>1. stack # <<>> /\ stack \in Seq(Entry) /\ Top.kind \notin Roots
  BY DEF RecordInv, TypeOK, EndFrame
<1>2. Len(stack) \in Nat \ {0}
  BY <1>1, StacksOfEntries
<1>3. Len(stack) # 1
  BY <1>1 DEF RecordInv, OutermostIsAWalk, Top
<1>4. \A k \in Nat \ {0} : k # 1 => k - 1 \in 1 .. k
  OBVIOUS
<1> QED
  BY <1>2, <1>3, <1>4

LEMMA EndingAFrameKeeps ==
  ASSUME RecordInv, EndFrame
  PROVE  AreKept(stack', calls')
<1> DEFINE n == Len(stack) - 1
<1>1. /\ stack # <<>> /\ stack \in Seq(Entry) /\ calls \in Seq(OpenCall)
      /\ stack' = TopDoing(Cut(n), "deliver") /\ Top.kind \notin Roots
  BY DEF RecordInv, TypeOK, EndFrame
<1>2. n \in 1 .. Len(stack)
  BY EndingAFrameCuts
<1> HIDE DEF n
<1>3. /\ stack' \in Seq(Entry) /\ Len(stack') = n /\ n <= Len(stack)
      /\ SameFrames(stack', stack, n)
      /\ LeavingIsInnermost(stack') /\ OutermostIsAWalk(stack')
  BY <1>1, <1>2, StackAfterACut DEF Doings
<1>4. CASE Top.kind = "body" /\ calls # <<>>
  <2>1. EndInnermostCall
    BY <1>4 DEF EndFrame
  <2>2. CallsAreKept(stack', calls')
    BY <1>1, <1>3, <1>4, <2>1, EndingACall DEF n
  <2> QED
    BY <1>3, <2>2 DEF AreKept
<1>5. CASE ~(Top.kind = "body" /\ calls # <<>>)
  <2>1. calls' = calls
    BY <1>5 DEF EndFrame
  <2>2. CallsAreKept(stack, calls)
    BY DEF RecordInv
  <2>3. CallsAreKept(stack', calls)
    BY <1>1, <1>3, <2>2, MovingOnKeepsTheRecord
  <2> QED
    BY <1>3, <2>1, <2>3 DEF AreKept
<1> QED
  BY <1>4, <1>5

LEMMA HandingBackKeeps ==
  ASSUME RecordInv, HandBackLeftOver
  PROVE  AreKept(stack', calls')
<1> DEFINE n == Len(stack)
           m == Len(calls)
<1>1. /\ stack # <<>> /\ stack' = stack /\ EndInnermostCall
      /\ Top.doing = "leaving" /\ m > Top.base
      /\ stack \in Seq(Entry) /\ calls \in Seq(OpenCall)
  BY DEF RecordInv, TypeOK, HandBackLeftOver, HandsBack
<1>2. /\ n \in Nat /\ n \in 1 .. n /\ DOMAIN stack = 1 .. n
      /\ \A r \in 1 .. n : stack[r].base \in Nat
  BY <1>1, StacksOfEntries
<1>3. /\ calls' \in Seq(OpenCall) /\ m \in Nat \ {0} /\ Len(calls') = m - 1
      /\ DOMAIN calls = 1 .. m /\ \A k \in 1 .. Len(calls') : calls'[k] = calls[k]
  BY <1>1, EndingIs, RecordsOfCalls
<1>4. PICK at : WalksAreBased(stack, m) /\ RecordedAt(at, stack, calls)
  BY DEF RecordInv, CallsAreKept
<1>5. stack[n].kind \in Roots /\ stack[n].base <= Len(calls')
  BY <1>1, <1>2, <1>3 DEF RecordInv, LeavingIsInnermost, Top
<1>6. \A i \in RunningIn(stack) : i \in 1 .. n /\ at[i] \in 1 .. m
  BY <1>2, <1>3, <1>4 DEF RunningIn, RecordedAt
<1>7. \A i \in RunningIn(stack) : at[i] <= Len(calls')
  <2> SUFFICES ASSUME NEW i \in RunningIn(stack)
               PROVE  at[i] <= Len(calls')
    OBVIOUS
  <2>1. ~(i > n)
    BY <1>2, <1>6
  <2>2. at[i] <= stack[n].base
    BY <1>2, <1>4, <1>5, <2>1 DEF RecordedAt
  <2> QED
    BY <1>2, <1>3, <1>5, <1>6, <2>2
<1>8. \A r \in 1 .. n : stack[r].kind \in Roots => stack[r].base <= Len(calls')
  <2> SUFFICES ASSUME NEW r \in 1 .. n, stack[r].kind \in Roots
               PROVE  stack[r].base <= Len(calls')
    OBVIOUS
  <2>1. stack[r].base <= stack[n].base
    BY <1>2, <1>4, <1>5 DEF WalksAreBased
  <2> QED
    BY <1>2, <1>3, <1>5, <2>1
<1>9. /\ stack' \in Seq(Entry) /\ Len(stack') <= Len(stack) /\ Len(stack') = n
      /\ SameFrames(stack', stack, Len(stack')) /\ Len(calls') <= Len(calls)
  BY <1>1, <1>2, <1>3 DEF SameFrames
<1> HIDE DEF n, m
<1>10. SparesWhatStays(at, stack, calls, stack', calls')
  BY <1>3, <1>7, <1>8, <1>9 DEF SparesWhatStays
<1>11. CallsAreKept(stack', calls')
  BY <1>1, <1>3, <1>4, <1>9, <1>10, DroppingKeepsTheRecord DEF m
<1> QED
  BY <1>1, <1>11 DEF AreKept, RecordInv

LEMMA FinishingKeeps ==
  ASSUME RecordInv, FinishWalk
  PROVE  AreKept(stack', calls')
<1> DEFINE n == Len(stack) - 1
<1>1. /\ stack # <<>> /\ stack \in Seq(Entry) /\ calls \in Seq(OpenCall)
      /\ stack' = Cut(n)
  BY DEF RecordInv, TypeOK, FinishWalk
<1>2. /\ Len(stack) \in Nat \ {0} /\ n \in 0 .. Len(stack) /\ n < Len(stack)
      /\ DOMAIN stack = 1 .. Len(stack)
  BY <1>1, StacksOfEntries
<1> HIDE DEF n
<1>3. /\ stack' \in Seq(Entry) /\ Len(stack') = n /\ n <= Len(stack)
      /\ \A i \in 1 .. n : stack'[i] = stack[i]
  <2>1. /\ Cut(n) \in Seq(Entry) /\ Len(Cut(n)) = n
        /\ \A i \in 1 .. n : Cut(n)[i] = stack[i]
    BY <1>1, <1>2, CutIs
  <2> QED
    BY <1>1, <1>2, <2>1
<1>4. SameFrames(stack', stack, n) /\ DOMAIN stack' = 1 .. n
  BY <1>3, StacksOfEntries DEF SameFrames
<1>5. LeavingIsInnermost(stack')
  BY <1>2, <1>3, <1>4 DEF RecordInv, LeavingIsInnermost
<1>6. OutermostIsAWalk(stack')
  <2> SUFFICES ASSUME stack' # <<>>
               PROVE  stack'[1].kind \in Roots
    BY DEF OutermostIsAWalk
  <2>1. 1 \in 1 .. n
    BY <1>2, <1>3, EmptySeq
  <2> QED
    BY <1>1, <1>3, <2>1 DEF RecordInv, OutermostIsAWalk
<1>7. CASE Top.kind = "applied"
  <2>1. EndInnermostCall
    BY <1>7 DEF FinishWalk
  <2>2. CallsAreKept(stack', calls')
    BY <1>1, <1>3, <1>4, <1>7, <2>1, EndingACall DEF n
  <2> QED
    BY <1>5, <1>6, <2>2 DEF AreKept
<1>8. CASE Top.kind # "applied"
  <2>1. calls' = calls
    BY <1>8 DEF FinishWalk
  <2>2. CallsAreKept(stack, calls)
    BY DEF RecordInv
  <2>3. CallsAreKept(stack', calls)
    BY <1>1, <1>3, <1>4, <2>2, MovingOnKeepsTheRecord
  <2> QED
    BY <1>5, <1>6, <2>1, <2>3 DEF AreKept
<1> QED
  BY <1>7, <1>8

LEMMA RecordInvariant == Spec => []RecordInv
<1>1. Init => RecordInv
  <2> SUFFICES ASSUME Init
               PROVE  RecordInv
    OBVIOUS
  <2>1. /\ stack = <<>> /\ calls = <<>> /\ DOMAIN stack = {} /\ Len(calls) = 0
        /\ <<>> \in Seq(Entry) /\ <<>> \in Seq(OpenCall)
    BY EmptySeq DEF Init
  <2>2. TypeOK
    BY <2>1 DEF Init, TypeOK, Signals, Outcomes
  <2>3. RunningIn(stack) = {} /\ WalksAreBased(stack, Len(calls))
    BY <2>1 DEF RunningIn, WalksAreBased
  <2>4. RecordedAt([i \in {} |-> 0], stack, calls)
    BY <2>1, <2>3 DEF RecordedAt
  <2>5. CallsAreKept(stack, calls)
    BY <2>3, <2>4 DEF CallsAreKept
  <2> QED
    BY <2>1, <2>2, <2>5 DEF RecordInv, LeavingIsInnermost, OutermostIsAWalk
<1>2. RecordInv /\ TypeOK' /\ [Next]_vars => RecordInv'
  <2> SUFFICES ASSUME RecordInv, TypeOK', [Next]_vars
               PROVE  AreKept(stack', calls')
    BY DEF RecordInv, AreKept
  <2>1. CASE UNCHANGED <<stack, calls>>
    BY <2>1 DEF RecordInv, AreKept
  <2>2. ASSUME NEW kind \in {"walk", "next"}, StartWalk(kind)
        PROVE  AreKept(stack', calls')
    BY <2>2, StartingKeeps
  <2>3. ASSUME NEW f \in Functions, NEW c \in Frames, ApplyFunction(f, c)
        PROVE  AreKept(stack', calls')
    BY <2>3, ApplyingKeeps
  <2>4. ASSUME NEW f \in Functions, NEW c \in Frames, CallFunction(f, c)
        PROVE  AreKept(stack', calls')
    BY <2>4, CallingKeeps
  <2>5. CASE EnterParen
    BY <2>5, EnteringKeeps
  <2>6. CASE DeliverAsWritten \/ FinishDelivery \/ EndWalk
    BY <2>6, LoopingKeeps
  <2>7. CASE EndFrame
    BY <2>7, EndingAFrameKeeps
  <2>8. CASE \E s \in Thrown : Throw(s)
    BY <2>1, <2>8 DEF Throw
  <2>9. CASE UnwindToFunction \/ AbandonWalk
    BY <2>9, UnwindingKeeps
  <2>10. CASE HandBackLeftOver
    BY <2>10, HandingBackKeeps
  <2>11. CASE FinishWalk
    BY <2>11, FinishingKeeps
  <2>12. CASE UNCHANGED vars
    BY <2>1, <2>12 DEF vars
  <2> QED
    BY <2>2, <2>3, <2>4, <2>5, <2>6, <2>7, <2>8, <2>9, <2>10, <2>11, <2>12 DEF Next, Unwinding
<1> QED
  BY <1>1, <1>2, TypeCorrect, PTL DEF Spec

(***************************************************************************)
(* Every call that is running is on the record, in order, whatever was     *)
(* unwound (functionsBeingRun).                                            *)
(***************************************************************************)
THEOREM RunningCallsStayRecorded == Spec => []RunningCallsAreRecorded
<1>1. RecordInv => RunningCallsAreRecorded
  BY DEF RecordInv, CallsAreKept, RecordedAt, RunningCallsAreRecorded
<1> QED
  BY <1>1, RecordInvariant, PTL

-----------------------------------------------------------------------------
(***************************************************************************)
(* What was open when a walk began.                                        *)
(***************************************************************************)
LEMMA PrefixStays ==
  ASSUME NEW s \in Seq(OpenCall), NEW t \in Seq(OpenCall), NEW b \in Nat,
         b <= Len(s), b <= Len(t), \A k \in 1 .. b : t[k] = s[k]
  PROVE  Len(t) >= b /\ SubSeq(t, 1, b) = SubSeq(s, 1, b)
<1>1. Len(s) \in Nat /\ Len(t) \in Nat
  OBVIOUS
<1>2. \A k \in 1 .. b : s[k] \in OpenCall /\ t[k] \in OpenCall
  BY <1>1
<1>3. /\ SubSeq(s, 1, b) \in Seq(OpenCall) /\ Len(SubSeq(s, 1, b)) = b
      /\ SubSeq(t, 1, b) \in Seq(OpenCall) /\ Len(SubSeq(t, 1, b)) = b
      /\ \A k \in 1 .. b : SubSeq(s, 1, b)[k] = s[k] /\ SubSeq(t, 1, b)[k] = t[k]
  BY <1>1, <1>2
<1> QED
  BY <1>1, <1>3, SeqEqual

\* A step ends no call that was open when a walk on the stack began.
LEMMA EndingSparesTheEnclosing ==
  ASSUME RecordInv, EndInnermostCall, NEW i \in DOMAIN stack, stack[i].kind \in Roots,
         stack[i].base < Len(calls)
  PROVE  /\ Len(calls') >= stack[i].base
         /\ SubSeq(calls', 1, stack[i].base) = SubSeq(calls, 1, stack[i].base)
<1> DEFINE b == stack[i].base
<1>1. b \in Nat /\ calls \in Seq(OpenCall)
  BY StacksOfEntries DEF RecordInv, TypeOK
<1>2. /\ calls' \in Seq(OpenCall) /\ Len(calls) \in Nat \ {0} /\ Len(calls') = Len(calls) - 1
      /\ \A k \in 1 .. Len(calls') : calls'[k] = calls[k]
  BY EndingIs
<1> HIDE DEF b
<1>3. b < Len(calls)
  BY DEF b
<1>4. b <= Len(calls) /\ b <= Len(calls') /\ \A k \in 1 .. b : calls'[k] = calls[k]
  BY <1>1, <1>2, <1>3
<1> QED
  BY <1>1, <1>2, <1>4, PrefixStays DEF b

\* A call recorded is recorded above the others.
LEMMA RecordingSparesTheEnclosing ==
  ASSUME RecordInv, NEW f \in Functions, NEW c \in Frames, RecordCall(f, c),
         NEW i \in DOMAIN stack, stack[i].kind \in Roots
  PROVE  /\ Len(calls') >= stack[i].base
         /\ SubSeq(calls', 1, stack[i].base) = SubSeq(calls, 1, stack[i].base)
<1> DEFINE b == stack[i].base
           call == [fn |-> f, locals |-> c]
<1>1. /\ b \in Nat /\ calls \in Seq(OpenCall) /\ Len(calls) \in Nat /\ b <= Len(calls)
  BY StacksOfEntries, RecordsOfCalls DEF RecordInv, TypeOK, CallsAreKept, WalksAreBased
<1>2. call \in OpenCall /\ calls' = Append(calls, call)
  BY DEF OpenCall, RecordCall
<1> HIDE DEF b, call
<1>3. /\ calls' \in Seq(OpenCall) /\ Len(calls') = Len(calls) + 1
      /\ \A k \in 1 .. Len(calls) : calls'[k] = calls[k]
  BY <1>1, <1>2, AppendProperties
<1>4. b <= Len(calls') /\ \A k \in 1 .. b : calls'[k] = calls[k]
  BY <1>1, <1>3
<1> QED
  BY <1>1, <1>3, <1>4, PrefixStays DEF b

\* The innermost frame of a function is a call made since its walk began.
LEMMA InnermostCallIsTheWalks ==
  ASSUME RecordInv, stack # <<>>, Top.kind \in {"applied", "body"},
         NEW i \in DOMAIN stack, stack[i].kind \in Roots, i < Len(stack)
  PROVE  stack[i].base < Len(calls)
<1> DEFINE n == Len(stack)
<1>1. /\ stack \in Seq(Entry) /\ n \in Nat /\ DOMAIN stack = 1 .. n /\ n \in 1 .. n
      /\ stack[i].base \in Nat
  BY StacksOfEntries DEF RecordInv, TypeOK
<1>2. PICK at : WalksAreBased(stack, Len(calls)) /\ RecordedAt(at, stack, calls)
  BY DEF RecordInv, CallsAreKept
<1>3. n \in RunningIn(stack)
  BY <1>1, <1>2, FramesAssumption DEF RunningIn, WalksAreBased, Top
<1>4. Len(calls) \in Nat /\ at[n] \in 1 .. Len(calls)
  BY <1>2, <1>3, RecordsOfCalls DEF RecordInv, TypeOK, RecordedAt
<1>5. at[n] > stack[i].base
  BY <1>2, <1>3 DEF RecordedAt
<1> HIDE DEF n
<1> QED
  BY <1>1, <1>4, <1>5

(***************************************************************************)
(* No walk ends a call that was open before it began                       *)
(* (callsOpenBeforeWalk).                                                  *)
(***************************************************************************)
THEOREM WalksEndTheirOwnCallsOnly == Spec => EnclosingCallsSurviveAWalk
<1> DEFINE Survive(i) ==
             /\ Len(calls') >= stack[i].base
             /\ SubSeq(calls', 1, stack[i].base) = SubSeq(calls, 1, stack[i].base)
           Surviving ==
             \A i \in DOMAIN stack \cap DOMAIN stack' :
               stack[i].kind \in Roots /\ stack[i].doing # "leaving" => Survive(i)
<1>1. RecordInv /\ TypeOK' /\ [Next]_vars => Surviving
  <2> SUFFICES ASSUME RecordInv, TypeOK', [Next]_vars,
                      NEW i \in DOMAIN stack, i \in DOMAIN stack',
                      stack[i].kind \in Roots, stack[i].doing # "leaving"
               PROVE  Survive(i)
    OBVIOUS
  <2>1. ASSUME calls' = calls
        PROVE  Survive(i)
    <3>1. Len(calls) \in Nat /\ stack[i].base \in Nat /\ stack[i].base <= Len(calls)
      BY StacksOfEntries, RecordsOfCalls DEF RecordInv, TypeOK, CallsAreKept, WalksAreBased
    <3> QED
      BY <2>1, <3>1
  <2>2. ASSUME NEW f \in Functions, NEW c \in Frames, ApplyFunction(f, c) \/ CallFunction(f, c)
        PROVE  Survive(i)
    <3>1. RecordCall(f, c)
      BY <2>2 DEF ApplyFunction, CallFunction
    <3> QED
      BY <3>1, RecordingSparesTheEnclosing
  <2>3. stack \in Seq(Entry) /\ Len(stack) \in Nat /\ DOMAIN stack = 1 .. Len(stack)
    BY StacksOfEntries DEF RecordInv, TypeOK
  <2>4. CASE EndFrame
    <3>1. CASE Top.kind = "body" /\ calls # <<>>
      <4>1. EndInnermostCall /\ stack # <<>>
        BY <2>4, <3>1 DEF EndFrame
      <4>2. i < Len(stack)
        <5>1. Len(stack) \in DOMAIN stack /\ Top.kind \notin Roots
          BY <2>3, <2>4, StacksOfEntries DEF EndFrame
        <5> QED
          BY <2>3, <5>1 DEF Top
      <4> QED
        BY <3>1, <4>1, <4>2, InnermostCallIsTheWalks, EndingSparesTheEnclosing
    <3>2. CASE ~(Top.kind = "body" /\ calls # <<>>)
      BY <2>1, <2>4, <3>2 DEF EndFrame
    <3> QED
      BY <3>1, <3>2
  <2>5. CASE HandBackLeftOver
    <3>1. EndInnermostCall /\ stack # <<>> /\ Top.doing = "leaving" /\ Len(calls) > Top.base
      BY <2>5 DEF HandBackLeftOver, HandsBack
    <3>2. /\ Len(stack) \in DOMAIN stack /\ Top.kind \in Roots /\ i < Len(stack)
          /\ Top.base \in Nat /\ stack[i].base \in Nat /\ Len(calls) \in Nat
      BY <2>3, <3>1, StacksOfEntries, RecordsOfCalls DEF RecordInv, TypeOK, LeavingIsInnermost, Top
    <3>3. stack[i].base <= Top.base
      BY <2>3, <3>2 DEF RecordInv, CallsAreKept, WalksAreBased, Top
    <3>4. stack[i].base < Len(calls)
      BY <3>1, <3>2, <3>3
    <3> QED
      BY <3>1, <3>4, EndingSparesTheEnclosing
  <2>6. CASE FinishWalk
    <3>1. CASE Top.kind = "applied"
      <4>1. EndInnermostCall /\ stack # <<>> /\ Top.doing = "leaving"
        BY <2>6, <3>1 DEF FinishWalk
      <4>2. i < Len(stack)
        BY <2>3, <4>1 DEF Top
      <4> QED
        BY <3>1, <4>1, <4>2, InnermostCallIsTheWalks, EndingSparesTheEnclosing
    <3>2. CASE Top.kind # "applied"
      BY <2>1, <2>6, <3>2 DEF FinishWalk
    <3> QED
      BY <3>1, <3>2
  <2>7. CASE \/ \E kind \in {"walk", "next"} : StartWalk(kind)
             \/ EnterParen \/ DeliverAsWritten \/ FinishDelivery \/ EndWalk
             \/ \E s \in Thrown : Throw(s)
             \/ UnwindToFunction \/ AbandonWalk \/ UNCHANGED vars
    BY <2>1, <2>7 DEF StartWalk, EnterParen, DeliverAsWritten, FinishDelivery, EndWalk, Throw,
                      UnwindToFunction, AbandonWalk, vars
  <2> QED
    BY <2>2, <2>4, <2>5, <2>6, <2>7 DEF Next, Unwinding
<1>2. RecordInv /\ TypeOK' /\ [Next]_vars => [Surviving]_vars
  BY <1>1
<1>3. Spec => [][Surviving]_vars
  BY <1>2, RecordInvariant, TypeCorrect, PTL DEF Spec
<1> QED
  BY <1>3 DEF EnclosingCallsSurviveAWalk

-----------------------------------------------------------------------------
(***************************************************************************)
(* A host that runs whole sources and applies functions, and takes no      *)
(* source one value at a time.  Its walk begins with nothing open but the  *)
(* function it applies.                                                    *)
(***************************************************************************)
WholeRun(kind, base) == (kind = "walk" /\ base = 0) \/ (kind = "applied" /\ base = 1)

RestInv ==
  /\ stack = <<>> => calls = <<>>
  /\ stack # <<>> => WholeRun(stack[1].kind, stack[1].base)
  /\ outcome # "escaped"

\* Only the end of the outermost walk takes the outermost frame away.
LEMMA OutermostStays ==
  ASSUME RecordInv, [Next]_vars, stack # <<>>, ~(FinishWalk /\ Len(stack) = 1)
  PROVE  stack' # <<>> /\ stack'[1].kind = stack[1].kind /\ stack'[1].base = stack[1].base
<1>1. stack \in Seq(Entry) /\ Len(stack) \in Nat \ {0} /\ DOMAIN stack = 1 .. Len(stack)
  BY StacksOfEntries DEF RecordInv, TypeOK
<1>2. ASSUME NEW s \in Seq(Entry), Len(s) = Len(stack), SameFrames(s, stack, Len(stack)),
             NEW e \in Entry, stack' = Append(s, e)
      PROVE  stack' # <<>> /\ stack'[1].kind = stack[1].kind /\ stack'[1].base = stack[1].base
  BY <1>1, <1>2, PushedIs, EmptySeq DEF SameFrames
<1>3. ASSUME NEW n \in 1 .. Len(stack), NEW what \in Doings, stack' = TopDoing(Cut(n), what)
      PROVE  stack' # <<>> /\ stack'[1].kind = stack[1].kind /\ stack'[1].base = stack[1].base
  <2>1. stack' \in Seq(Entry) /\ Len(stack') = n /\ SameFrames(stack', stack, n)
    BY <1>1, <1>3, CutDoingIs
  <2> QED
    BY <1>1, <2>1, EmptySeq DEF SameFrames
<1>4. ASSUME NEW kind \in {"walk", "next"}, StartWalk(kind)
      PROVE  stack' # <<>> /\ stack'[1].kind = stack[1].kind /\ stack'[1].base = stack[1].base
  <2>1. Frame(kind, NoFrame, Len(calls)) \in Entry
    BY RecordsOfCalls DEF RecordInv, TypeOK, Frame, Entry, Roots
  <2> QED
    BY <1>1, <1>2, <1>4, <2>1 DEF StartWalk, SameFrames
<1>5. ASSUME NEW f \in Functions, NEW c \in Frames, ApplyFunction(f, c)
      PROVE  stack' # <<>> /\ stack'[1].kind = stack[1].kind /\ stack'[1].base = stack[1].base
  <2>1. Frame("applied", c, Len(calls) + 1) \in Entry
    BY RecordsOfCalls DEF RecordInv, TypeOK, Frame, Entry, Roots
  <2> QED
    BY <1>1, <1>2, <1>5, <2>1 DEF ApplyFunction, SameFrames
<1>6. ASSUME (\E f \in Functions, c \in Frames : CallFunction(f, c)) \/ EnterParen
      PROVE  stack' # <<>> /\ stack'[1].kind = stack[1].kind /\ stack'[1].base = stack[1].base
  <2>1. PICK e \in Entry : e.doing = "step" /\ stack' = Append(TopDoing(stack, "step"), e)
    BY <1>6 DEF CallFunction, EnterParen, Frame, Entry, Roots
  <2>2. Stepping
    BY <1>6 DEF CallFunction, EnterParen, MayPush
  <2>3. /\ TopDoing(stack, "step") \in Seq(Entry) /\ Len(TopDoing(stack, "step")) = Len(stack)
        /\ SameFrames(TopDoing(stack, "step"), stack, Len(stack))
    BY <1>1, TopDoingIs DEF Doings
  <2> QED
    BY <1>2, <2>1, <2>3
<1>7. ASSUME DeliverAsWritten \/ FinishDelivery \/ EndWalk
      PROVE  stack' # <<>> /\ stack'[1].kind = stack[1].kind /\ stack'[1].base = stack[1].base
  <2>1. PICK what \in Doings : stack' = TopDoing(stack, what)
    BY <1>7 DEF DeliverAsWritten, FinishDelivery, EndWalk, Doings
  <2>2. Cut(Len(stack)) = stack /\ Len(stack) \in 1 .. Len(stack)
    BY WholeStack
  <2> QED
    BY <1>3, <2>1, <2>2
<1>8. ASSUME EndFrame
      PROVE  stack' # <<>> /\ stack'[1].kind = stack[1].kind /\ stack'[1].base = stack[1].base
  <2>1. Len(stack) - 1 \in 1 .. Len(stack) /\ stack' = TopDoing(Cut(Len(stack) - 1), "deliver")
    BY <1>8, EndingAFrameCuts DEF EndFrame
  <2> DEFINE n == Len(stack) - 1
  <2>2. n \in 1 .. Len(stack) /\ stack' = TopDoing(Cut(n), "deliver") /\ "deliver" \in Doings
    BY <2>1 DEF Doings
  <2> HIDE DEF n
  <2> QED
    BY <1>3, <2>2
<1>9. ASSUME UnwindToFunction \/ AbandonWalk
      PROVE  stack' # <<>> /\ stack'[1].kind = stack[1].kind /\ stack'[1].base = stack[1].base
  <2>1. PICK n \in 1 .. Len(stack), what \in Doings : stack' = TopDoing(Cut(n), what)
    BY <1>1, <1>9 DEF UnwindToFunction, AbandonWalk, InnermostRoot, Doings
  <2> QED
    BY <1>3, <2>1
<1>10. ASSUME UNCHANGED stack
       PROVE  stack' # <<>> /\ stack'[1].kind = stack[1].kind /\ stack'[1].base = stack[1].base
  BY <1>10
<1>11. ASSUME FinishWalk
       PROVE  stack' # <<>> /\ stack'[1].kind = stack[1].kind /\ stack'[1].base = stack[1].base
  <2> DEFINE n == Len(stack) - 1
  <2>1. n \in 0 .. Len(stack) /\ n # 0 /\ stack' = Cut(n)
    BY <1>1, <1>11 DEF FinishWalk
  <2> HIDE DEF n
  <2>2. stack' \in Seq(Entry) /\ Len(stack') = n /\ stack'[1] = stack[1]
    BY <1>1, <2>1, CutIs
  <2> QED
    BY <2>1, <2>2, EmptySeq
<1> QED
  BY <1>4, <1>5, <1>6, <1>7, <1>8, <1>9, <1>10, <1>11
     DEF Next, Unwinding, Throw, HandBackLeftOver, vars

LEMMA WholeRunsRest ==
  ASSUME ~HostSteps
  PROVE  Spec => []RestInv
<1>1. Init => RestInv
  BY DEF Init, RestInv
<1>2. RecordInv /\ TypeOK' /\ RestInv /\ [Next]_vars => RestInv'
  <2> SUFFICES ASSUME RecordInv, TypeOK', RestInv, [Next]_vars
               PROVE  RestInv'
    OBVIOUS
  <2>1. CASE FinishWalk /\ Len(stack) = 1
    <3>1. /\ stack # <<>> /\ stack \in Seq(Entry) /\ calls \in Seq(OpenCall)
          /\ WholeRun(Top.kind, Top.base) /\ ~HandsBack
      BY <2>1 DEF FinishWalk, RestInv, RecordInv, TypeOK, Top
    <3>2. stack' = <<>>
      <4>1. stack' = Cut(0) /\ 0 \in 0 .. Len(stack)
        BY <2>1 DEF FinishWalk
      <4>2. stack' \in Seq(Entry) /\ Len(stack') = 0
        BY <3>1, <4>1, CutIs
      <4> QED
        BY <4>2, EmptySeq
    <3>3. calls' = <<>>
      <4>1. Len(calls) \in Nat
        BY <3>1, RecordsOfCalls
      <4>2. CASE Top.kind = "applied"
        <5>1. EndInnermostCall /\ ~(Len(calls) > 1)
          BY <2>1, <3>1, <4>2 DEF FinishWalk, HandsBack, WholeRun
        <5>2. calls' \in Seq(OpenCall) /\ Len(calls) \in Nat \ {0} /\ Len(calls') = Len(calls) - 1
          BY <5>1, EndingIs
        <5>3. Len(calls') = 0
          BY <5>1, <5>2
        <5> QED
          BY <5>2, <5>3, EmptySeq
      <4>3. CASE Top.kind # "applied"
        <5>1. calls' = calls /\ ~(Len(calls) > 0)
          BY <2>1, <3>1, <4>3 DEF FinishWalk, HandsBack, WholeRun
        <5> QED
          BY <3>1, <4>1, <5>1, EmptySeq
      <4> QED
        BY <4>2, <4>3
    <3>4. outcome' # "escaped"
      <4>1. outcome' = Concluded(Top.kind) /\ Top.kind # "next"
        BY <2>1, <3>1 DEF FinishWalk, WholeRun
      <4> QED
        BY <4>1 DEF Concluded
    <3> QED
      BY <3>2, <3>3, <3>4 DEF RestInv
  <2>2. CASE stack # <<>> /\ ~(FinishWalk /\ Len(stack) = 1)
    <3>1. stack' # <<>> /\ stack'[1].kind = stack[1].kind /\ stack'[1].base = stack[1].base
      BY <2>2, OutermostStays
    <3>2. outcome' \in {outcome, "none"}
      BY <2>2 DEF Next, vars, Unwinding, StartWalk, ApplyFunction, CallFunction, EnterParen,
                  DeliverAsWritten, FinishDelivery, EndFrame, EndWalk, Throw, UnwindToFunction,
                  AbandonWalk, HandBackLeftOver, FinishWalk
    <3> QED
      BY <2>2, <3>1, <3>2 DEF RestInv
  <2>3. CASE stack = <<>>
    <3>1. calls = <<>> /\ Len(calls) = 0 /\ outcome # "escaped" /\ Len(stack) = 0
      BY <2>3 DEF RestInv
    <3>2. ASSUME NEW e \in Entry, WholeRun(e.kind, e.base), stack' = Append(stack, e), outcome' = "none"
          PROVE  RestInv'
      <4>1. stack' \in Seq(Entry) /\ Len(stack') = 1 /\ stack'[1] = e
        BY <2>3, <3>1, <3>2, PushedIs DEF RecordInv, TypeOK
      <4>2. Len(stack') # 0
        BY <4>1
      <4>3. stack' # <<>>
        BY <4>1, <4>2, EmptySeq
      <4> QED
        BY <3>2, <4>1, <4>3 DEF RestInv
    <3>3. ASSUME NEW kind \in {"walk", "next"}, StartWalk(kind)
          PROVE  RestInv'
      <4>1. kind = "walk" /\ Frame("walk", NoFrame, 0) \in Entry
        BY <2>3, <3>3 DEF StartWalk, Frame, Entry, Roots
      <4>2. stack' = Append(stack, Frame("walk", NoFrame, 0)) /\ outcome' = "none"
        BY <3>1, <3>3, <4>1 DEF StartWalk
      <4>3. WholeRun(Frame("walk", NoFrame, 0).kind, Frame("walk", NoFrame, 0).base)
        BY DEF WholeRun, Frame
      <4> QED
        BY <3>2, <4>1, <4>2, <4>3
    <3>4. ASSUME NEW f \in Functions, NEW c \in Frames, ApplyFunction(f, c)
          PROVE  RestInv'
      <4>1. Frame("applied", c, 1) \in Entry
        BY DEF Frame, Entry, Roots
      <4>2. stack' = Append(stack, Frame("applied", c, 1)) /\ outcome' = "none"
        BY <3>1, <3>4 DEF ApplyFunction
      <4>3. WholeRun(Frame("applied", c, 1).kind, Frame("applied", c, 1).base)
        BY DEF WholeRun, Frame
      <4> QED
        BY <3>2, <4>1, <4>2, <4>3
    <3>5. CASE UNCHANGED vars
      BY <2>3, <3>1, <3>5 DEF vars, RestInv
    <3> QED
      BY <2>3, <3>3, <3>4, <3>5 DEF Next, Unwinding, CallFunction, EnterParen, MayPush, Stepping,
           DeliverAsWritten, FinishDelivery, EndFrame, EndWalk, Throw, UnwindToFunction,
           AbandonWalk, HandBackLeftOver, FinishWalk
  <2> QED
    BY <2>1, <2>2, <2>3
<1> QED
  BY <1>1, <1>2, RecordInvariant, TypeCorrect, PTL DEF Spec

(***************************************************************************)
(* Between runs of whole sources no call is on the record and no function  *)
(* reads another frame than its own (the finally of walk).                 *)
(***************************************************************************)
THEOREM NothingStaysOpen ==
  ASSUME ~HostSteps
  PROVE  Spec => []NothingOpenAtRest
<1>1. TypeOK /\ RestInv /\ LinksFollowTheCalls => NothingOpenAtRest
  <2> SUFFICES ASSUME TypeOK, RestInv, LinksFollowTheCalls, stack = <<>>, NEW x \in Contexts
               PROVE  calls = <<>> /\ supersededBy[x] = NoFrame
    BY DEF NothingOpenAtRest, RestInv
  <2>1. calls = <<>> /\ DOMAIN calls = {}
    BY DEF RestInv
  <2>2. supersededBy[x] \notin Frames
    BY <2>1 DEF LinksFollowTheCalls, LinksMatch
  <2>3. supersededBy[x] \in Frames \cup {NoFrame}
    BY DEF TypeOK
  <2> QED
    BY <2>1, <2>2, <2>3
<1> QED
  BY <1>1, WholeRunsRest, TypeCorrect, LinksAlwaysFollow, PTL

(***************************************************************************)
(* A run of a whole source comes to an outcome whatever the script threw   *)
(* (runUnsignalled).                                                       *)
(***************************************************************************)
THEOREM NothingEscapes ==
  ASSUME ~HostSteps
  PROVE  Spec => []NothingEscapesAsAHostException
<1>1. RestInv => NothingEscapesAsAHostException
  BY DEF RestInv, NothingEscapesAsAHostException
<1> QED
  BY <1>1, WholeRunsRest, PTL
=============================================================================
