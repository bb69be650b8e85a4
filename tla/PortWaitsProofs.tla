---------------------------- MODULE PortWaitsProofs ----------------------------
(***************************************************************************)
(* What WAIT makes of what was posted, for any ports, any bounds and any   *)
(* depth of WAITs one within another.                                      *)
(***************************************************************************)
EXTENDS PortWaits, SequenceTheorems, TLAPS

Postings == [kind : Kinds, n : Nat]

\* Of each kind, what is handled comes before what is polled, and everything
\* posted is for one of the kind's targets.
PostboxOK ==
  /\ \A k \in Kinds : handled[k] <= polled[k] /\ polled[k] <= Len(posted[k])
  /\ \A k \in Kinds : \A n \in 1 .. Len(posted[k]) : posted[k][n] \in Targets(k)

\* The system port's queue holds what is polled and not handled, each kind
\* in the order posted.
QueueOK ==
  /\ \A i \in 1 .. Len(state) :
       /\ state[i].n \in handled[state[i].kind] + 1 .. polled[state[i].kind]
       /\ PortOf(state[i]) # Nameless
  /\ \A i, j \in 1 .. Len(state) :
       (i < j /\ state[i].kind = state[j].kind) => state[i].n < state[j].n
  /\ \A k \in Kinds : \A n \in handled[k] + 1 .. polled[k] :
       posted[k][n] # Nameless => \E i \in 1 .. Len(state) : state[i] = Posting(k, n)

\* A post a WAIT has in hand was handled, and can be.
PostOK(post, p, h) ==
  /\ post \in Postings
  /\ post.n \in 1 .. h[post.kind]
  /\ p[post.kind][post.n] \in Waitable

FrameOK(f, p, h) ==
  /\ f.at = "pausing" => f.left > 0
  /\ f.at = "handling" => PostOK(f.post, p, h)
  /\ f.at \in {"waking", "calling", "called"} => PostOK(f.post, p, h) /\ f.post.kind = "callback"

\* What a WAIT within another leaves that other in.
Nesting(f) == ~f.alone /\ f.at \in {"handling", "calling", "screen"}

InHand(f) == f.at \in {"waking", "calling"}

WaitsOK ==
  /\ \A i \in 1 .. Len(waits) : FrameOK(waits[i], posted, handled)
  /\ \A i \in 1 .. Len(waits) - 1 : Nesting(waits[i])
  /\ \A i, j \in 1 .. Len(waits) :
       (i # j /\ InHand(waits[i]) /\ InHand(waits[j])) => waits[i].post.n # waits[j].post.n

\* Some WAIT is about to call the callback of this number, or calling it.
Held(n, ws) == \E i \in 1 .. Len(ws) : InHand(ws[i]) /\ ws[i].post.n = n

AnswersOK ==
  /\ Len(answers) = Len(posted["callback"])
  /\ unanswered \subseteq 1 .. handled["callback"]
  /\ \A n \in unanswered : ~Held(n, waits)
  /\ \A n \in handled["callback"] + 1 .. Len(answers) : answers[n] = "awaited"

\* The wake list holds what the innermost WAIT has heard, but for ports it
\* does not wait on.
WakeListOK ==
  (waits # <<>> /\ Top.alone) =>
    data \subseteq Top.heard /\ Top.on \cap Top.heard \subseteq data

IInv ==
  /\ TypeOK /\ PostboxOK /\ QueueOK /\ WaitsOK /\ AnswersOK
  /\ EveryCallbackIsAnswered /\ WakeListOK

\* A step takes back nothing of what was posted or handled.
Growing ==
  /\ \A k \in Kinds : handled[k] \in Nat /\ handled'[k] \in Nat /\ handled[k] <= handled'[k]
  /\ \A k \in Kinds : \A n \in 1 .. Len(posted[k]) : posted'[k][n] = posted[k][n]

-----------------------------------------------------------------------------
(***************************************************************************)
(* The WAITs as a sequence.                                                *)
(***************************************************************************)
LEMMA LastReplaced ==
  ASSUME NEW S, NEW s \in Seq(S), s # <<>>, NEW e \in S
  PROVE  /\ [s EXCEPT ![Len(s)] = e] \in Seq(S)
         /\ Len([s EXCEPT ![Len(s)] = e]) = Len(s)
         /\ \A j \in 1 .. Len(s) :
              [s EXCEPT ![Len(s)] = e][j] = IF j = Len(s) THEN e ELSE s[j]
<1>1. Len(s) \in 1 .. Len(s)
  BY EmptySeq
<1> QED
  BY <1>1, ExceptSeq

LEMMA OneReplaced ==
  ASSUME NEW S, NEW s \in Seq(S), NEW i \in 1 .. Len(s), NEW e \in S,
         NEW t, t = [s EXCEPT ![i] = e]
  PROVE  /\ t \in Seq(S) /\ Len(t) = Len(s)
         /\ \A j \in 1 .. Len(s) : t[j] = IF j = i THEN e ELSE s[j]
BY ExceptSeq

LEMMA LastDropped ==
  ASSUME NEW S, NEW s \in Seq(S), s # <<>>
  PROVE  /\ Front(s) \in Seq(S) /\ Len(Front(s)) = Len(s) - 1
         /\ \A i \in 1 .. Len(s) - 1 : Front(s)[i] = s[i]
<1>1. Len(s) \in Nat \ {0}
  BY EmptySeq
<1>2. \A i \in 1 .. Len(s) - 1 : s[i] \in S
  BY <1>1, ElementOfSeq
<1> DEFINE n == Len(s) - 1
<1>3. n \in Int /\ 1 \in Int /\ \A i \in 1 .. n : s[i] \in S
  BY <1>1, <1>2
<1> HIDE DEF n
<1>4. /\ SubSeq(s, 1, n) \in Seq(S)
      /\ Len(SubSeq(s, 1, n)) = IF 1 <= n THEN n - 1 + 1 ELSE 0
      /\ \A i \in 1 .. n - 1 + 1 : SubSeq(s, 1, n)[i] = s[1 + i - 1]
  BY <1>3, SubSeqProperties
<1>5. n \in Nat /\ Len(SubSeq(s, 1, n)) = n /\ \A i \in 1 .. n : SubSeq(s, 1, n)[i] = s[i]
  <2>1. n \in Nat /\ n - 1 + 1 = n
    BY <1>1 DEF n
  <2>2. Len(SubSeq(s, 1, n)) = n
    BY <1>4, <2>1
  <2>3. ASSUME NEW i \in 1 .. n PROVE SubSeq(s, 1, n)[i] = s[i]
    <3>1. i \in 1 .. n - 1 + 1 /\ 1 + i - 1 = i
      BY <2>1
    <3> QED
      BY <1>4, <3>1
  <2> QED
    BY <2>1, <2>2, <2>3
<1>6. Front(s) = SubSeq(s, 1, n)
  BY DEF Front, n
<1> QED
  BY <1>4, <1>5, <1>6 DEF n

LEMMA TopIsAFrame ==
  ASSUME TypeOK, waits # <<>>
  PROVE  /\ waits \in Seq(Frames) /\ Len(waits) \in Nat \ {0} /\ DOMAIN waits = 1 .. Len(waits)
         /\ Top \in Frames /\ Top = waits[Len(waits)]
BY DEF TypeOK, Top, Last

LEMMA Becoming ==
  ASSUME TypeOK, waits # <<>>, NEW f \in Frames, Become(f)
  PROVE  /\ waits' \in Seq(Frames) /\ Len(waits') = Len(waits) /\ waits' # <<>>
         /\ Top' = f /\ waits'[Len(waits)] = f
         /\ \A i \in 1 .. Len(waits) - 1 : waits'[i] = waits[i]
<1>1. Len(waits) \in Nat \ {0} /\ waits \in Seq(Frames)
  BY TopIsAFrame
<1>2. /\ waits' \in Seq(Frames) /\ Len(waits') = Len(waits)
      /\ \A i \in 1 .. Len(waits) : waits'[i] = IF i = Len(waits) THEN f ELSE waits[i]
  BY <1>1, LastReplaced DEF Become
<1>3. waits' # <<>>
  BY <1>1, <1>2, EmptySeq
<1> QED
  BY <1>1, <1>2, <1>3 DEF Top, Last

LEMMA Ending ==
  ASSUME TypeOK, waits # <<>>, waits' = Front(waits)
  PROVE  /\ waits' \in Seq(Frames) /\ Len(waits') = Len(waits) - 1
         /\ \A i \in 1 .. Len(waits) - 1 : waits'[i] = waits[i]
BY TopIsAFrame, LastDropped

-----------------------------------------------------------------------------
(***************************************************************************)
(* What becomes of the innermost WAIT, and its end, keep the WAITs sound.  *)
(***************************************************************************)
LEMMA FramesStaySound ==
  ASSUME TypeOK, PostboxOK, Growing, NEW f, FrameOK(f, posted, handled)
  PROVE  FrameOK(f, posted', handled')
<1>1. ASSUME NEW post, PostOK(post, posted, handled)
      PROVE  PostOK(post, posted', handled')
  <2>1. post.kind \in Kinds /\ post.n \in 1 .. handled[post.kind]
    BY <1>1 DEF PostOK, Postings
  <2>2. post.n \in 1 .. Len(posted[post.kind])
    BY <2>1 DEF PostboxOK, TypeOK
  <2>3. post.n \in 1 .. handled'[post.kind]
    BY <2>1 DEF Growing
  <2> QED
    BY <1>1, <2>1, <2>2, <2>3 DEF PostOK, Growing
<1> QED
  BY <1>1 DEF FrameOK

LEMMA WaitsStaySound ==
  ASSUME TypeOK, PostboxOK, Growing, WaitsOK, UNCHANGED waits
  PROVE  WaitsOK'
BY FramesStaySound DEF WaitsOK

LEMMA BecomingIsSound ==
  ASSUME TypeOK, PostboxOK, Growing, WaitsOK, waits # <<>>, NEW f \in Frames, Become(f),
         FrameOK(f, posted', handled'),
         \A i \in 1 .. Len(waits) - 1 :
           (InHand(waits[i]) /\ InHand(f)) => waits[i].post.n # f.post.n
  PROVE  WaitsOK'
<1>1. Len(waits) \in Nat \ {0}
  BY TopIsAFrame
<1>2. /\ Len(waits') = Len(waits) /\ waits'[Len(waits)] = f
      /\ \A i \in 1 .. Len(waits) - 1 : waits'[i] = waits[i]
  BY Becoming
<1>3. \A i \in 1 .. Len(waits) - 1 : FrameOK(waits[i], posted', handled')
  BY <1>1, FramesStaySound DEF WaitsOK
<1>4. \A i \in 1 .. Len(waits') : FrameOK(waits'[i], posted', handled')
  BY <1>1, <1>2, <1>3
<1>5. \A i \in 1 .. Len(waits') - 1 : Nesting(waits'[i])
  BY <1>1, <1>2 DEF WaitsOK
<1>6. \A i, j \in 1 .. Len(waits') :
        (i # j /\ InHand(waits'[i]) /\ InHand(waits'[j])) => waits'[i].post.n # waits'[j].post.n
  BY <1>1, <1>2 DEF WaitsOK
<1> QED
  BY <1>4, <1>5, <1>6 DEF WaitsOK

LEMMA EndingIsSound ==
  ASSUME TypeOK, PostboxOK, Growing, WaitsOK, waits # <<>>, waits' = Front(waits)
  PROVE  WaitsOK' /\ (waits' # <<>> => ~Top'.alone)
<1>1. Len(waits) \in Nat \ {0}
  BY TopIsAFrame
<1>2. /\ Len(waits') = Len(waits) - 1 /\ waits' \in Seq(Frames)
      /\ \A i \in 1 .. Len(waits) - 1 : waits'[i] = waits[i]
  BY Ending
<1>3. \A i \in 1 .. Len(waits') : FrameOK(waits'[i], posted', handled')
  BY <1>1, <1>2, FramesStaySound DEF WaitsOK
<1>4. WaitsOK'
  BY <1>1, <1>2, <1>3 DEF WaitsOK
<1>5. ASSUME waits' # <<>> PROVE ~Top'.alone
  <2>1. Len(waits') \in 1 .. Len(waits) - 1
    BY <1>1, <1>2, <1>5, EmptySeq
  <2> QED
    BY <2>1, <1>2 DEF WaitsOK, Nesting, Top, Last
<1> QED
  BY <1>4, <1>5

-----------------------------------------------------------------------------
(***************************************************************************)
(* The callbacks held by the WAITs, as the WAITs change.                   *)
(***************************************************************************)
LEMMA AnsweredAsHeld ==
  ASSUME waits \in Seq(Frames)
  PROVE  EveryCallbackIsAnswered <=>
           \A n \in 1 .. handled["callback"] :
             answers[n] = "awaited" <=> (n \in unanswered \/ Held(n, waits))
<1>1. DOMAIN waits = 1 .. Len(waits)
  BY LenProperties
<1> QED
  BY <1>1 DEF EveryCallbackIsAnswered, Held, InHand

LEMMA AnsweredAsHeldNext ==
  ASSUME waits' \in Seq(Frames)
  PROVE  EveryCallbackIsAnswered' <=>
           \A n \in 1 .. handled'["callback"] :
             answers'[n] = "awaited" <=> (n \in unanswered' \/ Held(n, waits'))
<1>1. DOMAIN waits' = 1 .. Len(waits')
  BY LenProperties
<1> QED
  BY <1>1 DEF EveryCallbackIsAnswered, Held, InHand

LEMMA HeldOnBecoming ==
  ASSUME TypeOK, waits # <<>>, NEW f \in Frames, Become(f), NEW n
  PROVE  Held(n, waits') <=>
           \/ InHand(f) /\ f.post.n = n
           \/ \E i \in 1 .. Len(waits) - 1 : InHand(waits[i]) /\ waits[i].post.n = n
<1>1. Len(waits) \in Nat \ {0}
  BY TopIsAFrame
<1>2. /\ Len(waits') = Len(waits) /\ waits'[Len(waits)] = f
      /\ \A i \in 1 .. Len(waits) - 1 : waits'[i] = waits[i]
  BY Becoming
<1> QED
  BY <1>1, <1>2 DEF Held

LEMMA HeldWithTop ==
  ASSUME TypeOK, waits # <<>>, NEW n
  PROVE  Held(n, waits) <=>
           \/ InHand(Top) /\ Top.post.n = n
           \/ \E i \in 1 .. Len(waits) - 1 : InHand(waits[i]) /\ waits[i].post.n = n
BY TopIsAFrame DEF Held

LEMMA HeldOnEnding ==
  ASSUME TypeOK, waits # <<>>, waits' = Front(waits), NEW n
  PROVE  Held(n, waits') <=> \E i \in 1 .. Len(waits) - 1 : InHand(waits[i]) /\ waits[i].post.n = n
BY Ending DEF Held

-----------------------------------------------------------------------------
(***************************************************************************)
(* Steps that leave the postbox, the queue and the answers alone.          *)
(***************************************************************************)
postVars == <<posted, polled, state, handled>>

LEMMA QuietQueues ==
  ASSUME IInv, UNCHANGED postVars
  PROVE  PostboxOK' /\ QueueOK' /\ Growing
BY DEF IInv, TypeOK, postVars, PostboxOK, QueueOK, PortOf, Growing

LEMMA QuietBecoming ==
  ASSUME IInv, UNCHANGED <<postVars, answers, unanswered>>, waits # <<>>,
         NEW f \in Frames, Become(f), FrameOK(f, posted, handled),
         InHand(f) <=> InHand(Top), InHand(f) => f.post.n = Top.post.n,
         data' \subseteq Waitable, outcome' \in Waitable \cup {Nothing, "raised", "stopped"}
  PROVE  /\ TypeOK' /\ PostboxOK' /\ QueueOK' /\ WaitsOK' /\ AnswersOK'
         /\ EveryCallbackIsAnswered' /\ waits' # <<>> /\ Top' = f
<1>1. PostboxOK' /\ QueueOK' /\ Growing
  BY QuietQueues
<1>2. waits' \in Seq(Frames) /\ waits' # <<>> /\ Top' = f
  BY Becoming DEF IInv
<1>3. \A i \in 1 .. Len(waits) - 1 :
        (InHand(waits[i]) /\ InHand(f)) => waits[i].post.n # f.post.n
  BY TopIsAFrame DEF IInv, WaitsOK
<1>4. WaitsOK'
  BY <1>1, <1>3, BecomingIsSound DEF IInv, postVars
<1>5. \A n : Held(n, waits') <=> Held(n, waits)
  BY HeldOnBecoming, HeldWithTop DEF IInv
<1>6. EveryCallbackIsAnswered'
  BY <1>2, <1>5, AnsweredAsHeld, AnsweredAsHeldNext DEF IInv, TypeOK, postVars
<1>7. TypeOK'
  BY <1>2 DEF IInv, TypeOK, postVars
<1>8. AnswersOK'
  BY <1>5 DEF IInv, AnswersOK, postVars
<1> QED
  BY <1>1, <1>2, <1>4, <1>6, <1>7, <1>8

LEMMA QuietEnding ==
  ASSUME IInv, UNCHANGED <<postVars, answers, unanswered>>, waits # <<>>,
         waits' = Front(waits), ~InHand(Top),
         data' \subseteq Waitable, outcome' \in Waitable \cup {Nothing, "raised", "stopped"}
  PROVE  IInv'
<1>1. PostboxOK' /\ QueueOK' /\ Growing
  BY QuietQueues
<1>2. waits' \in Seq(Frames)
  BY Ending DEF IInv
<1>3. WaitsOK' /\ (waits' # <<>> => ~Top'.alone)
  BY <1>1, EndingIsSound DEF IInv
<1>4. \A n : Held(n, waits') <=> Held(n, waits)
  BY HeldOnEnding, HeldWithTop DEF IInv
<1>5. EveryCallbackIsAnswered'
  BY <1>2, <1>4, AnsweredAsHeld, AnsweredAsHeldNext DEF IInv, TypeOK, postVars
<1>6. TypeOK'
  BY <1>2 DEF IInv, TypeOK, postVars
<1>7. WakeListOK'
  BY <1>3 DEF WakeListOK
<1>8. AnswersOK'
  BY <1>4 DEF IInv, AnswersOK, postVars
<1> QED
  BY <1>1, <1>3, <1>5, <1>6, <1>7, <1>8 DEF IInv

-----------------------------------------------------------------------------
(***************************************************************************)
(* The steps of a WAIT that leave the postbox and the queue alone.         *)
(***************************************************************************)
LEMMA PlacesOfFrames ==
  ASSUME NEW f \in Frames
  PROVE  /\ f.on \subseteq Waitable /\ f.left \in 0 .. MaxSlices /\ f.at \in Places
         /\ f.seen \in Nat /\ f.heard \subseteq Waitable /\ f.alone \in BOOLEAN
         /\ f.post \in Postings \cup {Nothing}
BY DEF Frames, Postings

LEMMA TopIsOK ==
  ASSUME IInv, waits # <<>>
  PROVE  FrameOK(Top, posted, handled) /\ Top \in Frames
BY TopIsAFrame DEF IInv, WaitsOK

LEMMA WakeUpIsSound == IInv /\ WakeUp => IInv'
<1> SUFFICES ASSUME IInv, WakeUp PROVE IInv'
  OBVIOUS
<1>1. Top \in Frames /\ waits # <<>> /\ ~InHand(Top)
  BY TopIsOK DEF WakeUp, InAwake, InHand
<1>2. waits' = Front(waits) /\ outcome' \in Waitable /\ data' \subseteq Waitable
  BY <1>1, PlacesOfFrames DEF WakeUp, End
<1> QED
  BY <1>1, <1>2, QuietEnding DEF WakeUp, postVars

LEMMA KeepLookingIsSound == IInv /\ KeepLooking => IInv'
<1> SUFFICES ASSUME IInv, KeepLooking PROVE IInv'
  OBVIOUS
<1> DEFINE f == [Top EXCEPT !.seen = 0]
<1>1. Top \in Frames /\ waits # <<>> /\ Top.at = "awake" /\ Become(f)
  BY TopIsOK DEF KeepLooking, InAwake
<1>2. /\ f \in Frames /\ f.at = "awake" /\ f.alone = Top.alone /\ f.on = Top.on
      /\ f.heard = Top.heard
  BY <1>1 DEF Frames
<1>3. FrameOK(f, posted, handled) /\ ~InHand(f) /\ ~InHand(Top)
  BY <1>1, <1>2 DEF FrameOK, InHand
<1>4. UNCHANGED <<postVars, answers, unanswered, data, outcome>>
  BY DEF KeepLooking, postVars
<1> HIDE DEF f
<1>5. /\ TypeOK' /\ PostboxOK' /\ QueueOK' /\ WaitsOK' /\ AnswersOK'
      /\ EveryCallbackIsAnswered' /\ waits' # <<>> /\ Top' = f
  BY <1>1, <1>2, <1>3, <1>4, QuietBecoming DEF IInv, TypeOK
<1>6. WakeListOK'
  BY <1>1, <1>2, <1>4, <1>5 DEF IInv, WakeListOK
<1> QED
  BY <1>5, <1>6 DEF IInv

LEMMA NothingWokeIsSound == IInv /\ NothingWoke => IInv'
<1> SUFFICES ASSUME IInv, NothingWoke PROVE IInv'
  OBVIOUS
<1>1. Top \in Frames /\ waits # <<>> /\ Top.at = "awake" /\ Top.on \cap data = {} /\ data' = {}
  BY TopIsOK DEF NothingWoke, InAwake
<1>2. UNCHANGED <<postVars, answers, unanswered>>
  BY DEF NothingWoke, postVars
<1>3. CASE Top.left = 0
  <2>1. waits' = Front(waits) /\ outcome' = Nothing
    BY <1>3 DEF NothingWoke, End
  <2> QED
    BY <1>1, <1>2, <2>1, QuietEnding DEF InHand
<1>4. CASE Top.left # 0
  <2> DEFINE f == [Top EXCEPT !.at = "pausing"]
  <2>1. Become(f) /\ UNCHANGED outcome
    BY <1>4 DEF NothingWoke
  <2>2. /\ f \in Frames /\ f.at = "pausing" /\ f.alone = Top.alone /\ f.on = Top.on
        /\ f.heard = Top.heard /\ f.left = Top.left /\ Top.left \in Nat
    BY <1>1, WaitsAssumption DEF Frames, Places, WaitsAssumption
  <2>3. FrameOK(f, posted, handled) /\ ~InHand(f) /\ ~InHand(Top)
    BY <1>1, <1>4, <2>2 DEF FrameOK, InHand
  <2> HIDE DEF f
  <2>4. /\ TypeOK' /\ PostboxOK' /\ QueueOK' /\ WaitsOK' /\ AnswersOK'
        /\ EveryCallbackIsAnswered' /\ waits' # <<>> /\ Top' = f
    BY <1>1, <1>2, <2>1, <2>2, <2>3, QuietBecoming DEF IInv, TypeOK
  <2>5. WakeListOK'
    BY <1>1, <2>2, <2>4 DEF IInv, WakeListOK
  <2> QED
    BY <2>4, <2>5 DEF IInv
<1> QED
  BY <1>3, <1>4

LEMMA PauseIsSound == IInv /\ Pause => IInv'
<1> SUFFICES ASSUME IInv, Pause PROVE IInv'
  OBVIOUS
<1> DEFINE f == [Top EXCEPT !.at = "event", !.left = @ - 1]
<1>1. Top \in Frames /\ waits # <<>> /\ Top.at = "pausing" /\ Become(f) /\ Top.left > 0
  BY TopIsOK DEF Pause, FrameOK
<1>2. /\ f \in Frames /\ f.at = "event" /\ f.alone = Top.alone /\ f.on = Top.on
      /\ f.heard = Top.heard
  <2>1. MaxSlices \in Nat /\ Top.left \in 0 .. MaxSlices
    BY <1>1, WaitsAssumption, PlacesOfFrames DEF WaitsAssumption
  <2>2. Top.left - 1 \in 0 .. MaxSlices
    BY <1>1, <2>1
  <2>3. f = [[Top EXCEPT !.at = "event"] EXCEPT !.left = Top.left - 1]
    BY <1>1 DEF Frames
  <2> QED
    BY <1>1, <2>2, <2>3 DEF Frames, Places
<1>3. FrameOK(f, posted, handled) /\ ~InHand(f) /\ ~InHand(Top)
  BY <1>1, <1>2 DEF FrameOK, InHand
<1>4. UNCHANGED <<postVars, answers, unanswered, data, outcome>>
  BY DEF Pause, postVars
<1> HIDE DEF f
<1>5. /\ TypeOK' /\ PostboxOK' /\ QueueOK' /\ WaitsOK' /\ AnswersOK'
      /\ EveryCallbackIsAnswered' /\ waits' # <<>> /\ Top' = f
  BY <1>1, <1>2, <1>3, <1>4, QuietBecoming DEF IInv, TypeOK
<1>6. WakeListOK'
  BY <1>1, <1>2, <1>4, <1>5 DEF IInv, WakeListOK
<1> QED
  BY <1>5, <1>6 DEF IInv

\* A WAIT cut short, ended by what its handler raised, or done with the screen.
LEMMA OtherEndsAreSound == IInv /\ (PauseCutShort \/ Raises \/ ScreenWaitEnds) => IInv'
<1> SUFFICES ASSUME IInv, PauseCutShort \/ Raises \/ ScreenWaitEnds PROVE IInv'
  OBVIOUS
<1>1. waits # <<>> /\ ~InHand(Top) /\ waits' = Front(waits) /\ outcome' \in {Nothing, "raised"}
  BY DEF PauseCutShort, Raises, ScreenWaitEnds, End, InHand
<1>2. UNCHANGED <<postVars, answers, unanswered, data>>
  BY DEF PauseCutShort, Raises, ScreenWaitEnds, postVars
<1> QED
  BY <1>1, <1>2, QuietEnding DEF IInv, TypeOK

LEMMA DoCallbackIsSound == IInv /\ DoCallback => IInv'
<1> SUFFICES ASSUME IInv, DoCallback PROVE IInv'
  OBVIOUS
<1> DEFINE f == [Top EXCEPT !.at = "calling"]
<1>1. Top \in Frames /\ waits # <<>> /\ Top.at = "waking" /\ Become(f)
  BY TopIsOK DEF DoCallback
<1>2. /\ f \in Frames /\ f.at = "calling" /\ f.alone = Top.alone /\ f.on = Top.on
      /\ f.heard = Top.heard /\ f.post = Top.post
  BY <1>1 DEF Frames, Places
<1>3. FrameOK(f, posted, handled) /\ InHand(f) /\ InHand(Top)
  BY <1>1, <1>2, TopIsOK DEF FrameOK, InHand
<1>4. UNCHANGED <<postVars, answers, unanswered, data, outcome>>
  BY DEF DoCallback, postVars
<1> HIDE DEF f
<1>5. /\ TypeOK' /\ PostboxOK' /\ QueueOK' /\ WaitsOK' /\ AnswersOK'
      /\ EveryCallbackIsAnswered' /\ waits' # <<>> /\ Top' = f
  BY <1>1, <1>2, <1>3, <1>4, QuietBecoming DEF IInv, TypeOK
<1>6. WakeListOK'
  BY <1>1, <1>2, <1>4, <1>5 DEF IInv, WakeListOK
<1> QED
  BY <1>5, <1>6 DEF IInv

-----------------------------------------------------------------------------
(***************************************************************************)
(* What handlers come to.                                                  *)
(***************************************************************************)
LEMMA SaysTrueIsSound == IInv /\ SaysTrue => IInv'
<1> SUFFICES ASSUME IInv, SaysTrue PROVE IInv'
  OBVIOUS
<1> DEFINE port == PortOf(Top.post)
           f == [Top EXCEPT !.at = "awake", !.seen = @ + 1, !.post = Nothing,
                            !.heard = IF TRUE /\ Top.alone THEN @ \cup {port} ELSE @]
<1>1. /\ Top \in Frames /\ waits # <<>> /\ Top.at \in {"handling", "called"}
      /\ Become(f) /\ data' = data \cup {port}
  BY TopIsOK DEF SaysTrue, Said
<1>2. port \in Waitable
  BY <1>1, TopIsOK DEF FrameOK, PostOK, PortOf
<1> HIDE DEF port
<1>3. /\ f \in Frames /\ f.at = "awake" /\ f.alone = Top.alone /\ f.on = Top.on
      /\ Top.alone => f.heard = Top.heard \cup {port}
  <2> DEFINE h == IF TRUE /\ Top.alone THEN Top.heard \cup {port} ELSE Top.heard
  <2>1. h \subseteq Waitable /\ Nothing \in Postings \cup {Nothing} /\ Top.seen + 1 \in Nat
    BY <1>1, <1>2, PlacesOfFrames
  <2>2. f = [Top EXCEPT !.at = "awake", !.seen = Top.seen + 1, !.post = Nothing, !.heard = h]
    BY <1>1 DEF Frames
  <2>3. Top.alone => h = Top.heard \cup {port}
    OBVIOUS
  <2> HIDE DEF h, f
  <2> QED
    BY <1>1, <2>1, <2>2, <2>3 DEF Frames, Places, Postings
<1>4. FrameOK(f, posted, handled) /\ ~InHand(f) /\ ~InHand(Top)
  BY <1>1, <1>3 DEF FrameOK, InHand
<1>5. UNCHANGED <<postVars, answers, unanswered, outcome>>
  BY DEF SaysTrue, postVars
<1> HIDE DEF f
<1>6. data' \subseteq Waitable /\ outcome' \in Waitable \cup {Nothing, "raised", "stopped"}
  BY <1>1, <1>2, <1>5 DEF IInv, TypeOK
<1>7. /\ TypeOK' /\ PostboxOK' /\ QueueOK' /\ WaitsOK' /\ AnswersOK'
      /\ EveryCallbackIsAnswered' /\ waits' # <<>> /\ Top' = f
  BY <1>1, <1>3, <1>4, <1>5, <1>6, QuietBecoming
<1>8. WakeListOK'
  BY <1>1, <1>3, <1>7 DEF IInv, WakeListOK
<1> QED
  BY <1>7, <1>8 DEF IInv

LEMMA SaysOtherwiseIsSound == IInv /\ SaysOtherwise => IInv'
<1> SUFFICES ASSUME IInv, SaysOtherwise PROVE IInv'
  OBVIOUS
<1> DEFINE f == [Top EXCEPT !.at = "awake", !.seen = @ + 1, !.post = Nothing,
                            !.heard = IF FALSE /\ Top.alone THEN @ \cup {} ELSE @]
<1>1. Top \in Frames /\ waits # <<>> /\ Top.at = "handling" /\ Become(f)
  BY TopIsOK DEF SaysOtherwise, Said
<1>2. /\ f \in Frames /\ f.at = "awake" /\ f.alone = Top.alone /\ f.on = Top.on
      /\ f.heard = Top.heard
  <2>1. Nothing \in Postings \cup {Nothing} /\ Top.seen + 1 \in Nat
    BY <1>1, PlacesOfFrames
  <2>2. f = [Top EXCEPT !.at = "awake", !.seen = Top.seen + 1, !.post = Nothing,
                        !.heard = Top.heard]
    BY <1>1 DEF Frames
  <2> HIDE DEF f
  <2> QED
    BY <1>1, <2>1, <2>2 DEF Frames, Places, Postings
<1>3. FrameOK(f, posted, handled) /\ ~InHand(f) /\ ~InHand(Top)
  BY <1>1, <1>2 DEF FrameOK, InHand
<1>4. UNCHANGED <<postVars, answers, unanswered, data, outcome>>
  BY DEF SaysOtherwise, postVars
<1> HIDE DEF f
<1>5. /\ TypeOK' /\ PostboxOK' /\ QueueOK' /\ WaitsOK' /\ AnswersOK'
      /\ EveryCallbackIsAnswered' /\ waits' # <<>> /\ Top' = f
  BY <1>1, <1>2, <1>3, <1>4, QuietBecoming DEF IInv, TypeOK
<1>6. WakeListOK'
  BY <1>1, <1>2, <1>4, <1>5 DEF IInv, WakeListOK
<1> QED
  BY <1>5, <1>6 DEF IInv

\* Nobody else has the callback that is called in hand.
LEMMA TopCallsAlone ==
  ASSUME IInv, waits # <<>>, Top.at = "calling"
  PROVE  /\ Top.post.n \in 1 .. handled["callback"] /\ Top.post.n \in 1 .. Len(answers)
         /\ answers[Top.post.n] = "awaited" /\ Top.post.n \notin unanswered
         /\ \A i \in 1 .. Len(waits) - 1 :
              InHand(waits[i]) => waits[i].post.n # Top.post.n
<1>1. Top.post \in Postings /\ Top.post.kind = "callback" /\ Top.post.n \in 1 .. handled["callback"]
  BY TopIsOK DEF FrameOK, PostOK
<1>2. Top.post.n \in 1 .. Len(answers)
  BY <1>1 DEF IInv, TypeOK, PostboxOK, AnswersOK, Kinds
<1>3. \A i \in 1 .. Len(waits) - 1 : InHand(waits[i]) => waits[i].post.n # Top.post.n
  BY TopIsAFrame DEF IInv, WaitsOK, InHand
<1>4. Held(Top.post.n, waits)
  BY HeldWithTop DEF IInv, InHand
<1>5. answers[Top.post.n] = "awaited" /\ Top.post.n \notin unanswered
  BY <1>1, <1>4, AnsweredAsHeld DEF IInv, TypeOK, AnswersOK
<1> QED
  BY <1>1, <1>2, <1>3, <1>5

LEMMA AnswerReplaced ==
  ASSUME answers \in Seq(Replies), NEW n \in 1 .. Len(answers), NEW e \in Replies,
         answers' = [answers EXCEPT ![n] = e]
  PROVE  /\ answers' \in Seq(Replies) /\ Len(answers') = Len(answers)
         /\ \A m \in 1 .. Len(answers) : answers'[m] = IF m = n THEN e ELSE answers[m]
BY OneReplaced

LEMMA AnswerGiven ==
  ASSUME IInv, NEW n, n \in 1 .. handled["callback"], NEW as \in Replies,
         answers' = [answers EXCEPT ![n] = as]
  PROVE  /\ answers' \in Seq(Replies) /\ Len(answers') = Len(answers)
         /\ \A m \in 1 .. Len(answers) : answers'[m] = IF m = n THEN as ELSE answers[m]
         /\ n \in 1 .. Len(answers) /\ handled["callback"] <= Len(answers)
<1>1. /\ n \in 1 .. Len(answers) /\ handled["callback"] <= Len(answers)
      /\ answers \in Seq(Replies)
  BY DEF IInv, TypeOK, PostboxOK, AnswersOK, Kinds
<1>2. ASSUME NEW i \in 1 .. Len(answers), i = n
      PROVE  /\ answers' \in Seq(Replies) /\ Len(answers') = Len(answers)
             /\ \A m \in 1 .. Len(answers) : answers'[m] = IF m = n THEN as ELSE answers[m]
  <2>1. answers' = [answers EXCEPT ![i] = as]
    BY <1>2
  <2>2. /\ answers' \in Seq(Replies) /\ Len(answers') = Len(answers)
        /\ \A m \in 1 .. Len(answers) : answers'[m] = IF m = i THEN as ELSE answers[m]
    BY <1>1, <2>1, AnswerReplaced
  <2> QED
    BY <1>2, <2>2
<1> QED
  BY <1>1, <1>2

LEMMA CallbackAnswersIsSound == IInv /\ CallbackAnswers => IInv'
<1> SUFFICES ASSUME IInv, CallbackAnswers PROVE IInv'
  OBVIOUS
<1> DEFINE f == [Top EXCEPT !.at = "called"]
           n == Top.post.n
<1>1. /\ Top \in Frames /\ waits # <<>> /\ Top.at = "calling" /\ Become(f)
      /\ answers' = [answers EXCEPT ![n] = "answered"]
  BY TopIsOK DEF CallbackAnswers
<1>2. /\ f \in Frames /\ f.at = "called" /\ f.alone = Top.alone /\ f.on = Top.on
      /\ f.heard = Top.heard /\ f.post = Top.post
  BY <1>1 DEF Frames, Places
<1>3. FrameOK(f, posted, handled) /\ ~InHand(f)
  BY <1>1, <1>2, TopIsOK DEF FrameOK, InHand
<1>4. UNCHANGED <<postVars, unanswered, data, outcome>>
  BY DEF CallbackAnswers, postVars
<1>5. /\ n \in 1 .. handled["callback"] /\ answers[n] = "awaited" /\ n \notin unanswered
      /\ \A i \in 1 .. Len(waits) - 1 : InHand(waits[i]) => waits[i].post.n # n
  BY <1>1, TopCallsAlone
<1> HIDE DEF f, n
<1>6. PostboxOK' /\ QueueOK' /\ Growing
  BY <1>4, QuietQueues
<1>7. waits' \in Seq(Frames) /\ waits' # <<>> /\ Top' = f
  BY <1>1, <1>2, Becoming DEF IInv
<1>8. WaitsOK'
  BY <1>1, <1>2, <1>3, <1>4, <1>6, BecomingIsSound DEF IInv, postVars
<1>9. \A m : Held(m, waits') <=> (Held(m, waits) /\ m # n)
  BY <1>1, <1>2, <1>3, <1>5, HeldOnBecoming, HeldWithTop DEF IInv, n
<1>10. /\ answers' \in Seq(Replies) /\ Len(answers') = Len(answers)
       /\ \A m \in 1 .. Len(answers) : answers'[m] = IF m = n THEN "answered" ELSE answers[m]
       /\ n \in 1 .. Len(answers) /\ handled["callback"] <= Len(answers)
  BY <1>1, <1>5, AnswerGiven DEF Replies
<1>11. TypeOK'
  BY <1>4, <1>7, <1>10 DEF IInv, TypeOK, postVars
<1>12. AnswersOK'
  <2>1. Len(answers') = Len(posted'["callback"]) /\ unanswered' \subseteq 1 .. handled'["callback"]
    BY <1>4, <1>10 DEF IInv, AnswersOK, postVars
  <2>2. \A m \in unanswered' : ~Held(m, waits')
    BY <1>4, <1>9 DEF IInv, AnswersOK
  <2>3. \A m \in handled'["callback"] + 1 .. Len(answers') : answers'[m] = "awaited"
    <3>1. handled["callback"] \in Nat /\ Len(answers) \in Nat
      BY DEF IInv, TypeOK, Kinds
    <3> QED
      BY <1>4, <1>10, <1>5, <3>1 DEF IInv, AnswersOK, postVars
  <2> QED
    BY <2>1, <2>2, <2>3 DEF AnswersOK
<1>13. EveryCallbackIsAnswered'
  <2>1. \A m \in 1 .. handled["callback"] :
          answers[m] = "awaited" <=> (m \in unanswered \/ Held(m, waits))
    BY AnsweredAsHeld DEF IInv, TypeOK
  <2>2. \A m \in 1 .. handled["callback"] :
          answers'[m] = IF m = n THEN "answered" ELSE answers[m]
    <3>1. handled["callback"] \in Nat /\ Len(answers) \in Nat
      BY DEF IInv, TypeOK, Kinds
    <3> QED
      BY <1>10, <3>1
  <2>3. \A m \in 1 .. handled["callback"] :
          answers'[m] = "awaited" <=> (m \in unanswered \/ Held(m, waits'))
    BY <1>5, <1>9, <2>1, <2>2
  <2> QED
    BY <1>4, <1>7, <2>3, AnsweredAsHeldNext DEF postVars
<1>14. WakeListOK'
  BY <1>1, <1>2, <1>4, <1>7 DEF IInv, WakeListOK
<1> QED
  BY <1>6, <1>8, <1>11, <1>12, <1>13, <1>14 DEF IInv

LEMMA CallbackRaisesIsSound == IInv /\ CallbackRaises => IInv'
<1> SUFFICES ASSUME IInv, CallbackRaises PROVE IInv'
  OBVIOUS
<1> DEFINE n == Top.post.n
<1>1. /\ waits # <<>> /\ Top.at = "calling" /\ waits' = Front(waits) /\ outcome' = "raised"
      /\ answers' = [answers EXCEPT ![n] = "failed"]
  BY DEF CallbackRaises, End
<1>2. UNCHANGED <<postVars, unanswered, data>>
  BY DEF CallbackRaises, postVars
<1>3. /\ n \in 1 .. handled["callback"] /\ answers[n] = "awaited" /\ n \notin unanswered
      /\ \A i \in 1 .. Len(waits) - 1 : InHand(waits[i]) => waits[i].post.n # n
  BY <1>1, TopCallsAlone
<1>4. PostboxOK' /\ QueueOK' /\ Growing
  BY <1>2, QuietQueues
<1>5. waits' \in Seq(Frames)
  BY <1>1, Ending DEF IInv
<1>6. WaitsOK' /\ (waits' # <<>> => ~Top'.alone)
  BY <1>1, <1>4, EndingIsSound DEF IInv
<1>7. \A m : Held(m, waits') <=> (Held(m, waits) /\ m # n)
  BY <1>1, <1>3, HeldOnEnding, HeldWithTop DEF IInv, n
<1> HIDE DEF n
<1>8. /\ answers' \in Seq(Replies) /\ Len(answers') = Len(answers)
      /\ \A m \in 1 .. Len(answers) : answers'[m] = IF m = n THEN "failed" ELSE answers[m]
      /\ n \in 1 .. Len(answers) /\ handled["callback"] <= Len(answers)
  BY <1>1, <1>3, AnswerGiven DEF Replies
<1>9. TypeOK'
  BY <1>1, <1>2, <1>5, <1>8 DEF IInv, TypeOK, postVars
<1>10. AnswersOK'
  <2>1. Len(answers') = Len(posted'["callback"]) /\ unanswered' \subseteq 1 .. handled'["callback"]
    BY <1>2, <1>8 DEF IInv, AnswersOK, postVars
  <2>2. \A m \in unanswered' : ~Held(m, waits')
    BY <1>2, <1>7 DEF IInv, AnswersOK
  <2>3. \A m \in handled'["callback"] + 1 .. Len(answers') : answers'[m] = "awaited"
    <3>1. handled["callback"] \in Nat /\ Len(answers) \in Nat
      BY DEF IInv, TypeOK, Kinds
    <3> QED
      BY <1>2, <1>8, <1>3, <3>1 DEF IInv, AnswersOK, postVars
  <2> QED
    BY <2>1, <2>2, <2>3 DEF AnswersOK
<1>11. EveryCallbackIsAnswered'
  <2>1. \A m \in 1 .. handled["callback"] :
          answers[m] = "awaited" <=> (m \in unanswered \/ Held(m, waits))
    BY AnsweredAsHeld DEF IInv, TypeOK
  <2>2. \A m \in 1 .. handled["callback"] :
          answers'[m] = IF m = n THEN "failed" ELSE answers[m]
    <3>1. handled["callback"] \in Nat /\ Len(answers) \in Nat
      BY DEF IInv, TypeOK, Kinds
    <3> QED
      BY <1>8, <3>1
  <2>3. \A m \in 1 .. handled["callback"] :
          answers'[m] = "awaited" <=> (m \in unanswered \/ Held(m, waits'))
    BY <1>3, <1>7, <2>1, <2>2
  <2> QED
    BY <1>2, <1>5, <2>3, AnsweredAsHeldNext DEF postVars
<1> QED
  BY <1>4, <1>6, <1>9, <1>10, <1>11 DEF IInv, WakeListOK

-----------------------------------------------------------------------------
(***************************************************************************)
(* Extensions posting, and what was posted being delivered.                *)
(***************************************************************************)
LEMMA QueuedPosts ==
  ASSUME IInv
  PROVE  Len(state) \in Nat /\ \A i \in 1 .. Len(state) : state[i] \in Postings
<1>1. state \in Seq(Postings)
  BY DEF IInv, TypeOK, Postings
<1> QED
  BY <1>1, LenProperties, ElementOfSeq

LEMMA PostIsSound ==
  ASSUME IInv, NEW kind \in Kinds, NEW to \in Targets(kind), Post(kind, to)
  PROVE  IInv'
<1> DEFINE T == Waitable \cup {Nameless}
<1>1. posted \in [Kinds -> Seq(T)] /\ to \in T
  BY DEF IInv, TypeOK, Targets, Waitable
<1>2. \A k \in Kinds : posted'[k] = IF k = kind THEN Append(posted[k], to) ELSE posted[k]
  BY <1>1 DEF Post
<1> HIDE DEF T
<1>3. posted' \in [Kinds -> Seq(T)]
  BY <1>1, AppendProperties DEF Post
<1>4. \A k \in Kinds :
        /\ Len(posted[k]) \in Nat
        /\ Len(posted'[k]) = IF k = kind THEN Len(posted[k]) + 1 ELSE Len(posted[k])
        /\ \A n \in 1 .. Len(posted[k]) : posted'[k][n] = posted[k][n]
        /\ k = kind => posted'[k][Len(posted[k]) + 1] = to
  <2> SUFFICES ASSUME NEW k \in Kinds
      PROVE  /\ Len(posted[k]) \in Nat
             /\ Len(posted'[k]) = IF k = kind THEN Len(posted[k]) + 1 ELSE Len(posted[k])
             /\ \A n \in 1 .. Len(posted[k]) : posted'[k][n] = posted[k][n]
             /\ k = kind => posted'[k][Len(posted[k]) + 1] = to
    OBVIOUS
  <2> DEFINE s == posted[k]
  <2>1. s \in Seq(T) /\ Len(s) \in Nat
    BY <1>1, LenProperties
  <2>2. /\ Len(Append(s, to)) = Len(s) + 1 /\ Append(s, to)[Len(s) + 1] = to
        /\ \A n \in 1 .. Len(s) : Append(s, to)[n] = s[n]
    BY <1>1, <2>1, AppendProperties
  <2>3. posted'[k] = IF k = kind THEN Append(s, to) ELSE s
    BY <1>2
  <2> HIDE DEF s
  <2>4. /\ Len(posted'[k]) = IF k = kind THEN Len(s) + 1 ELSE Len(s)
        /\ \A n \in 1 .. Len(s) : posted'[k][n] = s[n]
        /\ k = kind => posted'[k][Len(s) + 1] = to
    BY <2>2, <2>3
  <2> QED
    BY <2>1, <2>4 DEF s
<1> HIDE DEF T
<1>5. /\ UNCHANGED <<polled, state, data, waits, handled, outcome, unanswered>>
      /\ answers' = IF kind = "callback" THEN Append(answers, "awaited") ELSE answers
  BY DEF Post
<1>6. Growing
  BY <1>4, <1>5 DEF IInv, TypeOK, Growing
<1>7. PostboxOK'
  <2>1. \A k \in Kinds : handled'[k] <= polled'[k] /\ polled'[k] <= Len(posted'[k])
    <3>1. \A k \in Kinds : /\ Len(posted[k]) <= Len(posted'[k]) /\ Len(posted[k]) \in Nat
                            /\ Len(posted'[k]) \in Nat
      BY <1>4
    <3>2. \A k \in Kinds : polled[k] \in Nat /\ handled[k] <= polled[k] /\ polled[k] <= Len(posted[k])
      BY DEF IInv, TypeOK, PostboxOK
    <3> QED
      BY <1>5, <3>1, <3>2
  <2>2. \A k \in Kinds : \A n \in 1 .. Len(posted'[k]) : posted'[k][n] \in Targets(k)
    BY <1>4 DEF IInv, PostboxOK
  <2> QED
    BY <2>1, <2>2 DEF PostboxOK
<1>8. QueueOK'
  <2>1. \A k \in Kinds : \A n \in 1 .. polled[k] : posted'[k][n] = posted[k][n]
    <3> SUFFICES ASSUME NEW k \in Kinds, NEW n \in 1 .. polled[k]
                 PROVE  posted'[k][n] = posted[k][n]
      OBVIOUS
    <3>1. polled[k] \in Nat /\ polled[k] <= Len(posted[k]) /\ Len(posted[k]) \in Nat
      BY <1>4 DEF IInv, TypeOK, PostboxOK
    <3>2. n \in 1 .. Len(posted[k])
      BY <3>1
    <3> QED
      BY <1>4, <3>2
  <2>2. \A k \in Kinds : handled[k] \in Nat /\ polled[k] \in Nat
    BY DEF IInv, TypeOK
  <2>3. \A i \in 1 .. Len(state) : state[i].kind \in Kinds /\ state[i].n \in Nat
    BY QueuedPosts DEF Postings
  <2>4. \A i \in 1 .. Len(state) :
          /\ state'[i].n \in handled'[state'[i].kind] + 1 .. polled'[state'[i].kind]
          /\ PortOf(state[i])' # Nameless
    <3> SUFFICES ASSUME NEW i \in 1 .. Len(state)
                 PROVE  /\ state[i].n \in handled[state[i].kind] + 1 .. polled[state[i].kind]
                        /\ posted'[state[i].kind][state[i].n] # Nameless
      BY <1>5 DEF PortOf
    <3> DEFINE k == state[i].kind
               n == state[i].n
    <3>1. k \in Kinds /\ n \in handled[k] + 1 .. polled[k] /\ posted[k][n] # Nameless
      BY <2>3 DEF IInv, QueueOK, PortOf
    <3> HIDE DEF k, n
    <3>2. n \in 1 .. polled[k]
      BY <2>2, <3>1
    <3>3. posted'[k][n] # Nameless
      BY <2>1, <3>1, <3>2
    <3> QED
      BY <3>1, <3>3 DEF k, n
  <2>5. \A k \in Kinds : \A n \in handled'[k] + 1 .. polled'[k] :
          posted'[k][n] # Nameless => \E i \in 1 .. Len(state') : state'[i] = Posting(k, n)
    BY <1>5, <2>1, <2>2 DEF IInv, QueueOK
  <2> QED
    BY <1>5, <2>4, <2>5 DEF IInv, QueueOK
<1>9. WaitsOK'
  BY <1>5, <1>6, WaitsStaySound DEF IInv
<1>10. /\ answers' \in Seq(Replies) /\ Len(answers') = Len(posted'["callback"])
       /\ \A n \in 1 .. Len(answers) : answers'[n] = answers[n]
       /\ \A n \in Len(answers) + 1 .. Len(answers') : answers'[n] = "awaited"
  <2>1. /\ answers \in Seq(Replies) /\ Len(answers) = Len(posted["callback"])
        /\ Len(answers) \in Nat
    BY LenProperties DEF IInv, TypeOK, AnswersOK
  <2>2. "awaited" \in Replies /\ "callback" \in Kinds
    BY DEF Replies, Kinds
  <2>3. CASE kind = "callback"
    BY <1>4, <1>5, <2>1, <2>2, <2>3, AppendProperties
  <2>4. CASE kind # "callback"
    BY <1>4, <1>5, <2>1, <2>2, <2>4
  <2> QED
    BY <2>3, <2>4
<1>11. handled["callback"] \in Nat /\ handled["callback"] <= Len(answers) /\ Len(answers) \in Nat
  BY LenProperties DEF IInv, TypeOK, PostboxOK, AnswersOK, Kinds
<1>12. TypeOK'
  BY <1>3, <1>5, <1>10 DEF IInv, TypeOK, T
<1>13. AnswersOK'
  <2>1. \A n \in handled["callback"] + 1 .. Len(answers') : answers'[n] = "awaited"
    BY <1>10, <1>11 DEF IInv, AnswersOK
  <2> QED
    BY <1>5, <1>10, <2>1 DEF IInv, AnswersOK
<1>14. EveryCallbackIsAnswered'
  BY <1>5, <1>10, <1>11 DEF IInv, EveryCallbackIsAnswered
<1>15. WakeListOK'
  BY <1>5 DEF IInv, WakeListOK, Top
<1> QED
  BY <1>7, <1>8, <1>9, <1>12, <1>13, <1>14, <1>15 DEF IInv

LEMMA DeliverIsSound ==
  ASSUME IInv, NEW kind \in Kinds, NEW next \in {"callback", "awake"}, Deliver(kind, next)
  PROVE  IInv'
<1>1. CASE polled[kind] = Len(posted[kind])
  <2> DEFINE f == [Top EXCEPT !.at = next]
  <2>1. Top \in Frames /\ waits # <<>> /\ Top.at = kind /\ Become(f)
    BY <1>1, TopIsOK DEF Deliver
  <2>2. /\ f \in Frames /\ f.at = next /\ f.alone = Top.alone /\ f.on = Top.on
        /\ f.heard = Top.heard
    BY <2>1 DEF Frames, Places
  <2>3. FrameOK(f, posted, handled) /\ ~InHand(f) /\ ~InHand(Top)
    BY <2>1, <2>2 DEF FrameOK, InHand, Kinds
  <2>4. UNCHANGED <<postVars, answers, unanswered, data, outcome>>
    BY <1>1 DEF Deliver, postVars
  <2> HIDE DEF f
  <2>5. /\ TypeOK' /\ PostboxOK' /\ QueueOK' /\ WaitsOK' /\ AnswersOK'
        /\ EveryCallbackIsAnswered' /\ waits' # <<>> /\ Top' = f
    BY <2>1, <2>2, <2>3, <2>4, QuietBecoming DEF IInv, TypeOK
  <2>6. WakeListOK'
    BY <2>1, <2>2, <2>4, <2>5 DEF IInv, WakeListOK
  <2> QED
    BY <2>5, <2>6 DEF IInv
<1>2. CASE polled[kind] # Len(posted[kind])
  <2> DEFINE n == polled[kind] + 1
             post == Posting(kind, n)
  <2>1. /\ polled' = [polled EXCEPT ![kind] = n]
        /\ state' = IF posted[kind][n] = Nameless THEN state ELSE Append(state, post)
        /\ UNCHANGED <<posted, data, waits, answers, handled, outcome, unanswered>>
    BY <1>2 DEF Deliver
  <2>2. /\ polled \in [Kinds -> Nat] /\ handled \in [Kinds -> Nat]
        /\ state \in Seq(Postings) /\ Len(state) \in Nat
        /\ \A k \in Kinds : handled[k] <= polled[k]
    BY LenProperties DEF IInv, TypeOK, Postings, PostboxOK
  <2>3. n \in Nat /\ n <= Len(posted[kind]) /\ handled[kind] < n
    BY <1>2, <2>2 DEF IInv, PostboxOK, TypeOK
  <2>4. /\ post \in Postings /\ post.kind = kind /\ post.n = n
        /\ PortOf(post) = posted[kind][n]
    BY <2>3 DEF Posting, Postings, PortOf
  <2>5. \A k \in Kinds : polled'[k] = IF k = kind THEN n ELSE polled[k]
    BY <2>1, <2>2
  <2> HIDE DEF n, post
  <2>6. polled' \in [Kinds -> Nat] /\ \A k \in Kinds : polled[k] <= polled'[k]
    BY <2>1, <2>2, <2>3, <2>5 DEF n
  <2>7. /\ state' \in Seq(Postings) /\ Len(state') \in Nat
        /\ Len(state') \in {Len(state), Len(state) + 1}
        /\ \A i \in 1 .. Len(state) : state'[i] = state[i]
        /\ Len(state') = Len(state) + 1 =>
             state'[Len(state) + 1] = post /\ posted[kind][n] # Nameless
        /\ posted[kind][n] # Nameless => Len(state') = Len(state) + 1
    BY <2>1, <2>2, <2>4, AppendProperties
  <2>8. PostboxOK' /\ Growing
    BY <2>1, <2>2, <2>3, <2>5 DEF IInv, PostboxOK, Growing
  <2>9. QueueOK'
    <3>1. \A i \in 1 .. Len(state') :
            /\ state'[i].n \in handled'[state'[i].kind] + 1 .. polled'[state'[i].kind]
            /\ PortOf(state[i])' # Nameless
      <4> SUFFICES ASSUME NEW i \in 1 .. Len(state')
                   PROVE  /\ state'[i].n \in handled[state'[i].kind] + 1 .. polled'[state'[i].kind]
                          /\ PortOf(state'[i]) # Nameless
        BY <2>1 DEF PortOf
      <4>1. CASE i \in 1 .. Len(state)
        <5>1. state'[i] = state[i] /\ state[i].kind \in Kinds /\ state[i].n \in Nat
          BY <2>7, <4>1, QueuedPosts DEF Postings
        <5>2. /\ state[i].n \in handled[state[i].kind] + 1 .. polled[state[i].kind]
              /\ PortOf(state[i]) # Nameless
          BY <4>1 DEF IInv, QueueOK
        <5>3. polled[state[i].kind] <= polled'[state[i].kind]
          BY <2>6, <5>1
        <5>4. /\ handled[state[i].kind] \in Nat /\ polled[state[i].kind] \in Nat
              /\ polled'[state[i].kind] \in Nat
          BY <2>2, <2>6, <5>1
        <5>5. state[i].n \in handled[state[i].kind] + 1 .. polled'[state[i].kind]
          BY <5>2, <5>3, <5>4
        <5> QED
          BY <5>1, <5>2, <5>5
      <4>2. CASE i \notin 1 .. Len(state)
        <5>1. i = Len(state) + 1 /\ state'[i] = post /\ posted[kind][n] # Nameless
          BY <2>2, <2>7, <4>2
        <5> QED
          BY <2>2, <2>3, <2>4, <2>5, <5>1
      <4> QED
        BY <4>1, <4>2
    <3>2. \A i, j \in 1 .. Len(state') :
            (i < j /\ state'[i].kind = state'[j].kind) => state'[i].n < state'[j].n
      <4> SUFFICES ASSUME NEW i \in 1 .. Len(state'), NEW j \in 1 .. Len(state'), i < j,
                          state'[i].kind = state'[j].kind
                   PROVE  state'[i].n < state'[j].n
        OBVIOUS
      <4>1. i \in 1 .. Len(state) /\ state'[i] = state[i] /\ state[i] \in Postings
        BY <2>2, <2>7
      <4>2. CASE j \in 1 .. Len(state)
        BY <2>7, <4>1, <4>2 DEF IInv, QueueOK
      <4>3. CASE j \notin 1 .. Len(state)
        <5>1. state'[j] = post
          BY <2>2, <2>7, <4>3
        <5>2. state[i].n \in handled[kind] + 1 .. polled[kind]
          BY <2>4, <4>1, <5>1 DEF IInv, QueueOK
        <5> QED
          BY <2>2, <2>4, <4>1, <5>1, <5>2 DEF n
      <4> QED
        BY <4>2, <4>3
    <3>3. \A k \in Kinds : \A m \in handled'[k] + 1 .. polled'[k] :
            posted'[k][m] # Nameless => \E i \in 1 .. Len(state') : state'[i] = Posting(k, m)
      <4> SUFFICES ASSUME NEW k \in Kinds, NEW m \in handled[k] + 1 .. polled'[k],
                          posted[k][m] # Nameless
                   PROVE  \E i \in 1 .. Len(state') : state'[i] = Posting(k, m)
        BY <2>1
      <4>1. CASE m \in handled[k] + 1 .. polled[k]
        <5>1. PICK i \in 1 .. Len(state) : state[i] = Posting(k, m)
          BY <4>1 DEF IInv, QueueOK
        <5>2. i \in 1 .. Len(state') /\ state'[i] = state[i]
          BY <2>2, <2>7
        <5> QED
          BY <5>1, <5>2
      <4>2. CASE m \notin handled[k] + 1 .. polled[k]
        <5>1. k = kind /\ m = n
          BY <2>2, <2>5, <4>2 DEF n
        <5> QED
          BY <2>2, <2>7, <5>1 DEF post
      <4> QED
        BY <4>1, <4>2
    <3> QED
      BY <3>1, <3>2, <3>3 DEF QueueOK
  <2>10. WaitsOK'
    BY <2>1, <2>8, WaitsStaySound DEF IInv
  <2>11. TypeOK'
    BY <2>1, <2>6, <2>7 DEF IInv, TypeOK, Postings
  <2>12. AnswersOK' /\ EveryCallbackIsAnswered' /\ WakeListOK'
    BY <2>1 DEF IInv, AnswersOK, EveryCallbackIsAnswered, WakeListOK, Top
  <2> QED
    BY <2>8, <2>9, <2>10, <2>11, <2>12 DEF IInv
<1> QED
  BY <1>1, <1>2

-----------------------------------------------------------------------------
(***************************************************************************)
(* An event leaving the queue for its port.                                *)
(***************************************************************************)
\* What is first in the queue is the first of its kind that can be handled.
LEMMA FirstQueued ==
  ASSUME IInv, WakeNext, NEW post, post = Head(state)
  PROVE  /\ post \in Postings /\ post = state[1] /\ Len(state) \in Nat \ {0}
         /\ post.n \in handled[post.kind] + 1 .. polled[post.kind]
         /\ PortOf(post) # Nameless /\ PortOf(post) \in Targets(post.kind)
         /\ \A m \in handled[post.kind] + 1 .. post.n - 1 : posted[post.kind][m] = Nameless
         /\ post.kind = "callback" => post.n = handled["callback"] + 1
<1>1. state \in Seq(Postings) /\ state # <<>>
  BY DEF IInv, TypeOK, Postings, WakeNext, LooksFurther
<1>2. Len(state) \in Nat \ {0} /\ post = state[1]
  BY <1>1, EmptySeq
<1>3. /\ post \in Postings /\ post.n \in handled[post.kind] + 1 .. polled[post.kind]
      /\ PortOf(post) # Nameless
  BY <1>2, QueuedPosts DEF IInv, QueueOK
<1> DEFINE k == post.kind
<1>4. /\ k \in Kinds /\ post.n \in Nat /\ handled[k] \in Nat /\ polled[k] \in Nat
      /\ polled[k] <= Len(posted[k]) /\ Len(posted[k]) \in Nat
  BY <1>3, LenProperties DEF IInv, TypeOK, PostboxOK, Postings
<1>5. ASSUME NEW m \in handled[k] + 1 .. post.n - 1
      PROVE  posted[k][m] = Nameless
  <2>1. m \in handled[k] + 1 .. polled[k] /\ m < post.n
    BY <1>3, <1>4
  <2>2. SUFFICES ASSUME NEW i \in 1 .. Len(state), state[i] = Posting(k, m) PROVE FALSE
    BY <1>4, <2>1 DEF IInv, QueueOK
  <2>3. state[i].kind = k /\ state[i].n = m
    BY <2>2 DEF Posting
  <2>4. i # 1
    BY <1>2, <2>1, <2>3, <1>4
  <2>5. post.n < m
    BY <1>2, <2>3, <2>4 DEF IInv, QueueOK
  <2> QED
    BY <1>4, <2>1, <2>5
<1>6. PortOf(post) \in Targets(k)
  <2>1. post.n \in 1 .. Len(posted[k])
    BY <1>3, <1>4
  <2> QED
    BY <1>4, <2>1 DEF IInv, PostboxOK, PortOf
<1>7. ASSUME k = "callback" PROVE post.n = handled["callback"] + 1
  <2>1. SUFFICES ASSUME post.n # handled[k] + 1 PROVE FALSE
    BY <1>7
  <2>2. handled[k] + 1 \in handled[k] + 1 .. post.n - 1
    BY <1>3, <1>4, <2>1
  <2>3. posted[k][handled[k] + 1] = Nameless
    BY <1>5, <2>2
  <2>4. posted[k][handled[k] + 1] = CallbackPort
    <3>1. handled[k] + 1 \in 1 .. Len(posted[k])
      BY <1>3, <1>4, <2>2
    <3> QED
      BY <1>4, <1>7, <3>1 DEF IInv, PostboxOK, Targets
  <2> QED
    BY <2>3, <2>4, WaitsAssumption DEF WaitsAssumption
<1> QED
  BY <1>2, <1>3, <1>5, <1>6, <1>7

LEMMA QueueAfterWake ==
  ASSUME IInv, WakeNext
  PROVE  QueueOK' /\ state' \in Seq(Postings)
<1> DEFINE post == Head(state)
<1>1. /\ post \in Postings /\ post = state[1] /\ Len(state) \in Nat \ {0}
      /\ post.n \in handled[post.kind] + 1 .. polled[post.kind]
  BY FirstQueued
<1>2. /\ handled' = [handled EXCEPT ![post.kind] = post.n]
      /\ state' = Tail(state) /\ UNCHANGED <<posted, polled>>
  BY DEF WakeNext
<1> HIDE DEF post
<1>3. /\ state' \in Seq(Postings) /\ Len(state') = Len(state) - 1
      /\ \A i \in 1 .. Len(state') : state'[i] = state[i + 1]
  <2>1. state \in Seq(Postings) /\ state # <<>>
    BY DEF IInv, TypeOK, Postings, WakeNext, LooksFurther
  <2> QED
    BY <1>2, <2>1, HeadTailProperties
<1>4. /\ handled \in [Kinds -> Nat] /\ polled \in [Kinds -> Nat]
      /\ post.kind \in Kinds /\ post.n \in Nat
      /\ \A k \in Kinds : handled'[k] = IF k = post.kind THEN post.n ELSE handled[k]
  BY <1>1, <1>2 DEF IInv, TypeOK, Postings
<1>5. ASSUME NEW i \in 1 .. Len(state')
      PROVE  /\ state'[i].n \in handled'[state'[i].kind] + 1 .. polled[state'[i].kind]
             /\ PortOf(state'[i]) # Nameless
  <2> DEFINE j == i + 1
  <2>1. j \in 1 .. Len(state) /\ 1 \in 1 .. Len(state) /\ 1 < j /\ state'[i] = state[j]
    BY <1>1, <1>3
  <2> HIDE DEF j
  <2>2. /\ state[j] \in Postings /\ PortOf(state[j]) # Nameless
        /\ state[j].n \in handled[state[j].kind] + 1 .. polled[state[j].kind]
        /\ state[j].kind = post.kind => post.n < state[j].n
    BY <1>1, <2>1, QueuedPosts DEF IInv, QueueOK
  <2>3. state[j].kind \in Kinds /\ state[j].n \in Nat
    BY <2>2 DEF Postings
  <2>4. state[j].n \in handled'[state[j].kind] + 1 .. polled[state[j].kind]
    <3>1. CASE state[j].kind = post.kind
      BY <1>4, <2>2, <2>3, <3>1
    <3>2. CASE state[j].kind # post.kind
      BY <1>4, <2>2, <2>3, <3>2
    <3> QED
      BY <3>1, <3>2
  <2> QED
    BY <2>1, <2>2, <2>4
<1>6. ASSUME NEW i \in 1 .. Len(state'), NEW j \in 1 .. Len(state'), i < j,
             state'[i].kind = state'[j].kind
      PROVE  state'[i].n < state'[j].n
  <2>1. i + 1 \in 1 .. Len(state) /\ j + 1 \in 1 .. Len(state) /\ i + 1 < j + 1
    BY <1>1, <1>3, <1>6
  <2>2. state'[i] = state[i + 1] /\ state'[j] = state[j + 1]
    BY <1>3
  <2>3. \A a, b \in 1 .. Len(state) :
          (a < b /\ state[a].kind = state[b].kind) => state[a].n < state[b].n
    BY DEF IInv, QueueOK
  <2> QED
    BY <1>6, <2>1, <2>2, <2>3
<1>7. ASSUME NEW k \in Kinds, NEW n \in handled'[k] + 1 .. polled[k], posted[k][n] # Nameless
      PROVE  \E i \in 1 .. Len(state') : state'[i] = Posting(k, n)
  <2>1. n \in handled[k] + 1 .. polled[k] /\ (k = post.kind => n # post.n)
    BY <1>1, <1>4
  <2>2. PICK j \in 1 .. Len(state) : state[j] = Posting(k, n)
    BY <1>7, <2>1 DEF IInv, QueueOK
  <2>3. state[j].kind = k /\ state[j].n = n
    BY <2>2 DEF Posting
  <2>4. j # 1
    BY <1>1, <2>1, <2>3
  <2> DEFINE i == j - 1
  <2>5. i \in 1 .. Len(state') /\ i + 1 = j
    BY <1>1, <1>3, <2>4
  <2> HIDE DEF i
  <2>6. state'[i] = Posting(k, n)
    BY <1>3, <2>2, <2>5
  <2> QED
    BY <2>5, <2>6
<1>8. \A i \in 1 .. Len(state') : PortOf(state'[i]) = posted'[state'[i].kind][state'[i].n]
  BY <1>2 DEF PortOf
<1> QED
  BY <1>2, <1>3, <1>5, <1>6, <1>7, <1>8 DEF QueueOK, PortOf

LEMMA WakeNextIsSound == IInv /\ WakeNext => IInv'
<1> SUFFICES ASSUME IInv, WakeNext PROVE IInv'
  OBVIOUS
<1> DEFINE post == Head(state)
           f == [Top EXCEPT !.post = post,
                            !.at = IF PortOf(post) = CallbackPort THEN "waking" ELSE "handling"]
<1>1. /\ post \in Postings /\ PortOf(post) # Nameless /\ PortOf(post) \in Targets(post.kind)
      /\ post.n \in handled[post.kind] + 1 .. polled[post.kind]
      /\ post.kind = "callback" => post.n = handled["callback"] + 1
  BY FirstQueued
<1>2. /\ Become(f) /\ handled' = [handled EXCEPT ![post.kind] = post.n]
      /\ Top \in Frames /\ waits # <<>> /\ Top.at = "awake"
  BY TopIsOK DEF WakeNext, InAwake
<1>3. UNCHANGED <<posted, polled, data, answers, outcome, unanswered>>
  BY DEF WakeNext
<1> HIDE DEF post
<1>4. /\ handled \in [Kinds -> Nat] /\ polled \in [Kinds -> Nat]
      /\ post.kind \in Kinds /\ post.n \in Nat
      /\ \A k \in Kinds : handled'[k] = IF k = post.kind THEN post.n ELSE handled[k]
  BY <1>1, <1>2 DEF IInv, TypeOK, Postings
<1>5. /\ f \in Frames /\ f.post = post /\ f.alone = Top.alone /\ f.on = Top.on
      /\ f.heard = Top.heard
      /\ f.at = IF PortOf(post) = CallbackPort THEN "waking" ELSE "handling"
  <2>1. post \in Postings \cup {Nothing}
    BY <1>1
  <2> QED
    BY <1>2, <2>1 DEF Frames, Places, Postings
<1> HIDE DEF f
<1>6. handled' \in [Kinds -> Nat] /\ \A k \in Kinds : handled[k] <= handled'[k]
  BY <1>1, <1>2, <1>4
<1>7. Growing
  BY <1>3, <1>4, <1>6 DEF Growing
<1>8. PostboxOK'
  BY <1>1, <1>3, <1>4 DEF IInv, PostboxOK
<1>9. QueueOK' /\ state' \in Seq(Postings)
  BY QueueAfterWake
<1>10. PortOf(post) = CallbackPort <=> post.kind = "callback"
  BY <1>1, <1>4, WaitsAssumption DEF Targets, WaitsAssumption, Kinds
<1>11. FrameOK(f, posted', handled')
  <2>1. PortOf(post) \in Waitable
    BY <1>1, <1>4 DEF Targets, Waitable, Kinds
  <2>2. PostOK(post, posted', handled')
    <3>1. post.n \in 1 .. handled'[post.kind]
      BY <1>1, <1>4
    <3> QED
      BY <1>1, <1>3, <2>1, <3>1 DEF PostOK, PortOf
  <2> QED
    BY <1>5, <1>10, <2>2 DEF FrameOK
<1>12. InHand(f) <=> post.kind = "callback"
  BY <1>5, <1>10 DEF InHand
<1>13. \A i \in 1 .. Len(waits) - 1 :
         InHand(waits[i]) => waits[i].post.n \in 1 .. handled["callback"]
  BY TopIsAFrame DEF IInv, WaitsOK, FrameOK, PostOK, InHand
<1>14. \A i \in 1 .. Len(waits) - 1 :
         (InHand(waits[i]) /\ InHand(f)) => waits[i].post.n # f.post.n
  BY <1>1, <1>4, <1>5, <1>12, <1>13
<1>15. WaitsOK'
  BY <1>2, <1>5, <1>7, <1>11, <1>14, BecomingIsSound DEF IInv
<1>16. waits' \in Seq(Frames) /\ waits' # <<>> /\ Top' = f
  BY <1>2, <1>5, Becoming DEF IInv
<1>17. TypeOK'
  BY <1>3, <1>6, <1>9, <1>16 DEF IInv, TypeOK, Postings
<1>18. \A n : Held(n, waits') <=> (Held(n, waits) \/ (post.kind = "callback" /\ n = post.n))
  BY <1>2, <1>5, <1>12, HeldOnBecoming, HeldWithTop DEF IInv, InHand
<1>19. AnswersOK'
  <2>1. handled["callback"] \in Nat /\ handled'["callback"] \in Nat
        /\ handled["callback"] <= handled'["callback"] /\ Len(answers) \in Nat
    BY <1>4, <1>6, LenProperties DEF IInv, TypeOK, Kinds
  <2>2. \A n \in unanswered : ~Held(n, waits')
    BY <1>1, <1>18, <2>1 DEF IInv, AnswersOK
  <2> QED
    BY <1>3, <2>1, <2>2 DEF IInv, AnswersOK
<1>20. EveryCallbackIsAnswered'
  <2>1. \A n \in 1 .. handled["callback"] :
          answers[n] = "awaited" <=> (n \in unanswered \/ Held(n, waits))
    BY AnsweredAsHeld DEF IInv, TypeOK
  <2>2. handled["callback"] \in Nat /\ "callback" \in Kinds
    BY <1>4 DEF Kinds
  <2>3. ASSUME NEW n \in 1 .. handled'["callback"]
        PROVE  answers[n] = "awaited" <=> (n \in unanswered \/ Held(n, waits'))
    <3>1. CASE n \in 1 .. handled["callback"]
      BY <1>1, <1>18, <2>1, <2>2, <3>1
    <3>2. CASE n \notin 1 .. handled["callback"]
      <4>1. post.kind = "callback" /\ n = post.n
        BY <1>1, <1>4, <2>2, <3>2
      <4>2. n \in handled["callback"] + 1 .. Len(answers)
        BY <1>1, <1>4, <2>2, <4>1 DEF IInv, PostboxOK, AnswersOK, TypeOK
      <4> QED
        BY <1>18, <4>1, <4>2 DEF IInv, AnswersOK
    <3> QED
      BY <3>1, <3>2
  <2> QED
    BY <1>3, <1>16, <2>3, AnsweredAsHeldNext
<1>21. WakeListOK'
  BY <1>2, <1>3, <1>5, <1>16 DEF IInv, WakeListOK
<1> QED
  BY <1>8, <1>9, <1>15, <1>17, <1>19, <1>20, <1>21 DEF IInv

-----------------------------------------------------------------------------
(***************************************************************************)
(* A WAIT beginning, perhaps within another, and the stop of a run.        *)
(***************************************************************************)
\* The WAITs there were, the innermost now with one within it.
Nested == IF waits = <<>> THEN waits
          ELSE [waits EXCEPT ![Len(waits)] = [@ EXCEPT !.alone = FALSE, !.heard = {}]]

LEMMA NestedWaits ==
  ASSUME IInv, ScriptRuns
  PROVE  /\ Nested \in Seq(Frames) /\ Len(Nested) = Len(waits) /\ Len(waits) \in Nat
         /\ \A i \in 1 .. Len(waits) :
              /\ Nested[i].at = waits[i].at /\ Nested[i].post = waits[i].post
              /\ Nested[i].left = waits[i].left /\ Nesting(Nested[i])
<1>1. CASE waits = <<>>
  <2>1. Nested = <<>> /\ Len(waits) = 0
    BY <1>1 DEF Nested
  <2>2. <<>> \in Seq(Frames)
    BY EmptySeq
  <2> QED
    BY <1>1, <2>1, <2>2
<1>2. CASE waits # <<>>
  <2> DEFINE f == [Top EXCEPT !.alone = FALSE, !.heard = {}]
  <2>1. /\ waits \in Seq(Frames) /\ Len(waits) \in Nat \ {0} /\ Top = waits[Len(waits)]
        /\ Top \in Frames
    BY <1>2, TopIsAFrame DEF IInv
  <2>2. /\ f \in Frames /\ f.at = Top.at /\ f.post = Top.post /\ f.left = Top.left /\ ~f.alone
    BY <2>1 DEF Frames
  <2>3. Nested = [waits EXCEPT ![Len(waits)] = f]
    BY <1>2, <2>1 DEF Nested
  <2> HIDE DEF f
  <2>4. /\ Nested \in Seq(Frames) /\ Len(Nested) = Len(waits)
        /\ \A i \in 1 .. Len(waits) : Nested[i] = IF i = Len(waits) THEN f ELSE waits[i]
    BY <1>2, <2>1, <2>2, <2>3, LastReplaced
  <2>5. Nesting(f)
    BY <1>2, <2>2 DEF ScriptRuns, Nesting
  <2>6. \A i \in 1 .. Len(waits) - 1 : Nesting(waits[i])
    BY DEF IInv, WaitsOK
  <2>7. ASSUME NEW i \in 1 .. Len(waits)
        PROVE  /\ Nested[i].at = waits[i].at /\ Nested[i].post = waits[i].post
               /\ Nested[i].left = waits[i].left /\ Nesting(Nested[i])
    <3>1. CASE i = Len(waits)
      BY <2>1, <2>2, <2>4, <2>5, <3>1
    <3>2. CASE i # Len(waits)
      BY <2>1, <2>4, <2>6, <3>2
    <3> QED
      BY <3>1, <3>2
  <2> QED
    BY <2>1, <2>4, <2>7
<1> QED
  BY <1>1, <1>2

LEMMA BeginIsSound ==
  ASSUME IInv, NEW on, on \subseteq Waitable, NEW slices \in 0 .. MaxSlices,
         NEW at \in {"event", "screen"}, Begin(on, slices, at)
  PROVE  IInv'
<1> DEFINE f == [on |-> on, left |-> slices, at |-> at, seen |-> 0,
                 heard |-> {}, alone |-> data = {}, post |-> Nothing]
<1>1. /\ Nested \in Seq(Frames) /\ Len(Nested) = Len(waits) /\ Len(waits) \in Nat
      /\ \A i \in 1 .. Len(waits) :
           /\ Nested[i].at = waits[i].at /\ Nested[i].post = waits[i].post
           /\ Nested[i].left = waits[i].left /\ Nesting(Nested[i])
  BY NestedWaits DEF Begin
<1>2. waits' = Append(Nested, f) /\ outcome' = Nothing
  BY DEF Begin, Nested
<1>3. UNCHANGED <<postVars, data, answers, unanswered>>
  BY DEF Begin, postVars
<1>4. /\ f \in Frames /\ f.at = at /\ f.alone = (data = {}) /\ f.heard = {} /\ ~InHand(f)
  BY DEF Frames, Places, InHand
<1>5. FrameOK(f, posted, handled)
  BY <1>4 DEF FrameOK
<1> HIDE DEF f
<1>6. /\ waits' \in Seq(Frames) /\ waits' # <<>> /\ Len(waits') = Len(waits) + 1
      /\ \A i \in 1 .. Len(waits) : waits'[i] = Nested[i]
      /\ waits'[Len(waits) + 1] = f
  BY <1>1, <1>2, <1>4, AppendProperties
<1>7. Top' = f
  BY <1>1, <1>6 DEF Top, Last
<1>8. PostboxOK' /\ QueueOK' /\ Growing
  BY <1>3, QuietQueues
<1>9. \A i \in 1 .. Len(waits) :
        /\ waits'[i].at = waits[i].at /\ waits'[i].post = waits[i].post
        /\ waits'[i].left = waits[i].left
  BY <1>1, <1>6
<1>10. WaitsOK'
  <2>1. ASSUME NEW i \in 1 .. Len(waits') PROVE FrameOK(waits'[i], posted, handled)
    <3>1. CASE i \in 1 .. Len(waits)
      BY <1>9, <3>1 DEF IInv, WaitsOK, FrameOK
    <3>2. CASE i \notin 1 .. Len(waits)
      BY <1>1, <1>5, <1>6, <3>2
    <3> QED
      BY <3>1, <3>2
  <2>2. \A i \in 1 .. Len(waits') - 1 : Nesting(waits'[i])
    BY <1>1, <1>6
  <2>3. ASSUME NEW i \in 1 .. Len(waits'), NEW j \in 1 .. Len(waits'), i # j,
               InHand(waits'[i]), InHand(waits'[j])
        PROVE  waits'[i].post.n # waits'[j].post.n
    <3>1. i \in 1 .. Len(waits) /\ j \in 1 .. Len(waits)
      BY <1>1, <1>4, <1>6, <2>3
    <3> QED
      BY <1>9, <2>3, <3>1 DEF IInv, WaitsOK, InHand
  <2> QED
    BY <1>3, <2>1, <2>2, <2>3 DEF WaitsOK, postVars
<1>11. ASSUME NEW n PROVE Held(n, waits') <=> Held(n, waits)
  <2>1. \A i \in 1 .. Len(waits') : InHand(waits'[i]) => i \in 1 .. Len(waits)
    BY <1>1, <1>4, <1>6
  <2>2. \A i \in 1 .. Len(waits) : i \in 1 .. Len(waits')
    BY <1>1, <1>6
  <2> QED
    BY <1>9, <2>1, <2>2 DEF Held, InHand
<1>12. EveryCallbackIsAnswered'
  BY <1>3, <1>6, <1>11, AnsweredAsHeld, AnsweredAsHeldNext DEF IInv, TypeOK, postVars
<1>13. TypeOK'
  BY <1>2, <1>3, <1>6 DEF IInv, TypeOK, postVars
<1>14. AnswersOK'
  BY <1>3, <1>11 DEF IInv, AnswersOK, postVars
<1>15. WakeListOK'
  BY <1>3, <1>4, <1>7 DEF WakeListOK
<1> QED
  BY <1>8, <1>10, <1>12, <1>13, <1>14, <1>15 DEF IInv

LEMMA ScriptsAreSound == IInv /\ Scripts => IInv'
<1> SUFFICES ASSUME IInv, Scripts PROVE IInv'
  OBVIOUS
<1>1. ASSUME NEW on \in Blocks, NEW slices \in 0 .. MaxSlices, WaitOnPorts(on, slices)
      PROVE  IInv'
  <2>1. on \subseteq Waitable
    BY WaitsAssumption DEF WaitsAssumption, Waitable
  <2> QED
    BY <1>1, <2>1, BeginIsSound DEF WaitOnPorts
<1>2. CASE WaitOnScreen
  <2>1. 0 \in 0 .. MaxSlices
    BY WaitsAssumption DEF WaitsAssumption
  <2> QED
    BY <1>2, <2>1, BeginIsSound DEF WaitOnScreen
<1> QED
  BY <1>1, <1>2, OtherEndsAreSound DEF Scripts

\* Only the innermost WAIT can be about to call.
LEMMA OnlyTheTopIsWaking ==
  ASSUME IInv, waits # <<>>
  PROVE  \A i \in 1 .. Len(waits) : waits[i].at = "waking" => i = Len(waits)
<1>1. Len(waits) \in Nat \ {0}
  BY TopIsAFrame DEF IInv
<1>2. \A i \in 1 .. Len(waits) - 1 : waits[i].at # "waking"
  BY DEF IInv, WaitsOK, Nesting
<1> QED
  BY <1>1, <1>2

LEMMA HeldIsCalledOrAtTheTop ==
  ASSUME IInv, waits # <<>>
  PROVE  \A n : Held(n, waits) <=> (n \in Calling \/ (Top.at = "waking" /\ Top.post.n = n))
<1>1. /\ DOMAIN waits = 1 .. Len(waits) /\ Top = waits[Len(waits)]
      /\ Len(waits) \in 1 .. Len(waits)
  BY TopIsAFrame DEF IInv
<1>2. Calling = {waits[i].post.n : i \in {j \in 1 .. Len(waits) : waits[j].at = "calling"}}
  BY <1>1, Zenon DEF Calling
<1>3. ASSUME NEW n, Held(n, waits)
      PROVE  n \in Calling \/ (Top.at = "waking" /\ Top.post.n = n)
  <2>1. PICK i \in 1 .. Len(waits) : InHand(waits[i]) /\ waits[i].post.n = n
    BY <1>3, Zenon DEF Held
  <2>2. CASE waits[i].at = "calling"
    BY <1>2, <2>1, <2>2
  <2>3. CASE waits[i].at = "waking"
    BY <1>1, <2>1, <2>3, OnlyTheTopIsWaking
  <2> QED
    BY <2>1, <2>2, <2>3 DEF InHand
<1>4. ASSUME NEW n, n \in Calling PROVE Held(n, waits)
  <2>1. PICK i \in 1 .. Len(waits) : waits[i].at = "calling" /\ waits[i].post.n = n
    BY <1>2, <1>4
  <2> QED
    BY <2>1, Zenon DEF Held, InHand
<1>5. ASSUME NEW n, Top.at = "waking", Top.post.n = n PROVE Held(n, waits)
  BY <1>1, <1>5, Zenon DEF Held, InHand
<1> QED
  BY <1>3, <1>4, <1>5, Zenon

LEMMA UnansweredNats ==
  ASSUME IInv
  PROVE  unanswered \subseteq Nat /\ 1 .. handled["callback"] \subseteq Nat
BY DEF IInv, TypeOK, Kinds

LEMMA StopIsSound == IInv /\ Stop => IInv'
<1> SUFFICES ASSUME IInv, Stop PROVE IInv'
  OBVIOUS
<1>1. /\ waits # <<>> /\ waits' = <<>> /\ outcome' = "stopped"
      /\ answers' = [n \in DOMAIN answers |-> IF n \in Calling THEN "failed" ELSE answers[n]]
      /\ unanswered' = IF Top.at = "waking" THEN unanswered \cup {Top.post.n} ELSE unanswered
      /\ UNCHANGED <<postVars, data>>
  BY DEF Stop, postVars
<1>2. PostboxOK' /\ QueueOK' /\ Growing
  BY <1>1, QuietQueues
<1>3. waits' \in Seq(Frames) /\ Len(waits') = 0
  BY <1>1, EmptySeq
<1>4. WaitsOK' /\ WakeListOK'
  BY <1>1, <1>3 DEF WaitsOK, WakeListOK
<1>5. \A n : ~Held(n, waits')
  BY <1>3 DEF Held
<1>6. /\ answers \in Seq(Replies) /\ DOMAIN answers = 1 .. Len(answers) /\ Len(answers) \in Nat
      /\ handled["callback"] \in Nat /\ handled["callback"] <= Len(answers)
  BY LenProperties DEF IInv, TypeOK, PostboxOK, AnswersOK, Kinds
<1>7. /\ answers' \in Seq(Replies) /\ Len(answers') = Len(answers)
      /\ \A n \in 1 .. Len(answers) :
           answers'[n] = IF n \in Calling THEN "failed" ELSE answers[n]
  <2>1. \A n \in 1 .. Len(answers) : answers[n] \in Replies
    BY <1>6, ElementOfSeq
  <2>2. \A n \in 1 .. Len(answers) : (IF n \in Calling THEN "failed" ELSE answers[n]) \in Replies
    BY <2>1 DEF Replies
  <2> QED
    BY <1>1, <1>6, <2>2
<1>8. Top.at = "waking" => Top.post.n \in 1 .. handled["callback"]
  BY <1>1, TopIsOK DEF FrameOK, PostOK
<1>9. \A n : Held(n, waits) => n \in 1 .. handled["callback"]
  <2> SUFFICES ASSUME NEW i \in 1 .. Len(waits), InHand(waits[i])
               PROVE  waits[i].post.n \in 1 .. handled["callback"]
    BY DEF Held
  <2>1. FrameOK(waits[i], posted, handled)
    BY DEF IInv, WaitsOK
  <2> QED
    BY <2>1 DEF FrameOK, PostOK, InHand
<1>10. TypeOK'
  <2>1. unanswered' \subseteq Nat
    BY <1>1, <1>8, UnansweredNats
  <2>2. UNCHANGED <<posted, polled, state, data, handled>> /\ outcome' = "stopped"
    BY <1>1 DEF postVars
  <2> QED
    BY <1>3, <1>7, <2>1, <2>2 DEF IInv, TypeOK
<1>11. AnswersOK'
  <2>1. unanswered' \subseteq 1 .. handled["callback"]
    BY <1>1, <1>8 DEF IInv, AnswersOK
  <2>2. \A n \in handled["callback"] + 1 .. Len(answers) : answers'[n] = "awaited"
    <3> SUFFICES ASSUME NEW n \in handled["callback"] + 1 .. Len(answers)
                 PROVE  answers'[n] = "awaited"
      OBVIOUS
    <3>1. n \in 1 .. Len(answers) /\ n \notin 1 .. handled["callback"]
      BY <1>6
    <3>2. n \notin Calling
      BY <1>1, <1>9, <3>1, HeldIsCalledOrAtTheTop
    <3> QED
      BY <1>7, <3>1, <3>2 DEF IInv, AnswersOK
  <2> QED
    BY <1>1, <1>5, <1>7, <2>1, <2>2 DEF IInv, AnswersOK, postVars
<1>12. EveryCallbackIsAnswered'
  <2>1. \A n \in 1 .. handled["callback"] :
          answers[n] = "awaited" <=> (n \in unanswered \/ Held(n, waits))
    BY AnsweredAsHeld DEF IInv, TypeOK
  <2>2. ASSUME NEW n \in 1 .. handled["callback"]
        PROVE  answers'[n] = "awaited" <=> n \in unanswered'
    <3>1. answers'[n] = IF n \in Calling THEN "failed" ELSE answers[n]
      BY <1>6, <1>7
    <3>2. n \in unanswered' <=> (n \in unanswered \/ (Top.at = "waking" /\ Top.post.n = n))
      BY <1>1
    <3>3. Held(n, waits) <=> (n \in Calling \/ (Top.at = "waking" /\ Top.post.n = n))
      BY <1>1, HeldIsCalledOrAtTheTop
    <3>4. n \in Calling => n \notin unanswered
      BY <3>3 DEF IInv, AnswersOK
    <3>5. n \in Calling => ~(Top.at = "waking" /\ Top.post.n = n)
      BY <1>1, TopIsAFrame DEF IInv, WaitsOK, InHand, Calling
    <3> QED
      BY <2>1, <3>1, <3>2, <3>3, <3>4, <3>5
  <2> QED
    BY <1>1, <1>3, <1>5, <2>2, AnsweredAsHeldNext DEF postVars
<1> QED
  BY <1>2, <1>4, <1>10, <1>11, <1>12 DEF IInv

-----------------------------------------------------------------------------
LEMMA InitIsSound == Init => IInv
<1> SUFFICES ASSUME Init PROVE IInv
  OBVIOUS
<1>1. /\ posted = [k \in Kinds |-> <<>>] /\ polled = [k \in Kinds |-> 0]
      /\ handled = [k \in Kinds |-> 0] /\ state = <<>> /\ waits = <<>> /\ answers = <<>>
      /\ data = {} /\ outcome = Nothing /\ unanswered = {}
  BY DEF Init
<1>2. /\ <<>> \in Seq(Waitable \cup {Nameless}) /\ <<>> \in Seq(Frames)
      /\ <<>> \in Seq([kind : Kinds, n : Nat]) /\ <<>> \in Seq(Replies)
      /\ Len(<<>>) = 0
  BY EmptySeq
<1>3. TypeOK
  BY <1>1, <1>2 DEF TypeOK
<1>4. PostboxOK
  BY <1>1, <1>2 DEF PostboxOK
<1>5. QueueOK
  BY <1>1, <1>2 DEF QueueOK
<1>6. WaitsOK /\ WakeListOK
  BY <1>1, <1>2 DEF WaitsOK, WakeListOK
<1>7. AnswersOK /\ EveryCallbackIsAnswered
  BY <1>1, <1>2 DEF AnswersOK, EveryCallbackIsAnswered, Kinds
<1> QED
  BY <1>3, <1>4, <1>5, <1>6, <1>7 DEF IInv

LEMMA NextIsSound == IInv /\ [Next]_vars => IInv'
<1> SUFFICES ASSUME IInv, [Next]_vars PROVE IInv'
  OBVIOUS
<1>1. CASE Posts
  BY <1>1, PostIsSound DEF Posts
<1>2. CASE Waits
  <2>1. CASE Deliver("event", "callback")
    BY <2>1, DeliverIsSound DEF Kinds
  <2>2. CASE Deliver("callback", "awake")
    BY <2>2, DeliverIsSound DEF Kinds
  <2> QED
    BY <1>2, <2>1, <2>2, WakeNextIsSound, WakeUpIsSound, KeepLookingIsSound, NothingWokeIsSound,
       PauseIsSound, OtherEndsAreSound, DoCallbackIsSound DEF Waits
<1>3. CASE Handlers
  BY <1>3, SaysTrueIsSound, SaysOtherwiseIsSound, OtherEndsAreSound, CallbackAnswersIsSound,
     CallbackRaisesIsSound DEF Handlers
<1>4. CASE Scripts
  BY <1>4, ScriptsAreSound
<1>5. CASE Stop
  BY <1>5, StopIsSound
<1>6. CASE UNCHANGED vars
  BY <1>6 DEF vars, IInv, TypeOK, PostboxOK, QueueOK, WaitsOK, AnswersOK, WakeListOK,
     EveryCallbackIsAnswered, PortOf, Top
<1> QED
  BY <1>1, <1>2, <1>3, <1>4, <1>5, <1>6 DEF Next

LEMMA SpecIsSound == Spec => []IInv
BY InitIsSound, NextIsSound, PTL DEF Spec

(***************************************************************************)
(* The types and ranges of all the variables, whatever is posted and       *)
(* however WAITs are run within WAITs.                                     *)
(***************************************************************************)
THEOREM WaitsAreTyped == Spec => []TypeOK
<1>1. IInv => TypeOK
  BY DEF IInv
<1> QED
  BY <1>1, SpecIsSound, PTL

(***************************************************************************)
(* A callback taken off the queue has had its answer, or is in the hands   *)
(* of some WAIT, or was lost to a stop between the two: DoCallbackNative   *)
(* and deliverWhatWasPosted leave no other way out.                        *)
(***************************************************************************)
THEOREM CallbacksAreAnswered == Spec => []EveryCallbackIsAnswered
<1>1. IInv => EveryCallbackIsAnswered
  BY DEF IInv
<1> QED
  BY <1>1, SpecIsSound, PTL

-----------------------------------------------------------------------------
\* What a step that ends the innermost WAIT may come to, for one port.
ComesTo(port) ==
  (/\ waits # <<>> /\ Top.alone /\ Top.at = "awake"
   /\ waits' = Front(waits) /\ outcome' = port)
     => IF port = Nothing THEN Top.on \cap Top.heard = {}
        ELSE port \in Top.on \cap Top.heard

LEMMA StaysAsDeep ==
  ASSUME TypeOK, WakeNext \/ KeepLooking
  PROVE  Len(waits') = Len(waits)
<1>1. waits # <<>> /\ Len(waits) \in Nat \ {0} /\ waits \in Seq(Frames)
  BY TopIsAFrame DEF WakeNext, KeepLooking, InAwake
<1>2. PICK f : Become(f)
  BY DEF WakeNext, KeepLooking
<1> QED
  BY <1>1, <1>2 DEF Become

LEMMA NothingWokeOrWaitsOn ==
  ASSUME TypeOK, NothingWoke, Len(waits') = Len(waits) - 1
  PROVE  Top.left = 0
<1>1. waits # <<>> /\ Len(waits) \in Nat \ {0} /\ waits \in Seq(Frames)
  BY TopIsAFrame DEF NothingWoke, InAwake
<1>2. SUFFICES ASSUME NEW f, Become(f) PROVE FALSE
  BY DEF NothingWoke
<1> QED
  BY <1>1, <1>2 DEF Become

(***************************************************************************)
(* A WAIT comes to a port it waits on that said true, and to none only     *)
(* when none of them did: the wake list it reads holds, of the ports it    *)
(* waits on, what its own handlers said.                                   *)
(***************************************************************************)
THEOREM WakesAreWhatWasSaid == Spec => WakesMeanWhatTheySay
<1> DEFINE Said1 == \A port \in Waitable \cup {Nothing} : ComesTo(port)
<1>1. ASSUME IInv, [Next]_vars PROVE [Said1]_vars
  <2> SUFFICES ASSUME Next, NEW port \in Waitable \cup {Nothing},
                      waits # <<>>, Top.alone, Top.at = "awake",
                      waits' = Front(waits), outcome' = port
               PROVE  IF port = Nothing THEN Top.on \cap Top.heard = {}
                      ELSE port \in Top.on \cap Top.heard
    BY <1>1 DEF ComesTo
  <2>1. data \subseteq Top.heard /\ Top.on \cap Top.heard \subseteq data
    BY <1>1 DEF IInv, WakeListOK
  <2>2. Len(waits) \in Nat \ {0} /\ Len(waits') = Len(waits) - 1 /\ Top \in Frames
    BY <1>1, TopIsAFrame, Ending DEF IInv
  <2>3. CASE WakeUp
    <3>1. port \in Top.on \cap data
      BY <2>3 DEF WakeUp, End
    <3>2. port # Nothing
      BY <2>2, <3>1, PlacesOfFrames, WaitsAssumption DEF WaitsAssumption, Waitable
    <3> QED
      BY <2>1, <3>1, <3>2
  <2>4. CASE NothingWoke
    <3>1. Top.on \cap data = {}
      BY <2>4 DEF NothingWoke
    <3>2. Top.left = 0
      BY <1>1, <2>2, <2>4, NothingWokeOrWaitsOn DEF IInv
    <3>3. port = Nothing
      BY <2>4, <3>2 DEF NothingWoke, End
    <3> QED
      BY <2>1, <3>1, <3>3
  <2>5. CASE WakeNext \/ KeepLooking
    BY <1>1, <2>2, <2>5, StaysAsDeep DEF IInv
  <2>6. CASE Posts
    BY <2>2, <2>6 DEF Posts, Post
  <2>7. CASE Stop
    BY <2>7, WaitsAssumption DEF Stop, WaitsAssumption, Waitable
  <2>8. Next => WakeUp \/ NothingWoke \/ WakeNext \/ KeepLooking \/ Posts \/ Stop
    BY DEF Next, Waits, Deliver, Pause, PauseCutShort, DoCallback, Handlers, SaysTrue,
       SaysOtherwise, Raises, CallbackAnswers, CallbackRaises, Scripts, WaitOnPorts, WaitOnScreen, Begin,
       ScriptRuns, ScreenWaitEnds
  <2> QED
    BY <2>3, <2>4, <2>5, <2>6, <2>7, <2>8
<1>2. [Said1]_vars => [\A port \in Waitable \cup {Nothing} :
                         (/\ waits # <<>> /\ Top.alone /\ Top.at = "awake"
                          /\ waits' = Front(waits) /\ outcome' = port)
                           => IF port = Nothing THEN Top.on \cap Top.heard = {}
                              ELSE port \in Top.on \cap Top.heard]_vars
  BY DEF ComesTo
<1> QED
  BY <1>1, <1>2, SpecIsSound, PTL DEF Spec, WakesMeanWhatTheySay

-----------------------------------------------------------------------------
(***************************************************************************)
(* The steps of WAIT as steps of Deliveries.                               *)
(***************************************************************************)
LEMMA PostsArePosts ==
  ASSUME IInv, Posts
  PROVE  Promised!Next
<1>1. PICK k \in Kinds : \E to \in Targets(k) : Post(k, to)
  BY DEF Posts
<1>2. PICK to \in Targets(k) : Post(k, to)
  BY <1>1
<1>3. Promised!Post(k, to) /\ k \in Promised!Kinds /\ to \in Promised!Targets(k)
  BY <1>2 DEF Post, Promised!Post, Kinds, Promised!Kinds, Targets, Promised!Targets
<1> QED
  BY <1>3 DEF Promised!Next

LEMMA WakesAreHandlings ==
  ASSUME IInv, WakeNext
  PROVE  Promised!Next
<1> DEFINE post == Head(state)
           k == post.kind
           n == post.n
<1>1. /\ post \in Postings /\ n \in handled[k] + 1 .. polled[k] /\ PortOf(post) # Nameless
      /\ \A m \in handled[k] + 1 .. n - 1 : posted[k][m] = Nameless
  BY FirstQueued
<1>2. handled' = [handled EXCEPT ![k] = n] /\ UNCHANGED <<posted, answers>>
  BY DEF WakeNext
<1>3. k \in Kinds /\ posted[k][n] # Nameless
  BY <1>1 DEF Postings, PortOf
<1> HIDE DEF post, k, n
<1>4. /\ handled[k] \in Nat /\ polled[k] \in Nat /\ polled[k] <= Len(posted[k])
      /\ Len(posted[k]) \in Nat
  BY <1>3, LenProperties DEF IInv, TypeOK, PostboxOK
<1>5. n \in handled[k] + 1 .. Len(posted[k]) /\ n \in 1 .. Len(posted[k])
  BY <1>1, <1>4
<1>6. Promised!Handle(k, n)
  BY <1>1, <1>2, <1>3, <1>5 DEF Promised!Handle
<1> QED
  BY <1>3, <1>5, <1>6 DEF Promised!Next, Promised!Kinds, Kinds

LEMMA AnswersAreAnswers ==
  ASSUME IInv, CallbackAnswers \/ CallbackRaises
  PROVE  Promised!Next
<1> DEFINE n == Top.post.n
<1>1. PICK as \in {"answered", "failed"} : answers' = [answers EXCEPT ![n] = as]
  BY DEF CallbackAnswers, CallbackRaises
<1>2. waits # <<>> /\ Top.at = "calling" /\ UNCHANGED <<posted, handled>>
  BY DEF CallbackAnswers, CallbackRaises
<1>3. n \in 1 .. handled["callback"] /\ answers[n] = "awaited"
  BY <1>2, TopCallsAlone
<1> HIDE DEF n
<1>4. answers' = [m \in DOMAIN answers |-> IF m \in {n} THEN as ELSE answers[m]]
  BY <1>1
<1>5. Promised!Answer({n}, as)
  BY <1>2, <1>3, <1>4 DEF Promised!Answer
<1>6. {n} \in SUBSET (1 .. handled["callback"])
  BY <1>3
<1> QED
  BY <1>5, <1>6 DEF Promised!Next

LEMMA StopsAreAnswers ==
  ASSUME IInv, Stop
  PROVE  Promised!Next
<1>1. /\ waits # <<>> /\ UNCHANGED <<posted, handled>>
      /\ answers' = [n \in DOMAIN answers |-> IF n \in Calling THEN "failed" ELSE answers[n]]
  BY DEF Stop
<1>2. ASSUME NEW n \in Calling
      PROVE  n \in 1 .. handled["callback"] /\ answers[n] = "awaited"
  <2>1. Held(n, waits)
    BY <1>1, HeldIsCalledOrAtTheTop
  <2>2. n \in 1 .. handled["callback"]
    <3>1. PICK i \in 1 .. Len(waits) : InHand(waits[i]) /\ waits[i].post.n = n
      BY <2>1 DEF Held
    <3>2. FrameOK(waits[i], posted, handled)
      BY DEF IInv, WaitsOK
    <3> QED
      BY <3>1, <3>2 DEF FrameOK, PostOK, InHand
  <2> QED
    BY <2>1, <2>2, AnsweredAsHeld DEF IInv, TypeOK
<1>3. Promised!Answer(Calling, "failed")
  BY <1>1, <1>2 DEF Promised!Answer
<1>4. Calling \in SUBSET (1 .. handled["callback"])
  BY <1>2
<1> QED
  BY <1>3, <1>4 DEF Promised!Next

(***************************************************************************)
(* Postbox, WAIT, system port and DO-CALLBACK together deliver what        *)
(* Deliveries promises an extension: in order, at most once, answered at   *)
(* most once, however WAITs run within WAITs and runs are stopped.         *)
(***************************************************************************)
THEOREM WaitsDeliver == Spec => DeliveriesSpec
<1>1. Init => Promised!Init
  BY DEF Init, Promised!Init, Kinds, Promised!Kinds
<1>2. ASSUME IInv, [Next]_vars PROVE [Promised!Next]_(Promised!deliveryVars)
  <2>1. CASE Posts
    BY <1>2, <2>1, PostsArePosts
  <2>2. CASE WakeNext
    BY <1>2, <2>2, WakesAreHandlings
  <2>3. CASE CallbackAnswers \/ CallbackRaises
    BY <1>2, <2>3, AnswersAreAnswers
  <2>4. CASE Stop
    BY <1>2, <2>4, StopsAreAnswers
  <2>5. CASE Waits /\ ~WakeNext
    BY <2>5 DEF Waits, Deliver, WakeUp, KeepLooking, NothingWoke, Pause, PauseCutShort, DoCallback,
       Promised!deliveryVars
  <2>6. CASE Scripts
    BY <2>6 DEF Scripts, WaitOnPorts, WaitOnScreen, Begin, ScreenWaitEnds, Promised!deliveryVars
  <2>7. CASE SaysTrue \/ SaysOtherwise \/ Raises
    BY <2>7 DEF SaysTrue, SaysOtherwise, Raises, Promised!deliveryVars
  <2>8. CASE UNCHANGED vars
    BY <2>8 DEF vars, Promised!deliveryVars
  <2> QED
    BY <1>2, <2>1, <2>2, <2>3, <2>4, <2>5, <2>6, <2>7, <2>8 DEF Next, Handlers
<1> QED
  BY <1>1, <1>2, SpecIsSound, PTL DEF Spec, DeliveriesSpec, Promised!Spec
=============================================================================
