---------------------------- MODULE PageAsksProofs -----------------------------
(***************************************************************************)
(* What holds of asks and their answers for every set of browsers, every   *)
(* number of asks, and whatever pages, operators and streams do.           *)
(***************************************************************************)
EXTENDS PageAsks, SequenceTheorems, TLAPS

\* A future that is complete has the first answer to its ask; one that is
\* not has had none.
FuturesHoldFirstAnswers ==
  \A n \in Numbers :
    /\ waitingForAnswers[n] \in Answers =>
         waitingForAnswers[n].ask = n /\ waitingForAnswers[n] = first
    /\ waitingForAnswers[n] = Pending => first = None

\* What is true of the server whatever the pages do.
ServerInv ==
  /\ OnlyTheAskInFlightWaits
  /\ FuturesHoldFirstAnswers
  /\ AnswersNameTheirAsk
  /\ TheFirstAnswerStands

IInv == TypeOK /\ ServerInv

(***************************************************************************)
(* The three words that are no answer are none, and differ.                *)
(***************************************************************************)
LEMMA NoAnswersAreNone ==
  /\ Absent \notin Answers /\ Pending \notin Answers /\ None \notin Answers
  /\ Absent # Pending
  /\ \A n \in Numbers : n # 0
BY AsksAssumption DEF AsksAssumption, Absent, Pending, None, NoAnswer, Answers, Numbers

(***************************************************************************)
(* ServerInv speaks of what the server keeps and of nothing else.          *)
(***************************************************************************)
LEMMA PagesLeaveTheServer ==
  ASSUME ServerInv, UNCHANGED serverVars
  PROVE  ServerInv'
BY DEF ServerInv, serverVars, OnlyTheAskInFlightWaits, FuturesHoldFirstAnswers,
       AnswersNameTheirAsk, TheFirstAnswerStands

(***************************************************************************)
(* Posting an answer to an ask that has been made keeps the posts typed    *)
(* (jebol-asks.js, give).                                                  *)
(***************************************************************************)
LEMMA PostingIsTyped ==
  ASSUME TypeOK, NEW b \in Browsers, NEW n \in 1 .. asksMade, NEW word \in Words,
         Post(b, n, word)
  PROVE  posts' \in [Browsers -> Seq([ask : 1 .. asksMade, answer : Words])]
<1> DEFINE S == [ask : 1 .. asksMade, answer : Words]
           a == [ask |-> n, answer |-> word]
<1>1. a \in S /\ posts[b] \in Seq(S)
  BY DEF TypeOK
<1> HIDE DEF S, a
<1>2. Append(posts[b], a) \in Seq(S)
  BY <1>1, AppendProperties
<1>3. posts' = [posts EXCEPT ![b] = Append(posts[b], a)]
  BY DEF Post, a
<1>4. posts \in [Browsers -> Seq(S)]
  BY DEF TypeOK, S
<1> QED
  BY <1>2, <1>3, <1>4 DEF S

\* At the start nobody asks and nothing is waited for.
LEMMA InitIsSound == Init => IInv
<1> SUFFICES ASSUME Init PROVE IInv
  OBVIOUS
<1>1. asksMade = 0 /\ asking = 0 /\ 0 \in 0 .. MaxAsks /\ Loaded \in
        [prompt : 0 .. asksMade, chooser : 0 .. asksMade,
         writing : SUBSET (1 .. asksMade), working : SUBSET (1 .. asksMade)]
  BY AsksAssumption DEF AsksAssumption, Init, Loaded
<1>2. stream \in [Browsers -> Seq(1 .. asksMade)]
  BY DEF Init
<1>3. posts \in [Browsers -> Seq([ask : 1 .. asksMade, answer : Words])]
  BY DEF Init
<1>4. page \in [Browsers -> [prompt : 0 .. asksMade, chooser : 0 .. asksMade,
                             writing : SUBSET (1 .. asksMade), working : SUBSET (1 .. asksMade)]]
  BY <1>1 DEF Init
<1>5. \A b \in Browsers : page[b].chooser = 0
  BY DEF Init, Loaded
<1>6. TypeOK
  <2>1. /\ asksMade \in 0 .. MaxAsks /\ asking \in 0 .. asksMade
        /\ outcome \in [to : 0 .. asksMade, got : Answers \cup {None}]
    BY <1>1 DEF Init, NoOutcome
  <2>2. /\ kind \in [Numbers -> Kinds \cup {"none"}]
        /\ waitingForAnswers \in [Numbers -> Answers \cup {Absent, Pending}]
        /\ first \in Answers \cup {None}
    BY DEF Init
  <2>3. /\ listening \subseteq Browsers /\ holding \subseteq Browsers
        /\ broken \in BOOLEAN /\ faulted \in BOOLEAN
    BY DEF Init
  <2> QED
    BY <1>2, <1>3, <1>4, <1>5, <2>1, <2>2, <2>3 DEF TypeOK
<1>7. ServerInv
  BY <1>1, NoAnswersAreNone
     DEF Init, NoOutcome, ServerInv, OnlyTheAskInFlightWaits, FuturesHoldFirstAnswers,
         AnswersNameTheirAsk, TheFirstAnswerStands
<1> QED
  BY <1>6, <1>7 DEF IInv

(***************************************************************************)
(* What is on a page, in a stream or in a post names asks that have been   *)
(* made, and still does once another has been (WebScreenServer.ask).       *)
(***************************************************************************)
LEMMA AnotherAskKeepsWhatIsOnItsWay ==
  ASSUME TypeOK, asksMade' = asksMade + 1
  PROVE  /\ \A b \in Browsers : stream[b] \in Seq(1 .. asksMade')
         /\ posts \in [Browsers -> Seq([ask : 1 .. asksMade', answer : Words])]
         /\ page \in [Browsers -> [prompt : 0 .. asksMade', chooser : 0 .. asksMade',
                                   writing : SUBSET (1 .. asksMade'),
                                   working : SUBSET (1 .. asksMade')]]
<1>1. /\ asksMade \in Nat
      /\ 1 .. asksMade \subseteq 1 .. asksMade' /\ 0 .. asksMade \subseteq 0 .. asksMade'
  BY AsksAssumption DEF AsksAssumption, TypeOK
<1>2. \A b \in Browsers : stream[b] \in Seq(1 .. asksMade')
  <2> TAKE b \in Browsers
  <2>1. stream[b] \in Seq(1 .. asksMade)
    BY DEF TypeOK
  <2> QED
    BY <1>1, <2>1, SeqMonotonic
<1>3. posts \in [Browsers -> Seq([ask : 1 .. asksMade', answer : Words])]
  <2> DEFINE S == [ask : 1 .. asksMade, answer : Words]
             T == [ask : 1 .. asksMade', answer : Words]
  <2>1. S \subseteq T
    BY <1>1
  <2>2. \A b \in Browsers : posts[b] \in Seq(S)
    BY DEF TypeOK
  <2> HIDE DEF S, T
  <2>3. \A b \in Browsers : posts[b] \in Seq(T)
    BY <2>1, <2>2, SeqMonotonic
  <2> QED
    BY <2>3 DEF TypeOK, T
<1>4. page \in [Browsers -> [prompt : 0 .. asksMade', chooser : 0 .. asksMade',
                             writing : SUBSET (1 .. asksMade'),
                             working : SUBSET (1 .. asksMade')]]
  BY <1>1 DEF TypeOK
<1> QED
  BY <1>2, <1>3, <1>4

\* The next ask is one nobody has answered, and the only one waited for.
LEMMA AskIsSound ==
  ASSUME IInv, NEW k \in Kinds, Ask(k)
  PROVE  IInv'
<1> DEFINE n == asksMade'
<1>1. n \in Numbers /\ n = asksMade + 1 /\ asksMade \in Nat /\ n \in 0 .. MaxAsks
  BY AsksAssumption DEF AsksAssumption, Ask, IInv, TypeOK, Numbers
<1>2. \A m \in Numbers : waitingForAnswers[m] = Absent
  BY NoAnswersAreNone DEF IInv, ServerInv, OnlyTheAskInFlightWaits, Ask
<1>3. /\ waitingForAnswers \in [Numbers -> Answers \cup {Absent, Pending}]
      /\ waitingForAnswers' = [waitingForAnswers EXCEPT ![n] = Pending]
      /\ asking' = n /\ first' = None /\ outcome' = NoOutcome
  BY DEF Ask, IInv, TypeOK
<1>4. TypeOK'
  <2>1. /\ asksMade' \in 0 .. MaxAsks /\ asking' \in 0 .. asksMade'
        /\ kind' \in [Numbers -> Kinds \cup {"none"}]
        /\ waitingForAnswers' \in [Numbers -> Answers \cup {Absent, Pending}]
        /\ first' \in Answers \cup {None}
    BY <1>1, <1>3 DEF Ask, IInv, TypeOK
  <2>2. outcome' \in [to : 0 .. asksMade', got : Answers \cup {None}]
    BY <1>1, <1>3 DEF NoOutcome
  <2>3. /\ listening' \subseteq Browsers /\ holding' \subseteq Browsers
        /\ broken' \in BOOLEAN /\ faulted' \in BOOLEAN
    BY DEF Ask, Dispatch, IInv, TypeOK
  <2>4. stream' \in [Browsers -> Seq(1 .. asksMade')]
    <3>1. n \in 1 .. asksMade'
      BY <1>1
    <3>2. \A b \in Browsers : stream[b] \in Seq(1 .. asksMade')
      BY <1>1, AnotherAskKeepsWhatIsOnItsWay DEF IInv
    <3>3. \A b \in Browsers : Append(stream[b], n) \in Seq(1 .. asksMade')
      BY <3>1, <3>2, AppendProperties
    <3> QED
      BY <3>2, <3>3 DEF Ask, Dispatch
  <2>5. /\ posts' \in [Browsers -> Seq([ask : 1 .. asksMade', answer : Words])]
        /\ page' \in [Browsers -> [prompt : 0 .. asksMade', chooser : 0 .. asksMade',
                                   writing : SUBSET (1 .. asksMade'),
                                   working : SUBSET (1 .. asksMade')]]
    BY <1>1, AnotherAskKeepsWhatIsOnItsWay DEF IInv, Ask
  <2>6. \A b \in Browsers :
          page'[b].chooser # 0 => kind'[page'[b].chooser] = "files" /\ page'[b].prompt # 0
    <3> TAKE b \in Browsers
    <3>1. page[b].chooser \in 0 .. asksMade /\ page' = page
      BY DEF IInv, TypeOK, Ask
    <3>2. page[b].chooser # n
      BY <1>1, <3>1
    <3>3. page[b].chooser # 0 => page[b].chooser \in Numbers
      BY <3>1, <1>1, AsksAssumption DEF AsksAssumption, Numbers
    <3>4. page[b].chooser # 0 => kind'[page[b].chooser] = kind[page[b].chooser]
      BY <3>2, <3>3 DEF Ask, IInv, TypeOK
    <3> QED
      BY <3>1, <3>4 DEF IInv, TypeOK
  <2> QED
    BY <2>1, <2>2, <2>3, <2>4, <2>5, <2>6 DEF TypeOK
<1>5. OnlyTheAskInFlightWaits'
  BY <1>1, <1>2, <1>3, NoAnswersAreNone DEF OnlyTheAskInFlightWaits
<1>6. FuturesHoldFirstAnswers'
  <2> SUFFICES ASSUME NEW m \in Numbers
               PROVE  /\ waitingForAnswers'[m] \notin Answers
                      /\ waitingForAnswers'[m] = Pending => first' = None
    BY DEF FuturesHoldFirstAnswers
  <2>1. waitingForAnswers'[m] = IF m = n THEN Pending ELSE Absent
    BY <1>2, <1>3
  <2> QED
    BY <1>3, <2>1, NoAnswersAreNone
<1>7. AnswersNameTheirAsk' /\ TheFirstAnswerStands'
  BY <1>3 DEF NoOutcome, AnswersNameTheirAsk, TheFirstAnswerStands
<1> QED
  BY <1>4, <1>5, <1>6, <1>7 DEF IInv, ServerInv

\* What the waiting thread is given is what its future holds.
LEMMA AnsweredIsSound ==
  ASSUME IInv, Answered
  PROVE  IInv'
<1> DEFINE n == asking
<1>1. /\ n \in Numbers /\ n \in 0 .. asksMade
      /\ waitingForAnswers[n] # Pending /\ waitingForAnswers[n] # Absent
  BY AsksAssumption, NoAnswersAreNone
     DEF AsksAssumption, Answered, IInv, TypeOK, ServerInv, OnlyTheAskInFlightWaits, Numbers
<1>2. waitingForAnswers[n] \in Answers
  BY <1>1 DEF IInv, TypeOK
<1>3. waitingForAnswers[n].ask = n /\ waitingForAnswers[n] = first
  BY <1>1, <1>2 DEF IInv, ServerInv, FuturesHoldFirstAnswers
<1>4. /\ outcome' = [to |-> n, got |-> waitingForAnswers[n]]
      /\ waitingForAnswers' = [waitingForAnswers EXCEPT ![n] = Absent]
      /\ asking' = 0 /\ UNCHANGED <<asksMade, kind, first, linkVars, page, posts, holding, faulted>>
  BY DEF Answered
<1>5. TypeOK'
  <2>1. outcome' \in [to : 0 .. asksMade, got : Answers \cup {None}]
    BY <1>1, <1>2, <1>4
  <2>2. waitingForAnswers' \in [Numbers -> Answers \cup {Absent, Pending}]
    BY <1>4 DEF IInv, TypeOK
  <2>3. asksMade \in Nat /\ asking' \in 0 .. asksMade
    BY <1>4, AsksAssumption DEF AsksAssumption, IInv, TypeOK
  <2> QED
    BY <1>4, <2>1, <2>2, <2>3 DEF IInv, TypeOK, linkVars
<1>6. OnlyTheAskInFlightWaits'
  BY <1>1, <1>4, NoAnswersAreNone DEF IInv, TypeOK, ServerInv, OnlyTheAskInFlightWaits
<1>7. FuturesHoldFirstAnswers'
  <2> SUFFICES ASSUME NEW m \in Numbers
               PROVE  /\ waitingForAnswers'[m] \in Answers =>
                           waitingForAnswers'[m].ask = m /\ waitingForAnswers'[m] = first
                      /\ waitingForAnswers'[m] = Pending => first = None
    BY <1>4 DEF FuturesHoldFirstAnswers
  <2>1. waitingForAnswers'[m] = IF m = n THEN Absent ELSE waitingForAnswers[m]
    BY <1>4 DEF IInv, TypeOK
  <2> QED
    BY <2>1, NoAnswersAreNone DEF IInv, ServerInv, FuturesHoldFirstAnswers
<1>8. AnswersNameTheirAsk' /\ TheFirstAnswerStands'
  BY <1>3, <1>4 DEF AnswersNameTheirAsk, TheFirstAnswerStands
<1> QED
  BY <1>5, <1>6, <1>7, <1>8 DEF IInv, ServerInv

\* The first post of a browser is an answer to an ask that has been made.
LEMMA PostsAnswerAsksMade ==
  ASSUME TypeOK, NEW b \in Browsers, posts[b] # <<>>
  PROVE  /\ Head(posts[b]) \in Answers /\ Head(posts[b]).ask \in 1 .. asksMade
         /\ [posts EXCEPT ![b] = Tail(posts[b])]
              \in [Browsers -> Seq([ask : 1 .. asksMade, answer : Words])]
<1> DEFINE S == [ask : 1 .. asksMade, answer : Words]
<1>1. posts \in [Browsers -> Seq(S)]
  BY DEF TypeOK
<1>2. \A a \in S : a \in Answers /\ a.ask \in 1 .. asksMade
  BY AsksAssumption DEF AsksAssumption, TypeOK, Answers, Numbers
<1> HIDE DEF S
<1>3. Head(posts[b]) \in S /\ Tail(posts[b]) \in Seq(S)
  BY <1>1, HeadTailProperties
<1>4. [posts EXCEPT ![b] = Tail(posts[b])] \in [Browsers -> Seq(S)]
  BY <1>1, <1>3
<1> QED
  BY <1>2, <1>3, <1>4 DEF S

(***************************************************************************)
(* An answer completes the future of the ask it names if that is waited    *)
(* for and has no answer, and otherwise changes nothing                    *)
(* (WebScreenServer.dispatch).                                             *)
(***************************************************************************)
LEMMA ReceivingIsSound ==
  ASSUME IInv, NEW b \in Browsers, ReceiveEvent(b)
  PROVE  IInv'
<1> DEFINE a == Head(posts[b])
<1>1. /\ a \in Answers /\ a.ask \in 1 .. asksMade /\ a.ask \in Numbers
      /\ posts' \in [Browsers -> Seq([ask : 1 .. asksMade, answer : Words])]
  BY PostsAnswerAsksMade DEF ReceiveEvent, IInv, Answers
<1>2. waitingForAnswers' = Complete(a)
  BY DEF ReceiveEvent
<1>3. first' = IF a.ask = asking /\ first = None THEN a ELSE first
  BY DEF ReceiveEvent
<1>4. UNCHANGED <<asksMade, kind, asking, outcome, linkVars, page, holding, faulted>>
  BY DEF ReceiveEvent
<1> HIDE DEF a
<1>5. \A n \in Numbers :
        waitingForAnswers'[n] = IF n = a.ask /\ waitingForAnswers[n] = Pending THEN a
                                ELSE waitingForAnswers[n]
  BY <1>2 DEF Complete
<1>6. TypeOK'
  <2>1. waitingForAnswers' \in [Numbers -> Answers \cup {Absent, Pending}]
    BY <1>1, <1>2 DEF Complete, IInv, TypeOK
  <2>2. first' \in Answers \cup {None}
    BY <1>1, <1>3 DEF IInv, TypeOK
  <2> QED
    BY <1>1, <1>4, <2>1, <2>2 DEF IInv, TypeOK, linkVars
<1>7. OnlyTheAskInFlightWaits'
  BY <1>1, <1>4, <1>5, NoAnswersAreNone DEF IInv, ServerInv, OnlyTheAskInFlightWaits
<1>8. FuturesHoldFirstAnswers'
  <2> SUFFICES ASSUME NEW n \in Numbers
               PROVE  /\ waitingForAnswers'[n] \in Answers =>
                           waitingForAnswers'[n].ask = n /\ waitingForAnswers'[n] = first'
                      /\ waitingForAnswers'[n] = Pending => first' = None
    BY DEF FuturesHoldFirstAnswers
  <2>1. /\ waitingForAnswers[n] \in Answers =>
             waitingForAnswers[n].ask = n /\ waitingForAnswers[n] = first
        /\ waitingForAnswers[n] = Pending => first = None
        /\ waitingForAnswers[n] = Pending => n = asking
    BY NoAnswersAreNone DEF IInv, ServerInv, FuturesHoldFirstAnswers, OnlyTheAskInFlightWaits
  <2>2. CASE waitingForAnswers[n] = Pending /\ n = a.ask
    BY <1>1, <1>3, <1>5, <2>1, <2>2, NoAnswersAreNone
  <2>3. CASE waitingForAnswers[n] = Pending /\ n # a.ask
    BY <1>3, <1>5, <2>1, <2>3, NoAnswersAreNone
  <2>4. CASE waitingForAnswers[n] # Pending
    BY <1>3, <1>5, <2>1, <2>4, NoAnswersAreNone
  <2> QED
    BY <2>2, <2>3, <2>4
<1>9. AnswersNameTheirAsk' /\ TheFirstAnswerStands'
  BY <1>3, <1>4 DEF IInv, ServerInv, AnswersNameTheirAsk, TheFirstAnswerStands
<1> QED
  BY <1>6, <1>7, <1>8, <1>9 DEF IInv, ServerInv

(***************************************************************************)
(* What a page can be once asksMade asks have been made: a chooser is open *)
(* only over a prompt.                                                     *)
(***************************************************************************)
PageStates == [prompt : 0 .. asksMade, chooser : 0 .. asksMade,
               writing : SUBSET (1 .. asksMade), working : SUBSET (1 .. asksMade)]

Sensible(p) == p.chooser # 0 => kind[p.chooser] = "files" /\ p.prompt # 0

LEMMA PageIsTyped ==
  ASSUME TypeOK, NEW b \in Browsers, NEW p \in PageStates, Sensible(p),
         page' = [page EXCEPT ![b] = p], UNCHANGED serverVars,
         listening' \subseteq Browsers, holding' \subseteq Browsers,
         broken' \in BOOLEAN, faulted' \in BOOLEAN,
         stream' \in [Browsers -> Seq(1 .. asksMade)],
         posts' \in [Browsers -> Seq([ask : 1 .. asksMade, answer : Words])]
  PROVE  TypeOK'
<1>1. page' \in [Browsers -> PageStates]
  BY DEF TypeOK, PageStates
<1>2. \A x \in Browsers : page'[x] = IF x = b THEN p ELSE page[x]
  BY DEF TypeOK
<1>3. \A x \in Browsers : Sensible(page'[x])
  BY <1>2 DEF TypeOK, Sensible
<1>4. UNCHANGED <<asksMade, kind, asking, waitingForAnswers, outcome, first>>
  BY DEF serverVars
<1> QED
  BY <1>1, <1>3, <1>4 DEF TypeOK, PageStates, Sensible

\* A step that leaves the pages alone keeps them typed.
LEMMA OtherPartsAreTyped ==
  ASSUME TypeOK, UNCHANGED <<serverVars, page>>,
         listening' \subseteq Browsers, holding' \subseteq Browsers,
         broken' \in BOOLEAN, faulted' \in BOOLEAN,
         stream' \in [Browsers -> Seq(1 .. asksMade)],
         posts' \in [Browsers -> Seq([ask : 1 .. asksMade, answer : Words])]
  PROVE  TypeOK'
BY DEF TypeOK, serverVars

\* Everything but the pages is as it was, and typed.
LEMMA NothingElseIsTyped ==
  ASSUME TypeOK
  PROVE  /\ listening \subseteq Browsers /\ holding \subseteq Browsers
         /\ broken \in BOOLEAN /\ faulted \in BOOLEAN
         /\ stream \in [Browsers -> Seq(1 .. asksMade)]
         /\ posts \in [Browsers -> Seq([ask : 1 .. asksMade, answer : Words])]
         /\ asksMade \in Nat
         /\ \A b \in Browsers : page[b] \in PageStates /\ Sensible(page[b])
<1>1. /\ listening \subseteq Browsers /\ holding \subseteq Browsers
      /\ broken \in BOOLEAN /\ faulted \in BOOLEAN
      /\ stream \in [Browsers -> Seq(1 .. asksMade)]
      /\ posts \in [Browsers -> Seq([ask : 1 .. asksMade, answer : Words])]
  BY DEF TypeOK
<1>2. asksMade \in Nat
  BY AsksAssumption DEF AsksAssumption, TypeOK
<1>3. \A b \in Browsers : page[b] \in PageStates
  BY DEF TypeOK, PageStates
<1>4. \A b \in Browsers : Sensible(page[b])
  BY DEF TypeOK, Sensible
<1> QED
  BY <1>1, <1>2, <1>3, <1>4

(***************************************************************************)
(* A prompt shown or hidden leaves a page one that can be, the hidden one  *)
(* when no chooser is open (jebol-asks.js, showPrompt and hidePrompt).     *)
(***************************************************************************)
LEMMA PromptIsTyped ==
  ASSUME TypeOK, NEW p \in PageStates, Sensible(p), NEW n \in 1 .. asksMade
  PROVE  /\ ShowPrompt(p, n) \in PageStates /\ Sensible(ShowPrompt(p, n))
         /\ p.chooser = 0 => HidePrompt(p) \in PageStates /\ Sensible(HidePrompt(p))
<1>1. n # 0 /\ n \in 0 .. asksMade /\ 0 \in 0 .. asksMade
  BY NothingElseIsTyped
<1>2. ShowPrompt(p, n) \in PageStates /\ HidePrompt(p) \in PageStates
  BY <1>1 DEF ShowPrompt, HidePrompt, PageStates
<1>3. /\ ShowPrompt(p, n).prompt = n /\ ShowPrompt(p, n).chooser = p.chooser
      /\ HidePrompt(p).chooser = p.chooser
  BY DEF ShowPrompt, HidePrompt, PageStates
<1> QED
  BY <1>1, <1>2, <1>3 DEF Sensible

\* What is noted of the ask in flight is noted of browsers.
LEMMA LosingIsTyped ==
  ASSUME TypeOK, NEW b \in Browsers, LosePrompt(b)
  PROVE  holding' \subseteq Browsers
BY DEF LosePrompt, TypeOK

(***************************************************************************)
(* A page that takes an ask shows it on its one prompt, refuses it, or     *)
(* begins to write to the clipboard (jebol-asks.js, take).                 *)
(***************************************************************************)
LEMMA TakingIsTyped ==
  ASSUME TypeOK, NEW b \in Browsers, Take(b)
  PROVE  TypeOK'
<1> DEFINE n == Head(stream[b])
<1>1. n \in 1 .. asksMade /\ Tail(stream[b]) \in Seq(1 .. asksMade)
  BY HeadTailProperties DEF TypeOK, Take
<1>2. stream' \in [Browsers -> Seq(1 .. asksMade)]
  BY <1>1 DEF Take, TypeOK
<1>3. UNCHANGED <<serverVars, listening, broken, holding, faulted>>
  BY DEF Take
<1>4. page[b] \in PageStates /\ Sensible(page[b])
  BY NothingElseIsTyped
<1>5. \/ Post(b, n, "refused") /\ UNCHANGED page
      \/ page' = [page EXCEPT ![b].writing = @ \cup {n}] /\ UNCHANGED posts
      \/ page' = [page EXCEPT ![b] = ShowPrompt(page[b], n)] /\ UNCHANGED posts
  BY DEF Take
<1> HIDE DEF n
<1>6. CASE Post(b, n, "refused") /\ UNCHANGED page
  <2>1. posts' \in [Browsers -> Seq([ask : 1 .. asksMade, answer : Words])]
    BY <1>1, <1>6, PostingIsTyped DEF Words
  <2> QED
    BY <1>2, <1>3, <1>6, <2>1, OtherPartsAreTyped, NothingElseIsTyped
<1>7. CASE page' = [page EXCEPT ![b].writing = @ \cup {n}] /\ UNCHANGED posts
  <2> DEFINE p == [page[b] EXCEPT !.writing = @ \cup {n}]
  <2>1. p \in PageStates /\ Sensible(p)
    BY <1>1, <1>4 DEF PageStates, Sensible
  <2>2. page' = [page EXCEPT ![b] = p]
    BY <1>7 DEF TypeOK
  <2> HIDE DEF p
  <2> QED
    BY <1>2, <1>3, <1>7, <2>1, <2>2, PageIsTyped, NothingElseIsTyped
<1>8. CASE page' = [page EXCEPT ![b] = ShowPrompt(page[b], n)] /\ UNCHANGED posts
  <2>1. ShowPrompt(page[b], n) \in PageStates /\ Sensible(ShowPrompt(page[b], n))
    BY <1>1, <1>4, PromptIsTyped
  <2> QED
    BY <1>2, <1>3, <1>8, <2>1, PageIsTyped, NothingElseIsTyped
<1> QED
  BY <1>5, <1>6, <1>7, <1>8

\* A write that is done is posted, and one rejected takes the prompt.
LEMMA SettlingIsTyped ==
  ASSUME TypeOK, NEW b \in Browsers, SettleWrite(b)
  PROVE  TypeOK'
<1>1. PICK n \in page[b].writing :
        LET settled == [page[b] EXCEPT !.writing = @ \ {n}] IN
        /\ \/ /\ page' = [page EXCEPT ![b] = settled]
              /\ Post(b, n, "given")
              /\ UNCHANGED holding
           \/ /\ page' = [page EXCEPT ![b] = ShowPrompt(settled, n)]
              /\ LosePrompt(b)
              /\ UNCHANGED posts
        /\ UNCHANGED <<serverVars, linkVars, faulted>>
  BY DEF SettleWrite
<1> DEFINE p == [page[b] EXCEPT !.writing = @ \ {n}]
<1>2. page[b] \in PageStates /\ Sensible(page[b])
  BY NothingElseIsTyped
<1>3. n \in 1 .. asksMade
  BY <1>1, <1>2 DEF PageStates
<1>4. p \in PageStates /\ Sensible(p)
  BY <1>2 DEF PageStates, Sensible
<1>5. \/ page' = [page EXCEPT ![b] = p] /\ Post(b, n, "given") /\ UNCHANGED holding
      \/ page' = [page EXCEPT ![b] = ShowPrompt(p, n)] /\ LosePrompt(b) /\ UNCHANGED posts
  BY <1>1
<1>6. UNCHANGED <<serverVars, linkVars, faulted>>
  BY <1>1
<1> HIDE DEF p
<1>7. CASE page' = [page EXCEPT ![b] = p] /\ Post(b, n, "given") /\ UNCHANGED holding
  <2>1. posts' \in [Browsers -> Seq([ask : 1 .. asksMade, answer : Words])]
    BY <1>3, <1>7, PostingIsTyped DEF Words
  <2> QED
    BY <1>4, <1>6, <1>7, <2>1, PageIsTyped, NothingElseIsTyped DEF linkVars
<1>8. CASE page' = [page EXCEPT ![b] = ShowPrompt(p, n)] /\ LosePrompt(b) /\ UNCHANGED posts
  <2>1. ShowPrompt(p, n) \in PageStates /\ Sensible(ShowPrompt(p, n))
    BY <1>3, <1>4, PromptIsTyped
  <2>2. holding' \subseteq Browsers
    BY <1>8, LosingIsTyped
  <2> QED
    BY <1>6, <1>8, <2>1, <2>2, PageIsTyped, NothingElseIsTyped DEF linkVars
<1> QED
  BY <1>5, <1>7, <1>8

\* The operator's Yes opens the chooser or sets the answer to work.
LEMMA YesIsTyped ==
  ASSUME TypeOK, NEW b \in Browsers, Yes(b)
  PROVE  TypeOK'
<1> DEFINE n == page[b].prompt
           q == [page[b] EXCEPT !.working = @ \cup {n}]
           p == IF kind[n] = "files" THEN [page[b] EXCEPT !.chooser = n] ELSE HidePrompt(q)
<1>1. n # 0 /\ page[b].chooser = 0 /\ UNCHANGED <<serverVars, linkVars, posts, holding, faulted>>
  BY DEF Yes, CanClick
<1>2. n \in 1 .. asksMade /\ page[b] \in PageStates
  BY <1>1, NothingElseIsTyped DEF PageStates
<1>3. p \in PageStates /\ Sensible(p)
  <2>1. CASE kind[n] = "files"
    BY <1>1, <1>2, <2>1 DEF PageStates, Sensible
  <2>2. CASE kind[n] # "files"
    <3>1. q \in PageStates /\ q.chooser = 0
      BY <1>1, <1>2 DEF PageStates
    <3>2. Sensible(q)
      BY <3>1 DEF Sensible
    <3> HIDE DEF q
    <3> QED
      BY <1>2, <2>2, <3>1, <3>2, PromptIsTyped
  <2> QED
    BY <2>1, <2>2
<1>4. page' = [page EXCEPT ![b] = p]
  BY DEF Yes, TypeOK
<1> HIDE DEF p
<1> QED
  BY <1>1, <1>3, <1>4, PageIsTyped, NothingElseIsTyped DEF linkVars

\* The operator's No declines the ask whose prompt is up.
LEMMA NoIsTyped ==
  ASSUME TypeOK, NEW b \in Browsers, No(b)
  PROVE  TypeOK'
<1>1. /\ page[b].prompt # 0 /\ page[b].chooser = 0
      /\ UNCHANGED <<serverVars, linkVars, holding, faulted>>
      /\ page' = [page EXCEPT ![b] = HidePrompt(page[b])]
  BY DEF No, CanClick
<1>2. page[b].prompt \in 1 .. asksMade /\ page[b] \in PageStates /\ Sensible(page[b])
  BY <1>1, NothingElseIsTyped DEF PageStates
<1>3. HidePrompt(page[b]) \in PageStates /\ Sensible(HidePrompt(page[b]))
  BY <1>1, <1>2, PromptIsTyped
<1>4. posts' \in [Browsers -> Seq([ask : 1 .. asksMade, answer : Words])]
  BY <1>2, PostingIsTyped DEF No, Words
<1> QED
  BY <1>1, <1>3, <1>4, PageIsTyped, NothingElseIsTyped DEF linkVars

\* A chooser that closes takes the prompt with it.
LEMMA ClosedIsSensible ==
  ASSUME TypeOK, NEW b \in Browsers
  PROVE  CloseChooser(b) \in PageStates /\ CloseChooser(b).chooser = 0
<1>1. page[b] \in PageStates /\ 0 \in 0 .. asksMade
  BY NothingElseIsTyped
<1> QED
  BY <1>1 DEF CloseChooser, HidePrompt, PageStates

\* An open chooser stands over the prompt of an ask that was made.
LEMMA ChooserHasItsPrompt ==
  ASSUME TypeOK, NEW b \in Browsers, page[b].chooser # 0
  PROVE  page[b].prompt \in 1 .. asksMade
BY NothingElseIsTyped DEF PageStates, Sensible

\* What was chosen is read for the ask whose handlers the prompt has.
LEMMA ChoosingIsTyped ==
  ASSUME TypeOK, NEW b \in Browsers, Choose(b)
  PROVE  TypeOK'
<1> DEFINE n == page[b].prompt
           c == CloseChooser(b)
           p == [c EXCEPT !.working = IF TakesFiles(b) THEN @ \cup {n} ELSE @]
<1>1. page[b].chooser # 0 /\ UNCHANGED <<serverVars, linkVars, posts, faulted>>
  BY DEF Choose
<1>2. n \in 1 .. asksMade
  BY <1>1, ChooserHasItsPrompt
<1>3. c \in PageStates /\ c.chooser = 0
  BY ClosedIsSensible
<1>4. page' = [page EXCEPT ![b] = p]
  BY DEF Choose
<1>5. holding' \subseteq Browsers
  BY LosingIsTyped, NothingElseIsTyped DEF Choose
<1> HIDE DEF n, c
<1>6. p \in PageStates /\ p.chooser = 0
  BY <1>2, <1>3 DEF PageStates
<1>7. Sensible(p)
  BY <1>6 DEF Sensible
<1> HIDE DEF p
<1> QED
  BY <1>1, <1>4, <1>5, <1>6, <1>7, PageIsTyped, NothingElseIsTyped DEF linkVars

LEMMA CancellingTheChooserIsTyped ==
  ASSUME TypeOK, NEW b \in Browsers, CancelChooser(b)
  PROVE  TypeOK'
<1>1. page[b].chooser # 0 /\ UNCHANGED <<serverVars, linkVars, faulted>>
        /\ page' = [page EXCEPT ![b] = CloseChooser(b)]
  BY DEF CancelChooser
<1>2. page[b].prompt \in 1 .. asksMade
  BY <1>1, ChooserHasItsPrompt
<1>3. CloseChooser(b) \in PageStates /\ Sensible(CloseChooser(b))
  BY ClosedIsSensible DEF Sensible
<1>4. /\ posts' \in [Browsers -> Seq([ask : 1 .. asksMade, answer : Words])]
      /\ holding' \subseteq Browsers
  <2>1. CASE TakesFiles(b)
    BY <1>2, <2>1, PostingIsTyped, NothingElseIsTyped DEF CancelChooser, Words
  <2>2. CASE ~TakesFiles(b)
    BY <2>2, LosingIsTyped, NothingElseIsTyped DEF CancelChooser
  <2> QED
    BY <2>1, <2>2
<1> QED
  BY <1>1, <1>3, <1>4, PageIsTyped, NothingElseIsTyped DEF linkVars

\* An answer under way is posted, or lost with a file that cannot be read.
LEMMA FinishingIsTyped ==
  ASSUME TypeOK, NEW b \in Browsers, FinishWork(b)
  PROVE  TypeOK'
<1>1. PICK n \in page[b].working :
        /\ page' = [page EXCEPT ![b].working = @ \ {n}]
        /\ \/ Post(b, n, "given") /\ UNCHANGED faulted
           \/ (\E word \in {"declined", "refused"} : Post(b, n, word)) /\ UNCHANGED faulted
           \/ faulted' = TRUE /\ UNCHANGED posts
        /\ UNCHANGED <<serverVars, linkVars, holding>>
  BY DEF FinishWork
<1> DEFINE p == [page[b] EXCEPT !.working = @ \ {n}]
<1>2. page[b] \in PageStates /\ Sensible(page[b])
  BY NothingElseIsTyped
<1>3. n \in 1 .. asksMade
  BY <1>1, <1>2 DEF PageStates
<1>4. p \in PageStates
  BY <1>2 DEF PageStates
<1>5. p.prompt = page[b].prompt /\ p.chooser = page[b].chooser
  BY <1>2 DEF PageStates
<1>6. Sensible(p)
  BY <1>2, <1>5 DEF Sensible
<1>7. page' = [page EXCEPT ![b] = p]
  BY <1>1 DEF TypeOK
<1>8. posts' \in [Browsers -> Seq([ask : 1 .. asksMade, answer : Words])] /\ faulted' \in BOOLEAN
  <2>1. CASE \E word \in Words : Post(b, n, word)
    BY <1>1, <1>3, <2>1, PostingIsTyped, NothingElseIsTyped
  <2>2. CASE faulted' = TRUE /\ UNCHANGED posts
    BY <2>2, NothingElseIsTyped
  <2> QED
    BY <1>1, <2>1, <2>2, NothingElseIsTyped DEF Words
<1> HIDE DEF p
<1> QED
  BY <1>1, <1>4, <1>6, <1>7, <1>8, PageIsTyped, NothingElseIsTyped DEF linkVars

\* Streams open and break, and pages load again.
LEMMA ComingAndGoingIsTyped ==
  ASSUME TypeOK, NEW b \in Browsers, OpenPaintStream(b) \/ StreamBreaks(b) \/ Reload(b)
  PROVE  TypeOK'
<1>1. <<>> \in Seq(1 .. asksMade) /\ <<>> \in Seq([ask : 1 .. asksMade, answer : Words])
  OBVIOUS
<1>2. CASE OpenPaintStream(b)
  BY <1>2, OtherPartsAreTyped, NothingElseIsTyped DEF OpenPaintStream
<1>3. CASE StreamBreaks(b)
  <2>1. stream' \in [Browsers -> Seq(1 .. asksMade)]
    BY <1>1, <1>3 DEF StreamBreaks, TypeOK
  <2> QED
    BY <1>3, <2>1, OtherPartsAreTyped, NothingElseIsTyped DEF StreamBreaks
<1>4. CASE Reload(b)
  <2>1. stream' \in [Browsers -> Seq(1 .. asksMade)]
    BY <1>1, <1>4 DEF Reload, TypeOK
  <2>2. posts' \in [Browsers -> Seq([ask : 1 .. asksMade, answer : Words])]
    BY <1>1, <1>4 DEF Reload, TypeOK
  <2>3. Loaded \in PageStates /\ Sensible(Loaded)
    BY NothingElseIsTyped DEF Loaded, PageStates, Sensible
  <2> QED
    BY <1>4, <2>1, <2>2, <2>3, PageIsTyped, NothingElseIsTyped DEF Reload
<1> QED
  BY <1>2, <1>3, <1>4

\* Every step of server, pages, operators and streams keeps the invariant.
LEMMA NextIsSound == IInv /\ [Next]_vars => IInv'
<1> SUFFICES ASSUME IInv, [Next]_vars PROVE IInv'
  OBVIOUS
<1>1. CASE AskNobody
  <2>1. ServerInv' /\ UNCHANGED <<asksMade, kind, asking, waitingForAnswers, first>>
    BY <1>1, NoAnswersAreNone
       DEF AskNobody, NoOutcome, IInv, ServerInv, OnlyTheAskInFlightWaits, FuturesHoldFirstAnswers,
           AnswersNameTheirAsk, TheFirstAnswerStands
  <2>2. outcome' \in [to : 0 .. asksMade, got : Answers \cup {None}]
    BY <1>1, NothingElseIsTyped DEF AskNobody, IInv, NoOutcome
  <2> QED
    BY <1>1, <2>1, <2>2 DEF AskNobody, IInv, TypeOK, linkVars
<1>2. CASE \E k \in Kinds : Ask(k)
  BY <1>2, AskIsSound
<1>3. CASE Answered
  BY <1>3, AnsweredIsSound
<1>4. ASSUME NEW b \in Browsers,
             OpenPaintStream(b) \/ Answering(b) \/ StreamBreaks(b) \/ Reload(b)
      PROVE  IInv'
  <2>1. CASE ReceiveEvent(b)
    BY <2>1, ReceivingIsSound
  <2>2. CASE ~ReceiveEvent(b)
    <3>1. TypeOK'
      BY <1>4, <2>2, TakingIsTyped, SettlingIsTyped, YesIsTyped, NoIsTyped, ChoosingIsTyped,
         CancellingTheChooserIsTyped, FinishingIsTyped, ComingAndGoingIsTyped
         DEF IInv, Answering, Pages, Operates
    <3>2. UNCHANGED serverVars
      BY <1>4, <2>2 DEF Answering, Pages, Operates, Take, SettleWrite, Yes, No, Choose,
                        CancelChooser, FinishWork, OpenPaintStream, StreamBreaks, Reload
    <3> QED
      BY <3>1, <3>2, PagesLeaveTheServer DEF IInv
  <2> QED
    BY <2>1, <2>2
<1>5. CASE UNCHANGED vars
  <2>1. UNCHANGED serverVars
    BY <1>5 DEF vars
  <2>2. TypeOK'
    BY <1>5, OtherPartsAreTyped, NothingElseIsTyped DEF vars, linkVars, IInv
  <2> QED
    BY <2>1, <2>2, PagesLeaveTheServer DEF IInv
<1> QED
  BY <1>1, <1>2, <1>3, <1>4, <1>5 DEF Next

LEMMA AlwaysSound == Spec => []IInv
BY InitIsSound, NextIsSound, PTL DEF Spec

(***************************************************************************)
(* Types hold for any browsers and any number of asks: among them that a   *)
(* chooser is only ever open over the prompt of an ask that was made.      *)
(***************************************************************************)
THEOREM AsksAreWellTyped == Spec => []TypeOK
<1>1. IInv => TypeOK
  BY DEF IInv
<1> QED
  BY <1>1, AlwaysSound, PTL

(***************************************************************************)
(* No ask is ever given another ask's answer (WebScreenServer.dispatch).   *)
(***************************************************************************)
THEOREM NoAskTakesAnothersAnswer == Spec => []AnswersNameTheirAsk
<1>1. IInv => AnswersNameTheirAsk
  BY DEF IInv, ServerInv
<1> QED
  BY <1>1, AlwaysSound, PTL

(***************************************************************************)
(* Of several answers to an ask the script is given the first              *)
(* (CompletableFuture.complete in WebScreenServer.dispatch).               *)
(***************************************************************************)
THEOREM NoAnswerIsReplaced == Spec => []TheFirstAnswerStands
<1>1. IInv => TheFirstAnswerStands
  BY DEF IInv, ServerInv
<1> QED
  BY <1>1, AlwaysSound, PTL

(***************************************************************************)
(* The map of futures holds the ask in flight and no other (the finally of *)
(* WebScreenServer.ask).                                                   *)
(***************************************************************************)
THEOREM NoFutureIsLeftBehind == Spec => []OnlyTheAskInFlightWaits
<1>1. IInv => OnlyTheAskInFlightWaits
  BY DEF IInv, ServerInv
<1> QED
  BY <1>1, AlwaysSound, PTL
=============================================================================
