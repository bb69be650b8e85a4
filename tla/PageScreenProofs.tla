--------------------------- MODULE PageScreenProofs ---------------------------
(***************************************************************************)
(* Theorems about a page as a screen, for all windows, spots, sizes and    *)
(* bounds.                                                                 *)
(***************************************************************************)
EXTENDS PageScreen, SequenceTheorems, FiniteSetTheorems, WellFoundedInduction, TLAPS

-----------------------------------------------------------------------------
(***************************************************************************)
(* Which actions leave what alone.                                         *)
(***************************************************************************)
LEMMA TheOperatorTouchesNoWindow ==
  ASSUME Operator
  PROVE  UNCHANGED <<pressedIn, keyboardWith, rooted, pane, covers, opened,
                     heldAsHeard, pressed, lastPressed, rootSize, viewport>>
<1>1. CASE \E k \in Reported, at \in Spots : Report(k, at)
  BY <1>1 DEF Report, surfaceVars, windowVars, heardVars
<1>2. CASE \E move \in Moves : ReportMove(move)
  BY <1>2 DEF ReportMove, surfaceVars, windowVars, heardVars
<1>3. CASE \E size \in Sizes : Measure(size)
  BY <1>3 DEF Measure, surfaceVars, windowVars, heardVars
<1>4. CASE AttachOrLeave
  BY <1>4 DEF AttachOrLeave, surfaceVars, windowVars, heardVars
<1> QED
  BY <1>1, <1>2, <1>3, <1>4 DEF Operator

LEMMA TheScriptTouchesNoPost ==
  ASSUME Script
  PROVE  /\ UNCHANGED <<pressedIn, keyboardWith, posts, heldAsHeard, buttonsDown>>
         /\ KeepWhoShows
<1> USE DEF Scripting, surfaceVars, pageVars
<1>1. CASE AcceptRootGob
  BY <1>1 DEF AcceptRootGob
<1>2. CASE Arrange
  BY <1>2 DEF Arrange
<1>3. CASE ShowRoot
  BY <1>3 DEF ShowRoot
<1>4. CASE \E gobs : ShowGob(gobs)
  BY <1>4 DEF ShowGob
<1> QED
  BY <1>1, <1>2, <1>3, <1>4 DEF Script

LEMMA OtherLooksTouchNoPost ==
  ASSUME \/ \E for : BeginLook(for)
         \/ AcceptMeasurements \/ TakeReports \/ TakeOldest \/ EndRun
  PROVE  UNCHANGED <<pressedIn, keyboardWith, rooted, pane, covers, opened, posts,
                     heldAsHeard, pressed, lastPressed, buttonsDown>>
<1> USE DEF Looking, surfaceVars, heardVars, windowVars, pageVars
<1>1. CASE \E for : BeginLook(for)
  BY <1>1 DEF BeginLook
<1>2. CASE AcceptMeasurements
  BY <1>2 DEF AcceptMeasurements
<1>3. CASE TakeReports
  BY <1>3 DEF TakeReports
<1>4. CASE TakeOldest
  BY <1>4 DEF TakeOldest
<1>5. CASE EndRun
  BY <1>5 DEF EndRun
<1> QED
  BY <1>1, <1>2, <1>3, <1>4, <1>5

-----------------------------------------------------------------------------
(***************************************************************************)
(* The size of the root gob.  Until there is a root gob no size is its; a  *)
(* look gives every measurement to the root gob there is, and a root gob   *)
(* given later takes the measurement there is.                             *)
(***************************************************************************)
SizesAgree == rootSize = IF rooted THEN viewport ELSE Unmeasured

LEMMA SizesAgreeAlways == Spec => []SizesAgree
<1>1. Init => SizesAgree
  BY DEF Init, SizesAgree
<1>2. SizesAgree /\ [Next]_vars => SizesAgree'
  <2> SUFFICES ASSUME SizesAgree, [Next]_vars PROVE SizesAgree'
    OBVIOUS
  <2>1. CASE Operator
    BY <2>1, TheOperatorTouchesNoWindow DEF SizesAgree
  <2>2. CASE AcceptRootGob
    BY <2>2 DEF AcceptRootGob, Scripting, SizesAgree
  <2>3. CASE Arrange \/ ShowRoot \/ \E gobs : ShowGob(gobs)
    <3>1. UNCHANGED <<rooted, rootSize, viewport>>
      <4>1. CASE Arrange
        BY <4>1 DEF Arrange, Scripting
      <4>2. CASE ShowRoot
        BY <4>2 DEF ShowRoot, Scripting
      <4>3. CASE \E gobs : ShowGob(gobs)
        BY <4>3 DEF ShowGob, Scripting
      <4> QED
        BY <2>3, <4>1, <4>2, <4>3
    <3> QED
      BY <3>1 DEF SizesAgree
  <2>4. CASE AcceptMeasurements
    BY <2>4 DEF AcceptMeasurements, Looking, windowVars, SizesAgree
  <2>5. CASE \E for : BeginLook(for)
    BY <2>5 DEF BeginLook, Looking, windowVars, SizesAgree
  <2>6. CASE TakeReports \/ AddressAllEvents
    BY <2>6 DEF TakeReports, AddressAllEvents, Looking, windowVars, SizesAgree
  <2>7. CASE TakeOldest \/ EndRun
    BY <2>7 DEF TakeOldest, EndRun, Looking, windowVars, SizesAgree
  <2>8. CASE UNCHANGED vars
    BY <2>8 DEF vars, windowVars, SizesAgree
  <2> QED
    BY <2>1, <2>2, <2>3, <2>4, <2>5, <2>6, <2>7, <2>8 DEF Next, Script, Looks
<1> QED
  BY <1>1, <1>2, PTL DEF Spec

(***************************************************************************)
(* However many sizes the page has and whenever it measures itself, the    *)
(* root gob is as big as the page was when last looked at                  *)
(* (TheRootIsAsBigAsThePage).                                              *)
(***************************************************************************)
THEOREM TheRootGobFitsThePage == Spec => []TheRootIsAsBigAsThePage
<1>1. SizesAgree => TheRootIsAsBigAsThePage
  BY DEF SizesAgree, TheRootIsAsBigAsThePage
<1> QED
  BY <1>1, SizesAgreeAlways, PTL

-----------------------------------------------------------------------------
(***************************************************************************)
(* How many buttons are down after each of the postings on their way, the  *)
(* ones before having been addressed.  No press is posted with all of the  *)
(* buttons down and no release with none.                                  *)
(***************************************************************************)
ButtonsAsPosted ==
  \E down \in [0 .. Len(posts) -> 0 .. Buttons] :
    /\ down[0] = heldAsHeard
    /\ down[Len(posts)] = buttonsDown
    /\ \A i \in 1 .. Len(posts) : down[i] = ButtonsAfter(posts[i].kind, down[i - 1])

PostsInv ==
  /\ posts \in Seq([kind : Reported, at : Spots])
  /\ ButtonsAsPosted

LEMMA APostingIsCounted ==
  ASSUME PostsInv, NEW k \in Reported, NEW at \in Spots, Report(k, at)
  PROVE  PostsInv'
<1> DEFINE n == Len(posts)
           e == [kind |-> k, at |-> at]
           P == [kind : Reported, at : Spots]
<1>1. /\ posts \in Seq(P) /\ e \in P /\ posts' = Append(posts, e)
      /\ OperatorMay(k)
      /\ buttonsDown' = ButtonsAfter(k, buttonsDown)
      /\ heldAsHeard' = heldAsHeard
  BY DEF PostsInv, Report, heardVars
<1> HIDE DEF P
<1>2. /\ posts' \in Seq(P) /\ n \in Nat /\ Len(posts') = n + 1
      /\ \A i \in 1 .. n : posts'[i] = posts[i]
      /\ posts'[n + 1] = e
  BY <1>1, AppendProperties, LenProperties
<1> HIDE DEF e
<1>3. PICK down \in [0 .. n -> 0 .. Buttons] :
        /\ down[0] = heldAsHeard
        /\ down[n] = buttonsDown
        /\ \A i \in 1 .. n : down[i] = ButtonsAfter(posts[i].kind, down[i - 1])
  BY DEF PostsInv, ButtonsAsPosted
<1>4. buttonsDown \in 0 .. Buttons /\ buttonsDown' \in 0 .. Buttons
  BY <1>1, <1>2, <1>3, PageScreenAssumption DEF OperatorMay, ButtonsAfter, PageScreenAssumption
<1> DEFINE after == [i \in 0 .. n + 1 |-> IF i = n + 1 THEN buttonsDown' ELSE down[i]]
<1>5. after \in [0 .. n + 1 -> 0 .. Buttons]
  BY <1>2, <1>3, <1>4
<1>6. /\ after[0] = heldAsHeard' /\ after[n + 1] = buttonsDown'
      /\ \A i \in 0 .. n : after[i] = down[i]
  BY <1>1, <1>2, <1>3
<1>7. ASSUME NEW i \in 1 .. n + 1
      PROVE  after[i] = ButtonsAfter(posts'[i].kind, after[i - 1])
  <2> HIDE DEF after
  <2>1. CASE i = n + 1
    <3>1. after[i - 1] = buttonsDown /\ posts'[i].kind = k
      BY <2>1, <1>2, <1>3, <1>6 DEF e
    <3> QED
      BY <3>1, <2>1, <1>1, <1>6
  <2>2. CASE i \in 1 .. n
    <3>1. after[i] = down[i] /\ after[i - 1] = down[i - 1] /\ posts'[i] = posts[i]
      BY <2>2, <1>2, <1>6
    <3> QED
      BY <3>1, <2>2, <1>3
  <2> QED
    BY <1>2, <2>1, <2>2
<1> HIDE DEF after
<1> QED
  BY <1>1, <1>2, <1>5, <1>6, <1>7 DEF PostsInv, ButtonsAsPosted, P

\* What is addressed of a posting, before anything is known of who hears it.
LEMMA APostingIsAddressed ==
  ASSUME PostsInv, AddressAllEvents, posts # <<>>
  PROVE  /\ PostsInv'
         /\ Head(posts).kind \in Reported
         /\ heldAsHeard \in 0 .. Buttons /\ heldAsHeard' \in 0 .. Buttons
         /\ heldAsHeard' = ButtonsAfter(Head(posts).kind, heldAsHeard)
<1> DEFINE n == Len(posts)
           P == [kind : Reported, at : Spots]
<1>1. /\ posts \in Seq(P) /\ posts' = Tail(posts)
      /\ heldAsHeard' = ButtonsAfter(Head(posts).kind, heldAsHeard)
      /\ buttonsDown' = buttonsDown
  BY DEF PostsInv, AddressAllEvents, AddressEvent, Remember, Looking, pageVars
<1> HIDE DEF P
<1>2. /\ Head(posts) \in P /\ Head(posts) = posts[1]
      /\ n \in Nat /\ n >= 1
      /\ posts' \in Seq(P) /\ Len(posts') = n - 1
      /\ \A i \in 1 .. n - 1 : posts'[i] = posts[i + 1]
  <2>1. n \in Nat \ {0}
    BY <1>1, EmptySeq
  <2>2. Head(posts) \in P /\ posts' \in Seq(P)
    BY <1>1, HeadTailProperties
  <2>3. Len(posts') = n - 1
    BY <1>1, HeadTailProperties
  <2>4. \A i \in 1 .. Len(Tail(posts)) : Tail(posts)[i] = posts[i + 1]
    BY <1>1, HeadTailProperties
  <2>5. Head(posts) = posts[1]
    BY <1>1
  <2> QED
    BY <1>1, <2>1, <2>2, <2>3, <2>4, <2>5
<1>3. PICK down \in [0 .. n -> 0 .. Buttons] :
        /\ down[0] = heldAsHeard
        /\ down[n] = buttonsDown
        /\ \A i \in 1 .. n : down[i] = ButtonsAfter(posts[i].kind, down[i - 1])
  BY DEF PostsInv, ButtonsAsPosted
<1>4. heldAsHeard' = down[1] /\ down[0] \in 0 .. Buttons /\ down[1] \in 0 .. Buttons
  BY <1>1, <1>2, <1>3
<1> DEFINE after == [i \in 0 .. n - 1 |-> down[i + 1]]
<1>5. /\ after \in [0 .. n - 1 -> 0 .. Buttons]
      /\ after[0] = heldAsHeard' /\ after[n - 1] = buttonsDown'
      /\ \A i \in 0 .. n - 1 : after[i] = down[i + 1]
  BY <1>1, <1>2, <1>3, <1>4
<1> HIDE DEF after
<1>6. ASSUME NEW i \in 1 .. n - 1
      PROVE  after[i] = ButtonsAfter(posts'[i].kind, after[i - 1])
  <2>1. after[i] = down[i + 1] /\ after[i - 1] = down[i] /\ posts'[i] = posts[i + 1]
        /\ i + 1 \in 1 .. n /\ (i + 1) - 1 = i
    BY <1>2, <1>5
  <2> QED
    BY <2>1, <1>3
<1>7. PostsInv'
  BY <1>2, <1>5, <1>6 DEF PostsInv, ButtonsAsPosted, P
<1>8. Head(posts).kind \in Reported
  BY <1>2 DEF P
<1> QED
  BY <1>1, <1>3, <1>4, <1>7, <1>8

LEMMA PostsInvIsInductive == PostsInv /\ [Next]_vars => PostsInv'
<1> SUFFICES ASSUME PostsInv, [Next]_vars PROVE PostsInv'
  OBVIOUS
<1>1. ASSUME UNCHANGED <<posts, heldAsHeard, buttonsDown>> PROVE PostsInv'
  BY <1>1 DEF PostsInv, ButtonsAsPosted
<1>2. CASE \E k \in Reported, at \in Spots : Report(k, at)
  BY <1>2, APostingIsCounted
<1>3. CASE \E move \in Moves : ReportMove(move)
  BY <1>1, <1>3 DEF ReportMove, heardVars, pageVars
<1>4. CASE \E size \in Sizes : Measure(size)
  BY <1>1, <1>4 DEF Measure, heardVars, pageVars
<1>5. CASE AttachOrLeave
  BY <1>1, <1>5 DEF AttachOrLeave, heardVars
<1>6. CASE Script
  BY <1>1, <1>6, TheScriptTouchesNoPost
<1>7. CASE AddressAllEvents
  <2>1. CASE posts # <<>>
    BY <1>7, <2>1, APostingIsAddressed
  <2>2. CASE posts = <<>>
    BY <1>1, <1>7, <2>2 DEF AddressAllEvents, heardVars, Looking, pageVars
  <2> QED
    BY <2>1, <2>2
<1>8. CASE \/ \E for : BeginLook(for)
          \/ AcceptMeasurements \/ TakeReports \/ TakeOldest \/ EndRun
  BY <1>1, <1>8, OtherLooksTouchNoPost
<1>9. CASE UNCHANGED vars
  BY <1>1, <1>9 DEF vars, heardVars, pageVars
<1> QED
  BY <1>2, <1>3, <1>4, <1>5, <1>6, <1>7, <1>8, <1>9 DEF Next, Operator, Looks

LEMMA PostsInvAtFirst == Init => PostsInv
<1> SUFFICES ASSUME Init PROVE PostsInv
  OBVIOUS
<1> DEFINE down == [i \in 0 .. 0 |-> 0]
<1>1. posts = <<>> /\ Len(posts) = 0 /\ heldAsHeard = 0 /\ buttonsDown = 0
  BY DEF Init
<1>2. down \in [0 .. Len(posts) -> 0 .. Buttons] /\ down[0] = 0
  BY <1>1, PageScreenAssumption DEF PageScreenAssumption
<1>3. \A i \in 1 .. Len(posts) : down[i] = ButtonsAfter(posts[i].kind, down[i - 1])
  BY <1>1
<1>4. posts \in Seq([kind : Reported, at : Spots])
  BY <1>1, EmptySeq
<1> HIDE DEF down
<1> QED
  BY <1>1, <1>2, <1>3, <1>4 DEF PostsInv, ButtonsAsPosted

-----------------------------------------------------------------------------
(***************************************************************************)
(* Who hears a posting.                                                    *)
(***************************************************************************)
LEMMA PositionsHaveAMax ==
  ASSUME NEW n \in Nat, NEW S \in SUBSET (1 .. n), S # {}
  PROVE  Max(S) \in S
<1> DEFINE T == {n - i : i \in S}
<1>1. T \subseteq Nat /\ T # {}
  OBVIOUS
<1>2. PICK x \in T : \A y \in T : ~ (<<y, x>> \in OpToRel(<, Nat))
  <2> HIDE DEF T
  <2> QED
    BY <1>1, NatLessThanWellFounded, WFMin, Zenon
<1>3. \A y \in T : ~ (y < x)
  <2> SUFFICES ASSUME NEW y \in T, y < x PROVE FALSE
    OBVIOUS
  <2>1. <<y, x>> \in Nat \X Nat /\ <<y, x>>[1] < <<y, x>>[2]
    BY <1>1
  <2>2. <<y, x>> \in OpToRel(<, Nat)
    BY <2>1, Zenon DEF OpToRel
  <2> QED
    BY <1>2, <2>2, Zenon
<1>4. PICK m \in S : x = n - m
  OBVIOUS
<1>5. ASSUME NEW i \in S PROVE m >= i
  <2>1. n - i \in T /\ i \in Int /\ m \in Int
    OBVIOUS
  <2>2. ~ (n - i < n - m)
    BY <1>3, <1>4, <2>1
  <2> HIDE DEF T
  <2> QED
    BY <2>1, <2>2
<1>6. \E j \in S : \A i \in S : j >= i
  BY <1>5
<1> QED
  BY <1>6 DEF Max

LEMMA TheTopmostIsAmong ==
  ASSUME NEW order \in Seq(Windows), NEW among, Topmost(among, order) # Nobody
  PROVE  Topmost(among, order) \in among
<1> DEFINE places == {i \in DOMAIN order : order[i] \in among}
<1>1. Len(order) \in Nat /\ DOMAIN order = 1 .. Len(order)
  BY LenProperties
<1>2. places # {} /\ Topmost(among, order) = order[Max(places)]
  BY DEF Topmost
<1>3. Max(places) \in places
  BY <1>1, <1>2, PositionsHaveAMax
<1> QED
  BY <1>2, <1>3

LEMMA ListedIsAtMostOne ==
  ASSUME NEW window
  PROVE  ToSet(Listed(window)) = {window} \ {Nobody}
<1>1. CASE window = Nobody
  BY <1>1 DEF Listed, ToSet
<1>2. CASE window # Nobody
  <2>1. Listed(window) = <<window>>
    BY <1>2 DEF Listed
  <2>2. ToSet(<<window>>) = {window}
    BY DEF ToSet
  <2> QED
    BY <1>2, <2>1, <2>2
<1> QED
  BY <1>1, <1>2

LEMMA WhoHears ==
  ASSUME pane \in Seq(Windows), PostsInv, AddressAllEvents, posts # <<>>
  PROVE  LET kind == Head(posts).kind
             held == IfShowing(pressedIn, Showing)
         IN  /\ UNCHANGED Showing
             /\ \E hit \in Showing \cup {Nobody} :
                  /\ kind = "down" =>
                       /\ pressedIn' = IF hit = Nobody THEN held ELSE hit
                       /\ pressed' = pressed \cup ({hit} \ {Nobody})
                  /\ kind = "up" =>
                       /\ pressedIn' = Nobody
                       /\ pressed' = pressed \ ({IF held # Nobody THEN held ELSE hit} \ {Nobody})
             /\ kind \notin {"down", "up"} => pressedIn' = held /\ pressed' = pressed
<1> DEFINE post == Head(posts)
           held == IfShowing(pressedIn, Showing)
           hit == TopmostUnder(post.at, Showing, pane, covers)
           heard == Heard(post, Showing, pane, covers)
<1>1. post.kind \in Kinds
  BY APostingIsAddressed, PageScreenAssumption DEF PageScreenAssumption
<1>2. /\ pressedIn' = heard.pressedIn
      /\ pressed' = CASE post.kind = "down" -> pressed \cup ToSet(heard.heardBy)
                       [] post.kind = "up" -> pressed \ ToSet(heard.heardBy)
                       [] OTHER -> pressed
  BY DEF AddressAllEvents, AddressEvent, Remember
<1>3. UNCHANGED Showing
  BY DEF AddressAllEvents, Looking, windowVars, Showing
<1>4. hit \in Showing \cup {Nobody}
  BY TheTopmostIsAmong DEF TopmostUnder
<1>5. ASSUME post.kind = "down"
      PROVE  /\ pressedIn' = IF hit = Nobody THEN held ELSE hit
             /\ pressed' = pressed \cup ({hit} \ {Nobody})
  <2>1. heard = HearPress(post, Showing, pane, covers)
    BY <1>5 DEF Heard
  <2>2. heard.heardBy = Listed(hit) /\ heard.pressedIn = IF hit = Nobody THEN held ELSE hit
    BY <2>1 DEF HearPress
  <2> QED
    BY <1>2, <1>5, <2>2, ListedIsAtMostOne
<1>6. ASSUME post.kind = "up"
      PROVE  /\ pressedIn' = Nobody
             /\ pressed' = pressed \ ({IF held # Nobody THEN held ELSE hit} \ {Nobody})
  <2>1. heard = HearPointer(post, Showing, pane, covers)
    BY <1>6 DEF Heard
  <2>2. /\ heard.heardBy = Listed(IF held # Nobody THEN held ELSE hit)
        /\ heard.pressedIn = Nobody
    BY <1>6, <2>1 DEF HearPointer
  <2> QED
    BY <1>2, <1>6, <2>2, ListedIsAtMostOne
<1>7. ASSUME post.kind \notin {"down", "up"}
      PROVE  pressedIn' = held /\ pressed' = pressed
  <2>1. heard.pressedIn = held
    <3>1. CASE post.kind = "move"
      BY <3>1 DEF Heard, HearPointer
    <3>2. CASE post.kind = "key"
      BY <3>2 DEF Heard, HearKey
    <3>3. CASE post.kind = "close"
      BY <3>3 DEF Heard, HearWhole
    <3>4. CASE post.kind = "resize"
      BY <3>4 DEF Heard, HearWhole
    <3> QED
      BY <1>1, <1>7, <3>1, <3>2, <3>3, <3>4 DEF Kinds
  <2> QED
    BY <1>2, <1>7, <2>1
<1> HIDE DEF post, held, hit, heard
<1> QED
  BY <1>3, <1>4, <1>5, <1>6, <1>7 DEF post, held, hit

-----------------------------------------------------------------------------
(***************************************************************************)
(* The pointer.  The windows that heard a press and no release are at most *)
(* the one the press being held began in, where one button is pressed at a *)
(* time, and they show.                                                    *)
(***************************************************************************)
PressedIsTheGrab == pressed \subseteq {pressedIn} \cap Showing

PointerInv ==
  /\ pane \in Seq(Windows)
  /\ PostsInv
  /\ NoGrabOutlivesItsPress
  /\ Buttons <= 1 => PressedIsTheGrab

LEMMA WindowsShowing ==
  ASSUME pane \in Seq(Windows)
  PROVE  Showing \subseteq Windows /\ Nobody \notin Showing
BY SurfaceAssumption DEF Showing, ToSet, SurfaceAssumption

LEMMA TheOrderIsOfWindows ==
  ASSUME pane \in Seq(Windows), [Next]_vars
  PROVE  pane' \in Seq(Windows)
<1>1. CASE Operator
  BY <1>1, TheOperatorTouchesNoWindow
<1>2. CASE Arrange
  <2>1. ASSUME NEW w \in Windows, pane' = Append(pane, w) PROVE pane' \in Seq(Windows)
    BY <2>1, AppendProperties
  <2>2. ASSUME NEW i \in DOMAIN pane, pane' = RemoveAt(pane, i) PROVE pane' \in Seq(Windows)
    <3>1. Len(pane) \in Nat /\ i \in 1 .. Len(pane)
      BY LenProperties
    <3>2. SubSeq(pane, 1, i - 1) \in Seq(Windows) /\ SubSeq(pane, i + 1, Len(pane)) \in Seq(Windows)
      BY <3>1
    <3> QED
      BY <2>2, <3>2, ConcatProperties DEF RemoveAt
  <2> QED
    BY <1>2, <2>1, <2>2 DEF Arrange
<1>3. CASE AcceptRootGob
  BY <1>3 DEF AcceptRootGob
<1>4. CASE ShowRoot
  BY <1>4 DEF ShowRoot
<1>5. CASE \E gobs : ShowGob(gobs)
  BY <1>5 DEF ShowGob
<1>6. CASE AddressAllEvents
  BY <1>6 DEF AddressAllEvents, Looking, windowVars
<1>7. CASE \/ \E for : BeginLook(for)
          \/ AcceptMeasurements \/ TakeReports \/ TakeOldest \/ EndRun
  BY <1>7, OtherLooksTouchNoPost
<1>8. CASE UNCHANGED vars
  BY <1>8 DEF vars, windowVars
<1> QED
  BY <1>1, <1>2, <1>3, <1>4, <1>5, <1>6, <1>7, <1>8 DEF Next, Script, Looks

\* Where neither who shows nor who is pressed is changed, nothing is.
LEMMA ThePointerIsLeftAlone ==
  ASSUME PointerInv,
         UNCHANGED <<pressedIn, rooted, pane, opened, heldAsHeard, pressed>>
  PROVE  NoGrabOutlivesItsPress' /\ (Buttons <= 1 => PressedIsTheGrab')
<1>1. UNCHANGED Showing
  BY DEF Showing
<1> QED
  BY <1>1 DEF PointerInv, NoGrabOutlivesItsPress, PressedIsTheGrab

LEMMA AddressingKeepsTheGrab ==
  ASSUME PointerInv, AddressAllEvents, posts # <<>>
  PROVE  NoGrabOutlivesItsPress' /\ (Buttons <= 1 => PressedIsTheGrab')
<1> DEFINE kind == Head(posts).kind
           held == IfShowing(pressedIn, Showing)
<1>1. /\ heldAsHeard \in 0 .. Buttons /\ heldAsHeard' \in 0 .. Buttons
      /\ heldAsHeard' = ButtonsAfter(kind, heldAsHeard)
  BY APostingIsAddressed DEF PointerInv
<1>2. Showing' = Showing /\ Nobody \notin Showing
  BY WhoHears, WindowsShowing DEF PointerInv
<1>3. held = (IF pressedIn \in Showing THEN pressedIn ELSE Nobody)
  BY DEF IfShowing
<1>4. Buttons \in Nat
  BY PageScreenAssumption DEF PageScreenAssumption
<1>5. CASE kind = "down"
  <2>1. heldAsHeard' = heldAsHeard + 1
    BY <1>1, <1>5 DEF ButtonsAfter
  <2>2. NoGrabOutlivesItsPress'
    BY <1>1, <2>1 DEF NoGrabOutlivesItsPress
  <2>3. ASSUME Buttons <= 1 PROVE PressedIsTheGrab'
    <3>1. heldAsHeard = 0
      BY <1>1, <1>4, <2>1, <2>3
    <3>2. pressed = {}
      BY <1>2, <2>3, <3>1 DEF PointerInv, NoGrabOutlivesItsPress, PressedIsTheGrab
    <3>3. PICK hit \in Showing \cup {Nobody} :
            /\ pressedIn' = IF hit = Nobody THEN held ELSE hit
            /\ pressed' = pressed \cup ({hit} \ {Nobody})
      BY <1>5, WhoHears DEF PointerInv
    <3> QED
      BY <1>2, <3>2, <3>3 DEF PressedIsTheGrab
  <2> QED
    BY <2>2, <2>3
<1>6. CASE kind = "up"
  <2>1. PICK hit \in Showing \cup {Nobody} :
          /\ pressedIn' = Nobody
          /\ pressed' = pressed \ ({IF held # Nobody THEN held ELSE hit} \ {Nobody})
    BY <1>6, WhoHears DEF PointerInv
  <2>2. NoGrabOutlivesItsPress'
    BY <2>1 DEF NoGrabOutlivesItsPress
  <2>3. ASSUME Buttons <= 1 PROVE PressedIsTheGrab'
    <3>1. pressed \subseteq {pressedIn} \cap Showing
      BY <2>3 DEF PointerInv, PressedIsTheGrab
    <3>2. pressed' = {}
      BY <1>2, <1>3, <2>1, <3>1
    <3> QED
      BY <3>2 DEF PressedIsTheGrab
  <2> QED
    BY <2>2, <2>3
<1>7. CASE kind \notin {"down", "up"}
  <2>1. pressedIn' = held /\ pressed' = pressed
    BY <1>7, WhoHears DEF PointerInv
  <2>2. heldAsHeard' = heldAsHeard
    BY <1>1, <1>7 DEF ButtonsAfter
  <2>3. NoGrabOutlivesItsPress'
    BY <1>3, <2>1, <2>2 DEF PointerInv, NoGrabOutlivesItsPress
  <2>4. ASSUME Buttons <= 1 PROVE PressedIsTheGrab'
    BY <1>2, <1>3, <2>1, <2>4 DEF PointerInv, PressedIsTheGrab
  <2> QED
    BY <2>3, <2>4
<1> QED
  BY <1>5, <1>6, <1>7

LEMMA PointerInvIsInductive == PointerInv /\ [Next]_vars => PointerInv'
<1> SUFFICES ASSUME PointerInv, [Next]_vars PROVE PointerInv'
  OBVIOUS
<1>1. pane' \in Seq(Windows) /\ PostsInv'
  BY TheOrderIsOfWindows, PostsInvIsInductive DEF PointerInv
<1>2. NoGrabOutlivesItsPress' /\ (Buttons <= 1 => PressedIsTheGrab')
  <2>1. CASE Operator
    BY <2>1, TheOperatorTouchesNoWindow, ThePointerIsLeftAlone
  <2>2. CASE Script
    <3>1. /\ pressedIn' = pressedIn /\ heldAsHeard' = heldAsHeard
          /\ pressed' = pressed \cap Showing'
      BY <2>2, TheScriptTouchesNoPost DEF KeepWhoShows
    <3> QED
      BY <3>1 DEF PointerInv, NoGrabOutlivesItsPress, PressedIsTheGrab
  <2>3. CASE AddressAllEvents
    <3>1. CASE posts # <<>>
      BY <2>3, <3>1, AddressingKeepsTheGrab
    <3>2. CASE posts = <<>>
      BY <2>3, <3>2, ThePointerIsLeftAlone
         DEF AddressAllEvents, Looking, surfaceVars, heardVars, windowVars
    <3> QED
      BY <3>1, <3>2
  <2>4. CASE \/ \E for : BeginLook(for)
            \/ AcceptMeasurements \/ TakeReports \/ TakeOldest \/ EndRun
    BY <2>4, OtherLooksTouchNoPost, ThePointerIsLeftAlone
  <2>5. CASE UNCHANGED vars
    BY <2>5, ThePointerIsLeftAlone DEF vars, surfaceVars, heardVars, windowVars
  <2> QED
    BY <2>1, <2>2, <2>3, <2>4, <2>5 DEF Next, Looks
<1> QED
  BY <1>1, <1>2 DEF PointerInv

LEMMA PointerInvAlways == Spec => []PointerInv
<1>1. Init => PointerInv
  <2> SUFFICES ASSUME Init PROVE PointerInv
    OBVIOUS
  <2>1. pane \in Seq(Windows)
    BY EmptySeq DEF Init
  <2>2. NoGrabOutlivesItsPress /\ PressedIsTheGrab
    BY DEF Init, SurfaceInit, NoGrabOutlivesItsPress, PressedIsTheGrab
  <2> QED
    BY <2>1, <2>2, PostsInvAtFirst DEF PointerInv
<1> QED
  BY <1>1, PointerInvIsInductive, PTL DEF Spec

(***************************************************************************)
(* With any number of windows and of buttons, no window keeps the pointer  *)
(* to itself once every button is up (WindowsOnOneSurface.java,            *)
(* findWhoHearsPointer).                                                   *)
(***************************************************************************)
THEOREM NoWindowKeepsThePointer == Spec => []NoGrabOutlivesItsPress
<1>1. PointerInv => NoGrabOutlivesItsPress
  BY DEF PointerInv
<1> QED
  BY <1>1, PointerInvAlways, PTL

(***************************************************************************)
(* Where one button is pressed at a time, every window that heard a press  *)
(* and has been showing ever since hears the release, however many windows *)
(* there are and whatever the script does with them.                       *)
(***************************************************************************)
THEOREM EveryPressIsReleased ==
  ASSUME Buttons <= 1
  PROVE  Spec => []PressedWindowsHearTheRelease
<1>1. PointerInv => PressedWindowsHearTheRelease
  BY WindowsShowing
     DEF PointerInv, PressedIsTheGrab, NoGrabOutlivesItsPress, PressedWindowsHearTheRelease
<1> QED
  BY <1>1, PointerInvAlways, PTL

-----------------------------------------------------------------------------
(***************************************************************************)
(* The windows of an order that are among some are as many windows of it.  *)
(***************************************************************************)
LEMMA SomePlaceIsFirst ==
  ASSUME NEW n \in Nat, NEW S \in SUBSET (0 .. n), S # {}
  PROVE  \E m \in S : \A i \in S : m <= i
<1>1. S \subseteq Nat
  OBVIOUS
<1>2. PICK m \in S : \A i \in S : ~ (<<i, m>> \in OpToRel(<, Nat))
  BY <1>1, NatLessThanWellFounded, WFMin, Zenon
<1>3. ASSUME NEW i \in S PROVE m <= i
  <2> SUFFICES ASSUME i < m PROVE FALSE
    BY <1>1
  <2>1. <<i, m>> \in Nat \X Nat /\ <<i, m>>[1] < <<i, m>>[2]
    BY <1>1
  <2>2. <<i, m>> \in OpToRel(<, Nat)
    BY <2>1, Zenon DEF OpToRel
  <2> QED
    BY <1>2, <2>2, Zenon
<1> QED
  BY <1>3

LEMMA PlacesAreCounted ==
  ASSUME NEW n \in Nat, NEW S \in SUBSET (1 .. n)
  PROVE  /\ Cardinality(S) \in Nat
         /\ \A k \in 1 .. Cardinality(S) :
              \E i \in S : Cardinality({j \in S : j <= i}) = k
<1> DEFINE UpTo(i) == {j \in S : j <= i}
<1>0. \A j \in S : j \in Int /\ 1 <= j /\ j <= n
  OBVIOUS
<1>1. IsFiniteSet(S)
  <2>1. IsFiniteSet(1 .. n)
    BY FS_Interval
  <2> QED
    BY <2>1, FS_Subset
<1>2. \A i \in 0 .. n : IsFiniteSet(UpTo(i)) /\ Cardinality(UpTo(i)) \in Nat
  <2>1. \A i \in 0 .. n : UpTo(i) \subseteq S
    OBVIOUS
  <2> HIDE DEF UpTo
  <2> QED
    BY <1>1, <2>1, FS_Subset, FS_CardinalityType
<1>3. Cardinality(UpTo(0)) = 0 /\ UpTo(n) = S
  <2>1. UpTo(0) = {} /\ UpTo(n) = S
    <3>1. \A j \in S : ~ (j <= 0) /\ j <= n
      BY <1>0
    <3> QED
      BY <3>1
  <2> QED
    BY <2>1, FS_EmptySet
<1>4. Cardinality(S) \in Nat
  BY <1>1, FS_CardinalityType
<1>5. ASSUME NEW k \in 1 .. Cardinality(S)
      PROVE  \E i \in S : Cardinality(UpTo(i)) = k
  <2> DEFINE T == {i \in 0 .. n : k <= Cardinality(UpTo(i))}
  <2>1. k \in Nat /\ 1 <= k /\ k <= Cardinality(S)
    BY <1>4
  <2>2. n \in T
    BY <1>3, <2>1
  <2>3. PICK i \in T : \A j \in T : i <= j
    <3>1. T \in SUBSET (0 .. n) /\ T # {}
      BY <2>2
    <3> HIDE DEF T
    <3> QED
      BY <3>1, SomePlaceIsFirst
  <2>4. i \in 0 .. n /\ k <= Cardinality(UpTo(i))
    OBVIOUS
  <2>5. i # 0
    <3> HIDE DEF UpTo
    <3> QED
      BY <1>3, <2>1, <2>4
  <2>6. i - 1 \in 0 .. n /\ i - 1 \notin T
    <3>1. i - 1 \in 0 .. n /\ ~ (i <= i - 1)
      BY <2>4, <2>5
    <3> HIDE DEF T
    <3> QED
      BY <2>3, <3>1
  <2>7. Cardinality(UpTo(i - 1)) < k
    <3> HIDE DEF UpTo
    <3> QED
      BY <1>2, <2>1, <2>6
  <2>8. i \in S
    <3> SUFFICES ASSUME i \notin S PROVE FALSE
      OBVIOUS
    <3>1. \A j \in S : j <= i <=> j <= i - 1
      BY <1>0, <2>4
    <3>2. UpTo(i) = UpTo(i - 1)
      BY <3>1
    <3> HIDE DEF UpTo
    <3> QED
      BY <1>2, <2>1, <2>4, <2>6, <2>7, <3>2
  <2>9. UpTo(i) = UpTo(i - 1) \cup {i} /\ i \notin UpTo(i - 1)
    <3>1. \A j \in S : j <= i <=> (j <= i - 1 \/ j = i)
      BY <1>0, <2>4
    <3>2. ~ (i <= i - 1)
      BY <2>4
    <3> QED
      BY <2>8, <3>1, <3>2
  <2> HIDE DEF UpTo
  <2>10. Cardinality(UpTo(i)) = Cardinality(UpTo(i - 1)) + 1
    BY <1>2, <2>6, <2>9, FS_AddElement
  <2> QED
    BY <1>2, <2>1, <2>4, <2>6, <2>7, <2>8, <2>10
<1> QED
  BY <1>4, <1>5

LEMMA InOrderAreOfTheOrder ==
  ASSUME NEW order \in Seq(Windows), NEW among
  PROVE  InOrder(among, order) \in Seq(Windows)
<1> DEFINE places == {i \in DOMAIN order : order[i] \in among}
           Kth(k) == CHOOSE i \in places : Cardinality({j \in places : j <= i}) = k
<1>1. Len(order) \in Nat /\ DOMAIN order = 1 .. Len(order)
      /\ \A i \in DOMAIN order : order[i] \in Windows
  BY LenProperties, ElementOfSeq
<1>2. places \in SUBSET (1 .. Len(order))
  BY <1>1
<1>3. \A i \in places : order[i] \in Windows
  BY <1>1
<1>4. InOrder(among, order) = [k \in 1 .. Cardinality(places) |-> order[Kth(k)]]
  BY DEF InOrder
<1> HIDE DEF places
<1>5. Cardinality(places) \in Nat
      /\ \A k \in 1 .. Cardinality(places) : Kth(k) \in places
  BY <1>1, <1>2, PlacesAreCounted
<1> HIDE DEF Kth
<1>6. \A k \in 1 .. Cardinality(places) : order[Kth(k)] \in Windows
  BY <1>3, <1>5
<1> QED
  BY <1>4, <1>5, <1>6, IsASeq

\* Places are counted in the order they come in.
LEMMA CountsGrow ==
  ASSUME NEW n \in Nat, NEW S \in SUBSET (1 .. n), NEW i \in S, NEW m \in S, i < m
  PROVE  Cardinality({j \in S : j <= i}) < Cardinality({j \in S : j <= m})
<1> DEFINE low == {j \in S : j <= i}
           high == {j \in S : j <= m}
<1>1. \A j \in S : j \in Int /\ 1 <= j /\ j <= n
  OBVIOUS
<1>2. IsFiniteSet(S)
  <2>1. IsFiniteSet(1 .. n)
    BY FS_Interval
  <2> QED
    BY <2>1, FS_Subset
<1>3. low \subseteq high /\ m \in high /\ m \notin low
  <2>1. \A j \in S : j <= i => j <= m
    BY <1>1
  <2>2. m <= m /\ ~ (m <= i)
    BY <1>1
  <2> QED
    BY <2>1, <2>2
<1>4. high \subseteq S
  OBVIOUS
<1> HIDE DEF low, high
<1>5. IsFiniteSet(high) /\ IsFiniteSet(low)
  BY <1>2, <1>3, <1>4, FS_Subset
<1>6. Cardinality(low) <= Cardinality(high) /\ Cardinality(low) # Cardinality(high)
  BY <1>3, <1>5, FS_Subset
<1>7. Cardinality(low) \in Nat /\ Cardinality(high) \in Nat
  BY <1>5, FS_CardinalityType
<1>8. Cardinality(low) < Cardinality(high)
  BY <1>6, <1>7
<1> QED
  BY <1>8 DEF low, high

(***************************************************************************)
(* A page's closing is heard by every window of the order that shows, each *)
(* of them once and bottom to top: the places of the windows that hear go  *)
(* up, and are the places of all that show.                                *)
(***************************************************************************)
LEMMA InOrderSelects ==
  ASSUME NEW order \in Seq(Windows), NEW among
  PROVE  LET listed == InOrder(among, order)
         IN  \E place \in [1 .. Len(listed) -> DOMAIN order] :
               /\ \A k \in 1 .. Len(listed) : listed[k] = order[place[k]]
               /\ \A k, l \in 1 .. Len(listed) : k < l => place[k] < place[l]
               /\ \A i \in DOMAIN order :
                    order[i] \in among <=> \E k \in 1 .. Len(listed) : place[k] = i
<1> DEFINE listed == InOrder(among, order)
           places == {i \in DOMAIN order : order[i] \in among}
           UpTo(i) == {j \in places : j <= i}
           Kth(k) == CHOOSE i \in places : Cardinality(UpTo(i)) = k
           N == Cardinality(places)
           place == [k \in 1 .. N |-> Kth(k)]
<1>1. Len(order) \in Nat /\ DOMAIN order = 1 .. Len(order)
  BY LenProperties
<1>2. places \in SUBSET (1 .. Len(order))
  BY <1>1
<1>3. N \in Nat /\ \A k \in 1 .. N : \E i \in places : Cardinality(UpTo(i)) = k
  <2> HIDE DEF places
  <2> QED
    BY <1>1, <1>2, PlacesAreCounted
<1>4. \A i, m \in places : i < m => Cardinality(UpTo(i)) < Cardinality(UpTo(m))
  <2> HIDE DEF places
  <2> QED
    BY <1>1, <1>2, CountsGrow
<1>5. \A i \in places : Cardinality(UpTo(i)) \in 1 .. N
  <2> SUFFICES ASSUME NEW i \in places PROVE Cardinality(UpTo(i)) \in 1 .. N
    OBVIOUS
  <2> HIDE DEF places
  <2>1. IsFiniteSet(places)
    <3>1. IsFiniteSet(1 .. Len(order))
      BY <1>1, FS_Interval
    <3> QED
      BY <1>2, <3>1, FS_Subset
  <2>2. UpTo(i) \subseteq places /\ i \in UpTo(i)
    BY <1>2
  <2> HIDE DEF UpTo
  <2>3. /\ IsFiniteSet(UpTo(i)) /\ Cardinality(UpTo(i)) <= N
        /\ Cardinality(UpTo(i)) \in Nat /\ Cardinality(UpTo(i)) # 0
    BY <2>1, <2>2, FS_Subset, FS_CardinalityType, FS_EmptySet
  <2> QED
    BY <1>3, <2>3
<1>6. listed = [k \in 1 .. N |-> order[Kth(k)]] /\ listed \in Seq(Windows)
  <2>1. listed = [k \in 1 .. N |-> order[Kth(k)]]
    BY DEF InOrder
  <2>2. listed \in Seq(Windows)
    BY InOrderAreOfTheOrder
  <2> QED
    BY <2>1, <2>2
<1>7. \A i \in places : i \in Int /\ i \in DOMAIN order /\ order[i] \in among
  BY <1>1
<1>8. \A i \in DOMAIN order : order[i] \in among => i \in places
  OBVIOUS
<1> HIDE DEF places, UpTo, N, listed
<1>9. \A k \in 1 .. N : Kth(k) \in places /\ Cardinality(UpTo(Kth(k))) = k
  BY <1>3
<1>10. Len(listed) = N
  BY <1>3, <1>6, LenProperties
<1> HIDE DEF Kth
<1>11. /\ place \in [1 .. N -> DOMAIN order]
       /\ \A k \in 1 .. N : place[k] = Kth(k) /\ listed[k] = order[place[k]]
  BY <1>6, <1>7, <1>9
<1> HIDE DEF place
<1>12. ASSUME NEW k \in 1 .. N, NEW l \in 1 .. N, k < l
       PROVE  place[k] < place[l]
  <2>1. /\ Kth(k) \in places /\ Kth(l) \in places
        /\ Cardinality(UpTo(Kth(k))) = k /\ Cardinality(UpTo(Kth(l))) = l
    BY <1>9
  <2>2. k \in Int /\ l \in Int /\ Kth(k) \in Int /\ Kth(l) \in Int
    BY <1>7, <2>1
  <2>3. Kth(k) # Kth(l) /\ ~ (Kth(l) < Kth(k))
    <3>1. k # l /\ ~ (l < k)
      BY <1>12, <2>2
    <3>2. Kth(l) < Kth(k) => l < k
      BY <1>4, <2>1
    <3> QED
      BY <2>1, <3>1, <3>2
  <2>4. Kth(k) < Kth(l)
    BY <2>2, <2>3
  <2> QED
    BY <1>11, <2>4
<1>13. ASSUME NEW i \in DOMAIN order
       PROVE  order[i] \in among <=> \E k \in 1 .. N : place[k] = i
  <2>1. ASSUME order[i] \in among
        PROVE  \E k \in 1 .. N : place[k] = i
    <3> DEFINE k == Cardinality(UpTo(i))
    <3>1. i \in places
      BY <1>8, <2>1
    <3>2. k \in 1 .. N
      BY <1>5, <3>1
    <3>3. Kth(k) \in places /\ Cardinality(UpTo(Kth(k))) = k
      BY <1>9, <3>2
    <3>4. i \in Int /\ Kth(k) \in Int /\ k \in Int
      BY <1>7, <3>1, <3>2, <3>3
    <3>5. ~ (i < Kth(k)) /\ ~ (Kth(k) < i)
      <4>1. i < Kth(k) => k < k
        BY <1>4, <3>1, <3>3
      <4>2. Kth(k) < i => k < k
        BY <1>4, <3>1, <3>3
      <4>3. ~ (k < k)
        BY <3>4
      <4> QED
        BY <4>1, <4>2, <4>3
    <3> HIDE DEF k
    <3>6. Kth(k) = i
      BY <3>4, <3>5
    <3> QED
      BY <1>11, <3>2, <3>6
  <2>2. ASSUME NEW k \in 1 .. N, place[k] = i
        PROVE  order[i] \in among
    BY <1>7, <1>9, <1>11, <2>2
  <2> QED
    BY <2>1, <2>2
<1> QED
  BY <1>10, <1>11, <1>12, <1>13 DEF listed

(***************************************************************************)
(* Whatever is posted, it is heard by windows, and what the surface        *)
(* remembers are windows.                                                  *)
(***************************************************************************)
LEMMA TheTopmostIsAWindow ==
  ASSUME NEW order \in Seq(Windows), NEW among \in SUBSET Windows
  PROVE  Topmost(among, order) \in Windows \cup {Nobody}
BY TheTopmostIsAmong

LEMMA ListedAreWindows ==
  ASSUME NEW window \in Windows \cup {Nobody}
  PROVE  Listed(window) \in Seq(Windows)
<1>1. CASE window = Nobody
  BY <1>1, EmptySeq DEF Listed
<1>2. CASE window # Nobody
  <2>1. window \in Windows /\ Listed(window) = <<window>>
    BY <1>2 DEF Listed
  <2> QED
    BY <2>1
<1> QED
  BY <1>1, <1>2

LEMMA WindowsHear ==
  ASSUME SurfaceTypeOK,
         NEW order \in Seq(Windows), NEW showing \in SUBSET Windows, NEW over,
         NEW post, post.kind \in Kinds
  PROVE  /\ Heard(post, showing, order, over).heardBy \in Seq(Windows)
         /\ Heard(post, showing, order, over).pressedIn \in Windows \cup {Nobody}
         /\ Heard(post, showing, order, over).keyboardWith \in Windows \cup {Nobody}
<1> DEFINE heard == Heard(post, showing, order, over)
           hit == TopmostUnder(post.at, showing, order, over)
           held == IfShowing(pressedIn, showing)
           with == IfShowing(keyboardWith, showing)
<1>1. /\ held \in Windows \cup {Nobody} /\ with \in Windows \cup {Nobody}
      /\ hit \in Windows \cup {Nobody}
      /\ Topmost(showing, order) \in Windows \cup {Nobody}
  <2>1. {w \in showing : post.at \in over[w]} \in SUBSET Windows
    OBVIOUS
  <2>2. hit \in Windows \cup {Nobody} /\ Topmost(showing, order) \in Windows \cup {Nobody}
    BY <2>1, TheTopmostIsAWindow DEF TopmostUnder
  <2>3. held \in Windows \cup {Nobody} /\ with \in Windows \cup {Nobody}
    BY DEF SurfaceTypeOK, IfShowing
  <2> QED
    BY <2>2, <2>3
<1>2. CASE post.kind = "down"
  <2>1. heard = HearPress(post, showing, order, over)
    BY <1>2 DEF Heard
  <2>2. /\ heard.heardBy = Listed(hit)
        /\ heard.pressedIn \in {hit, held} /\ heard.keyboardWith \in {hit, with}
    BY <2>1 DEF HearPress
  <2> QED
    BY <1>1, <2>2, ListedAreWindows
<1>3. CASE post.kind \in {"move", "up"}
  <2>1. heard = HearPointer(post, showing, order, over)
    BY <1>3 DEF Heard
  <2>2. /\ heard.heardBy = Listed(IF held # Nobody THEN held ELSE hit)
        /\ heard.pressedIn \in {Nobody, held} /\ heard.keyboardWith = with
    BY <2>1 DEF HearPointer
  <2> QED
    BY <1>1, <2>2, ListedAreWindows
<1>4. CASE post.kind = "key"
  <2>1. heard = HearKey(showing, order)
    BY <1>4 DEF Heard
  <2>2. /\ heard.heardBy = Listed(IF with # Nobody THEN with ELSE Topmost(showing, order))
        /\ heard.pressedIn = held /\ heard.keyboardWith = with
    BY <2>1 DEF HearKey
  <2> QED
    BY <1>1, <2>2, ListedAreWindows
<1>5. CASE post.kind = "close"
  <2>1. heard = HearWhole(InOrder(showing, order), showing)
    BY <1>5 DEF Heard
  <2>2. /\ heard.heardBy = InOrder(showing, order)
        /\ heard.pressedIn = held /\ heard.keyboardWith = with
    BY <2>1 DEF HearWhole
  <2> QED
    BY <1>1, <2>2, InOrderAreOfTheOrder
<1>6. CASE post.kind = "resize"
  <2>1. heard = HearWhole(<<>>, showing)
    BY <1>6 DEF Heard
  <2>2. heard.heardBy = <<>> /\ heard.pressedIn = held /\ heard.keyboardWith = with
    BY <2>1 DEF HearWhole
  <2> QED
    BY <1>1, <2>2, EmptySeq
<1> QED
  BY <1>2, <1>3, <1>4, <1>5, <1>6 DEF Kinds

\* The events a posting becomes.
LEMMA AddressedAreEvents ==
  ASSUME NEW kind \in Kinds, NEW at \in Spots, NEW heardBy \in Seq(Windows)
  PROVE  /\ [i \in DOMAIN heardBy |-> Event(kind, heardBy[i], at)] \in Seq(Events)
         /\ Len([i \in DOMAIN heardBy |-> Event(kind, heardBy[i], at)]) = Len(heardBy)
<1>1. Len(heardBy) \in Nat /\ DOMAIN heardBy = 1 .. Len(heardBy)
      /\ \A i \in 1 .. Len(heardBy) : heardBy[i] \in Windows
  BY LenProperties, ElementOfSeq
<1>2. \A i \in 1 .. Len(heardBy) : Event(kind, heardBy[i], at) \in Events
  BY <1>1 DEF Event, Events
<1> HIDE DEF Event, Events
<1>3. [i \in 1 .. Len(heardBy) |-> Event(kind, heardBy[i], at)] \in Seq(Events)
  BY <1>1, <1>2, IsASeq
<1>4. Len([i \in 1 .. Len(heardBy) |-> Event(kind, heardBy[i], at)]) = Len(heardBy)
  BY <1>1, <1>3, LenProperties
<1> QED
  BY <1>1, <1>3, <1>4

-----------------------------------------------------------------------------
(***************************************************************************)
(* Types.                                                                  *)
(***************************************************************************)
ScreenTyped == TypeOK /\ pane \in Seq(Windows)

\* The order of the windows names each of them once.
LEMMA ArrangingKeepsTheOrder ==
  ASSUME pane \in Seq(Windows), IsInjective(pane), Arrange
  PROVE  IsInjective(pane')
<1> DEFINE n == Len(pane)
<1>1. n \in Nat /\ DOMAIN pane = 1 .. n
  BY LenProperties
<1>2. ASSUME NEW w \in Windows \ ToSet(pane), pane' = Append(pane, w)
      PROVE  IsInjective(pane')
  <2>1. /\ DOMAIN pane' = 1 .. n + 1 /\ pane'[n + 1] = w
        /\ \A i \in 1 .. n : pane'[i] = pane[i]
    BY <1>1, <1>2, AppendProperties, LenProperties
  <2>2. \A i \in 1 .. n : pane[i] # w
    BY <1>1, <1>2 DEF ToSet
  <2>3. \A i \in 1 .. n + 1 : i \in 1 .. n \/ i = n + 1
    BY <1>1
  <2> HIDE DEF n
  <2> QED
    BY <1>1, <2>1, <2>2, <2>3 DEF IsInjective
<1>3. ASSUME NEW k \in DOMAIN pane, pane' = RemoveAt(pane, k)
      PROVE  IsInjective(pane')
  <2> DEFINE low == SubSeq(pane, 1, k - 1)
             high == SubSeq(pane, k + 1, n)
  <2>1. k \in 1 .. n /\ pane' = low \o high
    BY <1>1, <1>3 DEF RemoveAt
  <2>2. /\ low \in Seq(Windows) /\ Len(low) = k - 1
        /\ \A i \in 1 .. k - 1 : low[i] = pane[i]
    BY <1>1, <2>1, SubSeqProperties
  <2>3. /\ high \in Seq(Windows) /\ Len(high) = n - k
        /\ \A i \in 1 .. n - k : high[i] = pane[i + k]
    <3>0. k + 1 \in Int /\ n \in Int /\ n - (k + 1) + 1 = n - k
          /\ \A i \in k + 1 .. n : pane[i] \in Windows
      BY <1>1, <2>1
    <3>1. \A i \in 1 .. n - k : high[i] = pane[(k + 1) + i - 1]
      <4>1. \A i \in 1 .. n - (k + 1) + 1 : high[i] = pane[(k + 1) + i - 1]
        BY <3>0, SubSeqProperties
      <4> QED
        BY <3>0, <4>1
    <3>2. high \in Seq(Windows) /\ Len(high) = n - k
      BY <1>1, <2>1, SubSeqProperties
    <3>3. \A i \in 1 .. n - k : (k + 1) + i - 1 = i + k
      BY <1>1, <2>1
    <3> HIDE DEF high, n
    <3> QED
      BY <3>1, <3>2, <3>3
  <2> HIDE DEF low, high, n
  <2> DEFINE was(i) == IF i < k THEN i ELSE i + 1
  <2>4. DOMAIN pane' = 1 .. n - 1
        /\ \A i \in 1 .. n - 1 : pane'[i] = IF i <= k - 1 THEN low[i] ELSE high[i - (k - 1)]
    BY <1>1, <2>1, <2>2, <2>3, ConcatProperties, LenProperties
  <2>5. ASSUME NEW i \in 1 .. n - 1
        PROVE  pane'[i] = pane[was(i)] /\ was(i) \in 1 .. n
    <3>1. CASE i < k
      BY <1>1, <2>1, <2>2, <2>4, <3>1
    <3>2. CASE ~ (i < k)
      <4>1. i - (k - 1) \in 1 .. n - k /\ (i - (k - 1)) + k = i + 1 /\ ~ (i <= k - 1)
        BY <1>1, <2>1, <3>2
      <4>2. pane'[i] = high[i - (k - 1)]
        BY <2>4, <4>1
      <4>3. high[i - (k - 1)] = pane[i + 1]
        BY <2>3, <4>1
      <4> QED
        BY <1>1, <2>1, <3>2, <4>2, <4>3
    <3> QED
      BY <3>1, <3>2
  <2>6. \A i, j \in 1 .. n - 1 : was(i) = was(j) => i = j
    BY <1>1, <2>1
  <2> HIDE DEF was
  <2> QED
    BY <1>1, <2>4, <2>5, <2>6 DEF IsInjective
<1>4. CASE UNCHANGED pane
  BY <1>4 DEF IsInjective
<1> QED
  BY <1>2, <1>3, <1>4 DEF Arrange

LEMMA TheOrderIsTyped ==
  ASSUME pane \in Seq(Windows)
  PROVE  ToSet(pane) \subseteq Windows
<1>1. \A i \in DOMAIN pane : pane[i] \in Windows
  BY LenProperties, ElementOfSeq
<1> QED
  BY <1>1 DEF ToSet

\* The sequences, and what each kind of step makes of them.
SequencesTyped ==
  /\ posts \in Seq([kind : Reported, at : Spots])
  /\ reports \in Seq(Moves)
  /\ measurements \in Seq(Sizes)
  /\ queued \in Seq(Events)

PlainlyTyped ==
  /\ SurfaceTypeOK
  /\ rooted \in BOOLEAN /\ attached \in BOOLEAN /\ pictureRequired \in BOOLEAN
  /\ rootSize \in Sizes \cup {Unmeasured} /\ viewport \in Sizes \cup {Unmeasured}
  /\ covers \in Layouts
  /\ opened \subseteq Windows
  /\ phase \in {"idle", "script", "measuring", "reporting", "addressing", "again", "taking"}
  /\ purpose \in {"run", "event"}

LEMMA TypeOKIs ==
  TypeOK <=> /\ PlainlyTyped /\ SequencesTyped
             /\ IsInjective(pane) /\ ToSet(pane) \subseteq Windows
BY DEF TypeOK, PlainlyTyped, SequencesTyped

LEMMA OperatorKeepsTypes ==
  ASSUME ScreenTyped, Operator
  PROVE  PlainlyTyped' /\ SequencesTyped'
<1> DEFINE P == [kind : Reported, at : Spots]
<1>1. posts \in Seq(P) /\ reports \in Seq(Moves) /\ measurements \in Seq(Sizes)
      /\ queued \in Seq(Events)
  BY DEF ScreenTyped, TypeOK
<1>2. PlainlyTyped
  BY TypeOKIs DEF ScreenTyped
<1>3. ASSUME NEW k \in Reported, NEW at \in Spots, Report(k, at)
      PROVE  PlainlyTyped' /\ SequencesTyped'
  <2>1. posts' \in Seq(P)
    <3>1. [kind |-> k, at |-> at] \in P
      OBVIOUS
    <3> HIDE DEF P
    <3> QED
      BY <1>1, <1>3, <3>1, AppendProperties DEF Report
  <2>2. PlainlyTyped'
    BY <1>2, <1>3 DEF Report, PlainlyTyped, SurfaceTypeOK, surfaceVars, windowVars
  <2> QED
    BY <1>1, <1>3, <2>1, <2>2 DEF Report, SequencesTyped
<1>4. ASSUME NEW move \in Moves, ReportMove(move)
      PROVE  PlainlyTyped' /\ SequencesTyped'
  <2>1. reports' \in Seq(Moves)
    BY <1>1, <1>4, AppendProperties DEF ReportMove
  <2>2. PlainlyTyped'
    BY <1>2, <1>4 DEF ReportMove, PlainlyTyped, SurfaceTypeOK, surfaceVars, windowVars, pageVars
  <2> QED
    BY <1>1, <1>4, <2>1, <2>2 DEF ReportMove, SequencesTyped
<1>5. ASSUME NEW size \in Sizes, Measure(size)
      PROVE  PlainlyTyped' /\ SequencesTyped'
  <2>1. measurements' \in Seq(Sizes)
    BY <1>1, <1>5, AppendProperties DEF Measure
  <2>2. PlainlyTyped'
    BY <1>2, <1>5 DEF Measure, PlainlyTyped, SurfaceTypeOK, surfaceVars, windowVars, pageVars
  <2> QED
    BY <1>1, <1>5, <2>1, <2>2 DEF Measure, SequencesTyped
<1>6. CASE AttachOrLeave
  BY <1>1, <1>2, <1>6
     DEF AttachOrLeave, PlainlyTyped, SequencesTyped, SurfaceTypeOK, surfaceVars, windowVars
<1> QED
  BY <1>3, <1>4, <1>5, <1>6 DEF Operator

LEMMA ScriptKeepsTypes ==
  ASSUME ScreenTyped, Script
  PROVE  PlainlyTyped' /\ SequencesTyped'
<1> USE DEF Scripting, PlainlyTyped, SurfaceTypeOK, surfaceVars, pageVars
<1>1. PlainlyTyped /\ ToSet(pane) \subseteq Windows
  BY TypeOKIs DEF ScreenTyped
<1>2. UNCHANGED <<pressedIn, keyboardWith, attached, posts, reports, measurements,
                  viewport, queued, phase, purpose>>
  BY DEF Script, AcceptRootGob, Arrange, ShowRoot, ShowGob
<1>3. SequencesTyped'
  BY <1>2, TypeOKIs DEF ScreenTyped, SequencesTyped
<1>4. CASE AcceptRootGob
  BY <1>1, <1>2, <1>3, <1>4 DEF AcceptRootGob
<1>5. CASE Arrange
  BY <1>1, <1>2, <1>3, <1>5 DEF Arrange
<1>6. CASE ShowRoot
  BY <1>1, <1>2, <1>3, <1>6 DEF ShowRoot
<1>7. ASSUME NEW gobs, ShowGob(gobs)
      PROVE  PlainlyTyped'
  BY <1>1, <1>2, <1>7 DEF ShowGob
<1>8. PlainlyTyped'
  BY <1>4, <1>5, <1>6, <1>7 DEF Script
<1> QED
  BY <1>3, <1>8

LEMMA LooksKeepTypes ==
  ASSUME ScreenTyped, Looks
  PROVE  PlainlyTyped' /\ SequencesTyped'
<1> DEFINE P == [kind : Reported, at : Spots]
<1> USE DEF Looking, windowVars, pageVars
<1>1. posts \in Seq(P) /\ reports \in Seq(Moves) /\ measurements \in Seq(Sizes)
      /\ queued \in Seq(Events)
  BY DEF ScreenTyped, TypeOK
<1>2. PlainlyTyped
  BY TypeOKIs DEF ScreenTyped
<1> HIDE DEF P
<1>3. ASSUME NEW for, for \in {"run", "event"}, BeginLook(for)
      PROVE  PlainlyTyped' /\ SequencesTyped'
  BY <1>1, <1>2, <1>3
     DEF BeginLook, PlainlyTyped, SequencesTyped, SurfaceTypeOK, surfaceVars, P
<1>4. CASE AcceptMeasurements
  <2>1. CASE measurements = <<>>
    BY <1>1, <1>2, <1>4, <2>1
       DEF AcceptMeasurements, PlainlyTyped, SequencesTyped, SurfaceTypeOK, surfaceVars, P
  <2>2. CASE measurements # <<>>
    <3>1. Head(measurements) \in Sizes /\ Tail(measurements) \in Seq(Sizes)
      BY <1>1, <2>2, HeadTailProperties
    <3>2. /\ viewport' \in Sizes /\ rootSize' \in {rootSize, viewport'}
          /\ measurements' \in Seq(Sizes)
          /\ UNCHANGED <<surfaceVars, rooted, attached, covers, opened, pictureRequired,
                         posts, reports, queued, phase, purpose>>
      BY <1>4, <2>2, <3>1 DEF AcceptMeasurements
    <3>3. PlainlyTyped'
      BY <1>2, <3>2 DEF PlainlyTyped, SurfaceTypeOK, surfaceVars
    <3>4. SequencesTyped'
      BY <1>1, <3>2 DEF SequencesTyped, P
    <3> QED
      BY <3>3, <3>4
  <2> QED
    BY <2>1, <2>2
<1>5. CASE TakeReports
  <2>1. UNCHANGED <<surfaceVars, rooted, attached, covers, opened, rootSize, pictureRequired,
                    posts, measurements, viewport, purpose>>
    BY <1>5 DEF TakeReports
  <2>2. phase' \in {phase, "taking", "script", "addressing"}
    BY <1>5 DEF TakeReports, AfterReports
  <2>3. PlainlyTyped'
    BY <1>2, <2>1, <2>2 DEF PlainlyTyped, SurfaceTypeOK, surfaceVars
  <2>4. reports' \in Seq(Moves) /\ queued' \in Seq(Events)
    <3>1. CASE reports = <<>>
      BY <1>1, <1>5, <3>1 DEF TakeReports
    <3>2. CASE reports # <<>>
      <4>1. Head(reports) \in Moves /\ Tail(reports) \in Seq(Moves)
        BY <1>1, <3>2, HeadTailProperties
      <4>2. Event(Head(reports), Nobody, Nobody) \in Events
        BY <4>1 DEF Event, Events
      <4>3. /\ reports' = Tail(reports)
            /\ queued' = Append(queued, Event(Head(reports), Nobody, Nobody))
        BY <1>5, <3>2 DEF TakeReports
      <4> HIDE DEF Event, Events
      <4> QED
        BY <1>1, <4>1, <4>2, <4>3, AppendProperties
    <3> QED
      BY <3>1, <3>2
  <2> QED
    BY <1>1, <2>1, <2>3, <2>4 DEF SequencesTyped, P
<1>6. CASE AddressAllEvents
  <2>1. CASE posts = <<>>
    BY <1>1, <1>2, <1>6, <2>1
       DEF AddressAllEvents, PlainlyTyped, SequencesTyped, SurfaceTypeOK, surfaceVars, P
  <2>2. CASE posts # <<>>
    <3> DEFINE post == Head(posts)
               heard == Heard(post, Showing, pane, covers)
    <3>1. post \in P /\ Tail(posts) \in Seq(P)
      BY <1>1, <2>2, HeadTailProperties
    <3>2. post.kind \in Kinds /\ post.at \in Spots
      BY <3>1, PageScreenAssumption DEF PageScreenAssumption, P
    <3> HIDE DEF post
    <3>3. /\ heard.heardBy \in Seq(Windows)
          /\ heard.pressedIn \in Windows \cup {Nobody}
          /\ heard.keyboardWith \in Windows \cup {Nobody}
      <4>1. SurfaceTypeOK /\ pane \in Seq(Windows)
        BY <1>2 DEF PlainlyTyped, ScreenTyped
      <4>2. Showing \subseteq Windows
        BY <4>1, WindowsShowing
      <4> QED
        BY <3>2, <4>1, <4>2, WindowsHear
    <3>4. /\ pressedIn' = heard.pressedIn /\ keyboardWith' = heard.keyboardWith
          /\ queued' = queued \o [i \in DOMAIN heard.heardBy |->
                                    Event(post.kind, heard.heardBy[i], post.at)]
          /\ posts' = Tail(posts)
          /\ UNCHANGED <<rooted, attached, covers, opened, rootSize, pictureRequired,
                         reports, measurements, viewport, phase, purpose>>
      BY <1>6, <2>2 DEF AddressAllEvents, AddressEvent, post
    <3> HIDE DEF heard
    <3>5. queued' \in Seq(Events)
      BY <1>1, <3>2, <3>3, <3>4, AddressedAreEvents, ConcatProperties
    <3>6. PlainlyTyped'
      BY <1>2, <3>3, <3>4 DEF PlainlyTyped, SurfaceTypeOK
    <3> QED
      BY <1>1, <3>1, <3>4, <3>5, <3>6 DEF SequencesTyped, P
  <2> QED
    BY <2>1, <2>2
<1>7. CASE TakeOldest
  <2>1. UNCHANGED <<surfaceVars, rooted, attached, covers, opened, rootSize,
                    posts, reports, measurements, viewport, purpose>>
        /\ phase' = "script"
    BY <1>7 DEF TakeOldest
  <2>2. pictureRequired' \in BOOLEAN
    BY <1>2, <1>7 DEF TakeOldest, OfferShown, PlainlyTyped
  <2>3. queued' \in Seq(Events)
    <3>1. CASE queued = <<>>
      BY <1>1, <1>7, <3>1 DEF TakeOldest
    <3>2. CASE queued # <<>>
      BY <1>1, <1>7, <3>2, HeadTailProperties DEF TakeOldest
    <3> QED
      BY <3>1, <3>2
  <2>4. PlainlyTyped'
    BY <1>2, <2>1, <2>2 DEF PlainlyTyped, SurfaceTypeOK, surfaceVars
  <2> QED
    BY <1>1, <2>1, <2>3, <2>4 DEF SequencesTyped, P
<1>8. CASE EndRun
  <2>1. UNCHANGED <<surfaceVars, rooted, attached, covers, opened, rootSize,
                    posts, reports, measurements, viewport, queued, purpose>>
        /\ phase' = "idle"
    BY <1>8 DEF EndRun
  <2>2. pictureRequired' \in BOOLEAN
    BY <1>2, <1>8 DEF EndRun, OfferShown, PlainlyTyped
  <2>3. PlainlyTyped'
    BY <1>2, <2>1, <2>2 DEF PlainlyTyped, SurfaceTypeOK, surfaceVars
  <2> QED
    BY <1>1, <2>1, <2>3 DEF SequencesTyped, P
<1> QED
  BY <1>3, <1>4, <1>5, <1>6, <1>7, <1>8 DEF Looks

LEMMA OthersKeepTheOrder ==
  ASSUME [Next]_vars
  PROVE  Arrange \/ UNCHANGED pane
<1>1. CASE Operator
  BY <1>1, TheOperatorTouchesNoWindow
<1>2. CASE AcceptRootGob \/ ShowRoot \/ \E gobs : ShowGob(gobs)
  BY <1>2 DEF AcceptRootGob, ShowRoot, ShowGob
<1>3. CASE Looks
  <2>1. CASE AddressAllEvents
    BY <2>1 DEF AddressAllEvents, Looking, windowVars
  <2> QED
    BY <1>3, <2>1, OtherLooksTouchNoPost DEF Looks
<1>4. CASE UNCHANGED vars
  BY <1>4 DEF vars, windowVars
<1> QED
  BY <1>1, <1>2, <1>3, <1>4 DEF Next, Script

LEMMA ScreensAreTyped == Spec => []ScreenTyped
<1>1. Init => ScreenTyped
  <2> SUFFICES ASSUME Init PROVE ScreenTyped
    OBVIOUS
  <2>1. PlainlyTyped
    BY DEF Init, SurfaceInit, SurfaceTypeOK, PlainlyTyped
  <2>2. SequencesTyped /\ pane \in Seq(Windows)
    BY EmptySeq DEF Init, SequencesTyped
  <2>3. IsInjective(pane)
    BY DEF Init, IsInjective
  <2> QED
    BY <2>1, <2>2, <2>3, TheOrderIsTyped, TypeOKIs DEF ScreenTyped
<1>2. /\ PlainlyTyped' /\ SequencesTyped'
      /\ IsInjective(pane') /\ ToSet(pane') \subseteq Windows
      => TypeOK'
  BY DEF TypeOK, PlainlyTyped, SequencesTyped
<1>3. ScreenTyped /\ [Next]_vars => ScreenTyped'
  <2> SUFFICES ASSUME ScreenTyped, [Next]_vars PROVE ScreenTyped'
    OBVIOUS
  <2>1. pane' \in Seq(Windows)
    BY TheOrderIsOfWindows DEF ScreenTyped
  <2>2. IsInjective(pane')
    BY OthersKeepTheOrder, ArrangingKeepsTheOrder DEF ScreenTyped, TypeOK
  <2>3. ToSet(pane') \subseteq Windows
    <3>1. \A i \in DOMAIN pane' : pane'[i] \in Windows
      BY <2>1, LenProperties, ElementOfSeq
    <3> QED
      BY <3>1 DEF ToSet
  <2>4. ASSUME UNCHANGED vars
        PROVE  PlainlyTyped' /\ SequencesTyped'
    BY <2>4, TypeOKIs
       DEF ScreenTyped, PlainlyTyped, SequencesTyped, SurfaceTypeOK,
           vars, surfaceVars, windowVars, pageVars
  <2>5. PlainlyTyped' /\ SequencesTyped'
    BY <2>4, OperatorKeepsTypes, ScriptKeepsTypes, LooksKeepTypes DEF Next
  <2> QED
    BY <1>2, <2>1, <2>2, <2>3, <2>5 DEF ScreenTyped
<1> QED
  BY <1>1, <1>3, PTL DEF Spec

(***************************************************************************)
(* Whatever the operator posts and the script arranges, a page as a screen *)
(* is well typed: the order names each window once, every event queued is  *)
(* for a window or is a move (BrowserScreen.java, GobScreen.java).         *)
(***************************************************************************)
THEOREM ScreensAreWellTyped == Spec => []TypeOK
<1>1. ScreenTyped => TypeOK
  BY DEF ScreenTyped
<1> QED
  BY <1>1, ScreensAreTyped, PTL

-----------------------------------------------------------------------------
(***************************************************************************)
(* The keyboard.  The window that heard the last press, while it shows, is *)
(* the window the surface has the keyboard with.                           *)
(***************************************************************************)
TheKeyboardFollows ==
  lastPressed # Nobody => lastPressed = keyboardWith /\ lastPressed \in Showing

KeysInv == ScreenTyped /\ TheKeyboardFollows

\* Where what has heard the last press shows, the keyboard is still with it.
LEMMA TheKeyboardIsKept ==
  ASSUME TheKeyboardFollows, lastPressed # Nobody
  PROVE  IfShowing(keyboardWith, Showing) = lastPressed
BY DEF TheKeyboardFollows, IfShowing

LEMMA AddressingMovesTheKeyboard ==
  ASSUME KeysInv, AddressAllEvents, posts # <<>>
  PROVE  TheKeyboardFollows'
<1> DEFINE post == Head(posts)
           hit == TopmostUnder(post.at, Showing, pane, covers)
           with == IfShowing(keyboardWith, Showing)
           heard == Heard(post, Showing, pane, covers)
<1>1. /\ keyboardWith' = heard.keyboardWith
      /\ lastPressed' = IF post.kind = "down" /\ heard.heardBy # <<>>
                        THEN Head(heard.heardBy) ELSE lastPressed
      /\ Showing' = Showing
  BY DEF AddressAllEvents, AddressEvent, Remember, Looking, windowVars, Showing
<1>2. post.kind \in Kinds
  <2>1. post \in [kind : Reported, at : Spots]
    BY HeadTailProperties DEF KeysInv, ScreenTyped, TypeOK
  <2> QED
    BY <2>1, PageScreenAssumption DEF PageScreenAssumption
<1>3. TheKeyboardFollows /\ hit \in Showing \cup {Nobody}
  BY TheTopmostIsAmong DEF KeysInv, ScreenTyped, TopmostUnder
<1>4. lastPressed # Nobody => with = lastPressed
  BY <1>3, TheKeyboardIsKept
<1>5. CASE post.kind = "down"
  <2>1. heard = HearPress(post, Showing, pane, covers)
    BY <1>5 DEF Heard
  <2>2. /\ heard.heardBy = Listed(hit)
        /\ heard.keyboardWith = IF hit = Nobody THEN with ELSE hit
    BY <2>1 DEF HearPress
  <2> HIDE DEF hit, with, heard, post
  <2>3. CASE hit = Nobody
    <3>1. heard.heardBy = <<>> /\ heard.keyboardWith = with
      BY <2>2, <2>3 DEF Listed
    <3>2. lastPressed' = lastPressed /\ keyboardWith' = with
      BY <1>1, <3>1
    <3> QED
      BY <1>1, <1>3, <1>4, <3>2 DEF TheKeyboardFollows
  <2>4. CASE hit # Nobody
    <3>1. heard.heardBy = <<hit>> /\ heard.keyboardWith = hit
      BY <2>2, <2>4 DEF Listed
    <3>2. <<hit>> # <<>> /\ Head(<<hit>>) = hit
      OBVIOUS
    <3>3. lastPressed' = hit /\ keyboardWith' = hit
      BY <1>1, <1>5, <3>1, <3>2
    <3> QED
      BY <1>1, <1>3, <2>4, <3>3 DEF TheKeyboardFollows
  <2> QED
    BY <2>3, <2>4
<1>6. CASE post.kind # "down"
  <2>1. heard.keyboardWith = with
    <3>1. CASE post.kind \in {"move", "up"}
      BY <3>1 DEF Heard, HearPointer
    <3>2. CASE post.kind = "key"
      BY <3>2 DEF Heard, HearKey
    <3>3. CASE post.kind = "close"
      BY <3>3 DEF Heard, HearWhole
    <3>4. CASE post.kind = "resize"
      BY <3>4 DEF Heard, HearWhole
    <3> QED
      BY <1>2, <1>6, <3>1, <3>2, <3>3, <3>4 DEF Kinds
  <2> HIDE DEF hit, with, heard, post
  <2>2. lastPressed' = lastPressed /\ keyboardWith' = with
    BY <1>1, <1>6, <2>1
  <2> QED
    BY <1>1, <1>3, <1>4, <2>2 DEF TheKeyboardFollows
<1> QED
  BY <1>5, <1>6

LEMMA TheKeyboardIsLeftAlone ==
  ASSUME TheKeyboardFollows,
         UNCHANGED <<keyboardWith, rooted, pane, opened, lastPressed>>
  PROVE  TheKeyboardFollows'
BY DEF TheKeyboardFollows, Showing

LEMMA KeysInvAlways == Spec => []KeysInv
<1>1. Init => TheKeyboardFollows
  BY DEF Init, TheKeyboardFollows
<1>2. KeysInv /\ [Next]_vars => TheKeyboardFollows'
  <2> SUFFICES ASSUME KeysInv, [Next]_vars PROVE TheKeyboardFollows'
    OBVIOUS
  <2>0. TheKeyboardFollows
    BY DEF KeysInv
  <2>1. CASE Operator
    BY <2>0, <2>1, TheOperatorTouchesNoWindow, TheKeyboardIsLeftAlone
  <2>2. CASE Script
    <3>1. /\ keyboardWith' = keyboardWith
          /\ lastPressed' = IF lastPressed \in Showing' THEN lastPressed ELSE Nobody
      BY <2>2, TheScriptTouchesNoPost DEF KeepWhoShows
    <3> QED
      BY <2>0, <3>1 DEF TheKeyboardFollows
  <2>3. CASE AddressAllEvents
    <3>1. CASE posts # <<>>
      BY <2>3, <3>1, AddressingMovesTheKeyboard
    <3>2. CASE posts = <<>>
      BY <2>0, <2>3, <3>2, TheKeyboardIsLeftAlone
         DEF AddressAllEvents, Looking, surfaceVars, heardVars, windowVars
    <3> QED
      BY <3>1, <3>2
  <2>4. CASE \/ \E for : BeginLook(for)
            \/ AcceptMeasurements \/ TakeReports \/ TakeOldest \/ EndRun
    BY <2>0, <2>4, OtherLooksTouchNoPost, TheKeyboardIsLeftAlone
  <2>5. CASE UNCHANGED vars
    BY <2>0, <2>5, TheKeyboardIsLeftAlone DEF vars, surfaceVars, heardVars, windowVars
  <2> QED
    BY <2>1, <2>2, <2>3, <2>4, <2>5 DEF Next, Looks
<1>3. Spec => []TheKeyboardFollows
  <2>1. Init /\ ScreenTyped => KeysInv
    BY <1>1 DEF KeysInv
  <2>2. /\ KeysInv /\ [Next]_vars /\ ScreenTyped' => KeysInv'
    BY <1>2 DEF KeysInv
  <2>3. KeysInv => TheKeyboardFollows
    BY DEF KeysInv
  <2> QED
    BY <2>1, <2>2, <2>3, ScreensAreTyped, PTL DEF Spec
<1>4. ScreenTyped /\ TheKeyboardFollows => KeysInv
  BY DEF KeysInv
<1> QED
  BY <1>3, <1>4, ScreensAreTyped, PTL

\* One event is added to a queue by adding a list of one.
LEMMA AListOfOneWasAdded ==
  ASSUME NEW q \in Seq(Events), NEW added \in Seq(Events), NEW e \in Events,
         q \o added = Append(q, e)
  PROVE  Len(added) = 1 /\ added[1] = e
<1>1. Len(q) \in Nat /\ Len(added) \in Nat
  BY LenProperties
<1>2. Len(q \o added) = Len(q) + Len(added) /\ Len(Append(q, e)) = Len(q) + 1
  BY ConcatProperties, AppendProperties
<1>3. Len(added) = 1
  <2>1. \A m, n \in Nat : m + n = m + 1 => n = 1
    OBVIOUS
  <2>2. Len(q) + Len(added) = Len(q) + 1
    BY <1>2, Zenon
  <2> QED
    BY <1>1, <2>1, <2>2, Zenon
<1>4. (q \o added)[Len(q) + 1] = added[1]
  <2>1. Len(q) + 1 \in 1 .. Len(q) + Len(added) /\ ~ (Len(q) + 1 <= Len(q))
        /\ (Len(q) + 1) - Len(q) = 1
    BY <1>1, <1>3
  <2> QED
    BY <2>1, ConcatProperties
<1>5. Append(q, e)[Len(q) + 1] = e
  BY <1>1, AppendProperties
<1> QED
  BY <1>3, <1>4, <1>5

\* A key is heard by the window that heard the last press.
LEMMA AKeyIsHeard ==
  ASSUME KeysInv, AddressAllEvents, lastPressed # Nobody,
         NEW e \in Events, e.kind = "key", queued' = Append(queued, e)
  PROVE  e.window = lastPressed
<1> DEFINE post == Head(posts)
           with == IfShowing(keyboardWith, Showing)
           heard == Heard(post, Showing, pane, covers)
           added == [i \in DOMAIN heard.heardBy |->
                       Event(post.kind, heard.heardBy[i], post.at)]
<1>1. queued \in Seq(Events) /\ SurfaceTypeOK /\ pane \in Seq(Windows)
      /\ posts \in Seq([kind : Reported, at : Spots])
  BY DEF KeysInv, ScreenTyped, TypeOK
<1>2. posts # <<>>
  <2> SUFFICES ASSUME posts = <<>> PROVE FALSE
    OBVIOUS
  <2>1. queued = Append(queued, e)
    BY DEF AddressAllEvents
  <2>2. Len(queued) \in Nat /\ Len(Append(queued, e)) = Len(queued) + 1
    BY <1>1, AppendProperties, LenProperties
  <2> QED
    BY <2>1, <2>2
<1>3. queued' = queued \o added
  BY <1>2 DEF AddressAllEvents, AddressEvent
<1>4. post.kind \in Kinds /\ post.at \in Spots
  <2>1. post \in [kind : Reported, at : Spots]
    BY <1>1, <1>2, HeadTailProperties
  <2> QED
    BY <2>1, PageScreenAssumption DEF PageScreenAssumption
<1> HIDE DEF post
<1>5. heard.heardBy \in Seq(Windows)
  <2>1. Showing \subseteq Windows
    BY <1>1, WindowsShowing
  <2> QED
    BY <1>1, <1>4, <2>1, WindowsHear
<1>6. with = lastPressed
  BY TheKeyboardIsKept DEF KeysInv
<1>7. post.kind = "key" => heard.heardBy = <<lastPressed>>
  <2> SUFFICES ASSUME post.kind = "key" PROVE heard.heardBy = <<lastPressed>>
    OBVIOUS
  <2>1. heard = HearKey(Showing, pane)
    BY DEF Heard
  <2>2. heard.heardBy = Listed(IF with # Nobody THEN with ELSE Topmost(Showing, pane))
    BY <2>1 DEF HearKey
  <2> HIDE DEF with, heard
  <2>3. heard.heardBy = Listed(lastPressed)
    BY <1>6, <2>2
  <2> QED
    BY <2>3 DEF Listed
<1> HIDE DEF heard
<1>8. added \in Seq(Events) /\ Len(added) = Len(heard.heardBy)
  BY <1>4, <1>5, AddressedAreEvents
<1>9. Len(added) = 1 /\ added[1] = e
  <2> HIDE DEF added
  <2>1. queued \o added = Append(queued, e)
    BY <1>3, Zenon
  <2> HIDE DEF with
  <2> QED
    BY <1>1, <1>8, <2>1, AListOfOneWasAdded, Zenon
<1>10. 1 \in DOMAIN heard.heardBy
  BY <1>5, <1>8, <1>9, LenProperties
<1>11. e.kind = post.kind /\ e.window = heard.heardBy[1]
  <2>1. added[1] = Event(post.kind, heard.heardBy[1], post.at)
    BY <1>10
  <2> HIDE DEF added
  <2> QED
    BY <1>9, <2>1 DEF Event
<1> QED
  BY <1>7, <1>11

(***************************************************************************)
(* With any number of windows, and whatever the script does between two    *)
(* postings, a key goes to the window that heard the last press for as     *)
(* long as that has kept showing (WindowsOnOneSurface.java,                *)
(* findWhoHearsKey).                                                       *)
(***************************************************************************)
THEOREM KeysFollowThePress == Spec => KeysGoToWhoWasLastPressed
<1> DEFINE AKeyGoes ==
             \A e \in Events :
               (queued' = Append(queued, e) /\ e.kind = "key" /\ lastPressed # Nobody)
                 => e.window = lastPressed
<1>1. KeysInv /\ [Next]_vars => AKeyGoes
  <2> SUFFICES ASSUME KeysInv, [Next]_vars, NEW e \in Events,
                      queued' = Append(queued, e), e.kind = "key", lastPressed # Nobody
               PROVE  e.window = lastPressed
    OBVIOUS
  <2>1. /\ queued \in Seq(Events) /\ reports \in Seq(Moves)
        /\ Len(queued) \in Nat /\ Len(queued') = Len(queued) + 1
    <3>1. queued \in Seq(Events) /\ reports \in Seq(Moves)
      BY DEF KeysInv, ScreenTyped, TypeOK
    <3> QED
      BY <3>1, AppendProperties, LenProperties
  <2>2. queued' # queued
    BY <2>1
  <2>3. CASE AddressAllEvents
    BY <2>3, AKeyIsHeard
  <2>4. CASE TakeReports
    <3> DEFINE reported == Event(Head(reports), Nobody, Nobody)
    <3>1. reports # <<>> /\ queued' = Append(queued, reported)
      BY <2>2, <2>4 DEF TakeReports
    <3>2. Head(reports) \in Moves /\ reported \in Events
      BY <2>1, <3>1, HeadTailProperties DEF Event, Events
    <3>3. e = reported
      <4> HIDE DEF reported
      <4>1. /\ Append(queued, reported)[Len(queued) + 1] = reported
            /\ Append(queued, e)[Len(queued) + 1] = e
        BY <2>1, <3>2, AppendProperties
      <4> QED
        BY <3>1, <4>1
    <3>4. e.kind \in Moves
      BY <3>2, <3>3 DEF Event
    <3> QED
      BY <3>4, PageScreenAssumption DEF PageScreenAssumption
  <2>5. CASE TakeOldest
    <3>1. queued # <<>> /\ queued' = Tail(queued)
      BY <2>2, <2>5 DEF TakeOldest
    <3>2. Len(queued') = Len(queued) - 1
      BY <2>1, <3>1, HeadTailProperties
    <3> QED
      BY <2>1, <3>2
  <2>6. CASE \/ \E for : BeginLook(for)
            \/ AcceptMeasurements \/ EndRun \/ Operator \/ Script \/ UNCHANGED vars
    <3>1. UNCHANGED queued
      BY <2>6 DEF BeginLook, AcceptMeasurements, EndRun, vars,
                  Operator, Report, ReportMove, Measure, AttachOrLeave,
                  Script, AcceptRootGob, Arrange, ShowRoot, ShowGob, Scripting
    <3> QED
      BY <2>2, <3>1
  <2> QED
    BY <2>3, <2>4, <2>5, <2>6 DEF Next, Looks
<1>2. KeysInv /\ [Next]_vars => [AKeyGoes]_vars
  BY <1>1
<1> QED
  BY <1>2, KeysInvAlways, PTL DEF Spec, KeysGoToWhoWasLastPressed
=============================================================================
