--------------------------- MODULE ChangeRateProofs ---------------------------
(***************************************************************************)
(* The limit on changes holds for every limit and every window.            *)
(***************************************************************************)
EXTENDS ChangeRate, SequenceTheorems, TLAPS

\* At every time the times kept split into the earlier and the later ones.
Splits(s) ==
  \A T \in Int : \E k \in 0 .. Len(s) :
    /\ \A i \in 1 .. k : s[i] <= T
    /\ \A i \in k + 1 .. Len(s) : s[i] > T

\* The changes made that are no longer kept.
Forgotten == Len(made) - Len(changedAt)

MadeInOrder ==
  /\ \A i \in 1 .. Len(made) : made[i] <= now
  /\ \A i, j \in 1 .. Len(made) : i <= j => made[i] <= made[j]

\* What is kept is the end of what was made, and the rest no longer counts.
KeptAreTheLatest ==
  /\ Forgotten \in Nat
  /\ \A i \in 1 .. Len(changedAt) : changedAt[i] = made[Forgotten + i]
  /\ \A i \in 1 .. Forgotten : ~StillCounts(made[i])

RateInv ==
  /\ RateTypeOK
  /\ Splits(changedAt)
  /\ MadeInOrder
  /\ KeptAreTheLatest
  /\ NeverPastTheRate

LEMMA ElementsOfASequence ==
  ASSUME NEW S, NEW s \in Seq(S)
  PROVE  Len(s) \in Nat /\ \A i \in 1 .. Len(s) : s[i] \in S
OBVIOUS

LEMMA TimesAreNumbers ==
  ASSUME RateTypeOK
  PROVE  /\ now \in Int /\ Len(changedAt) \in Nat /\ Len(made) \in Nat
         /\ \A i \in 1 .. Len(changedAt) : changedAt[i] \in 0 .. MaxTime
         /\ \A i \in 1 .. Len(changedAt) : changedAt[i] \in Int
         /\ \A i \in 1 .. Len(made) : made[i] \in 0 .. MaxTime
         /\ \A i \in 1 .. Len(made) : made[i] \in Int
<1>1. /\ Len(changedAt) \in Nat
      /\ \A i \in 1 .. Len(changedAt) : changedAt[i] \in 0 .. MaxTime
  BY ElementsOfASequence DEF RateTypeOK
<1>2. Len(made) \in Nat /\ \A i \in 1 .. Len(made) : made[i] \in 0 .. MaxTime
  BY ElementsOfASequence DEF RateTypeOK
<1>3. \A t \in 0 .. MaxTime : t \in Int
  OBVIOUS
<1> QED
  BY <1>1, <1>2, <1>3 DEF RateTypeOK

(***************************************************************************)
(* The loop that drops old changes (History.countChange) comes to an end   *)
(* at the first that counts, and there is one place where it does.         *)
(***************************************************************************)
LEMMA DroppedIsDefined ==
  ASSUME RateTypeOK, Splits(changedAt)
  PROVE  /\ Dropped \in 0 .. Len(changedAt)
         /\ \A i \in 1 .. Dropped : ~StillCounts(changedAt[i])
         /\ Dropped < Len(changedAt) => StillCounts(changedAt[Dropped + 1])
<1>1. PICK k \in 0 .. Len(changedAt) :
        /\ \A i \in 1 .. k : changedAt[i] <= now - Window
        /\ \A i \in k + 1 .. Len(changedAt) : changedAt[i] > now - Window
  <2>1. now - Window \in Int
    BY RateAssumption DEF RateTypeOK
  <2> QED
    BY <2>1 DEF Splits
<1>2. /\ now \in Int /\ Window \in Int /\ Len(changedAt) \in Nat
      /\ \A i \in 1 .. Len(changedAt) : changedAt[i] \in Int
  BY TimesAreNumbers, RateAssumption
<1>3. /\ \A i \in 1 .. k : ~StillCounts(changedAt[i])
      /\ k < Len(changedAt) => StillCounts(changedAt[k + 1])
  BY <1>1, <1>2 DEF StillCounts
<1> QED
  BY <1>3 DEF Dropped

(***************************************************************************)
(* What still counts is the end of what was kept (History.countChange).    *)
(***************************************************************************)
LEMMA CountedIsTheEnd ==
  ASSUME RateTypeOK, Splits(changedAt)
  PROVE  /\ Counted \in Seq(0 .. MaxTime)
         /\ Len(Counted) = Len(changedAt) - Dropped
         /\ \A i \in 1 .. Len(Counted) : Counted[i] = changedAt[Dropped + i]
<1>1. Dropped \in 0 .. Len(changedAt) /\ Len(changedAt) \in Nat
  BY DroppedIsDefined, TimesAreNumbers
<1>2. \A i \in Dropped + 1 .. Len(changedAt) : changedAt[i] \in 0 .. MaxTime
  BY <1>1, TimesAreNumbers
<1> DEFINE D == Dropped
           L == Len(changedAt)
<1>3. D + 1 \in Int /\ L \in Int
  BY <1>1
<1> HIDE DEF D
<1>4. /\ SubSeq(changedAt, D + 1, L) \in Seq(0 .. MaxTime)
      /\ Len(SubSeq(changedAt, D + 1, L)) = IF D + 1 <= L THEN L - (D + 1) + 1 ELSE 0
      /\ \A i \in 1 .. L - (D + 1) + 1 :
           SubSeq(changedAt, D + 1, L)[i] = changedAt[(D + 1) + i - 1]
  <2>1. \A i \in D + 1 .. L : changedAt[i] \in 0 .. MaxTime
    BY <1>2 DEF D
  <2> QED
    BY <1>3, <2>1, SubSeqProperties
<1>5. D \in 0 .. L /\ L \in Nat
  BY <1>1 DEF D
<1>6. Len(SubSeq(changedAt, D + 1, L)) = L - D
  BY <1>4, <1>5
<1>7. \A i \in 1 .. L - D : SubSeq(changedAt, D + 1, L)[i] = changedAt[D + i]
  BY <1>4, <1>5
<1> QED
  BY <1>4, <1>6, <1>7 DEF Counted, D

(***************************************************************************)
(* Dropping what no longer counts keeps the order of what is left.         *)
(***************************************************************************)
LEMMA CountedSplits ==
  ASSUME RateTypeOK, Splits(changedAt)
  PROVE  Splits(Counted)
<1> SUFFICES ASSUME NEW T \in Int
             PROVE  \E k \in 0 .. Len(Counted) :
                      /\ \A i \in 1 .. k : Counted[i] <= T
                      /\ \A i \in k + 1 .. Len(Counted) : Counted[i] > T
  BY DEF Splits
<1>1. PICK k \in 0 .. Len(changedAt) :
        /\ \A i \in 1 .. k : changedAt[i] <= T
        /\ \A i \in k + 1 .. Len(changedAt) : changedAt[i] > T
  BY DEF Splits
<1>2. Dropped \in 0 .. Len(changedAt) /\ Len(changedAt) \in Nat
  BY DroppedIsDefined DEF RateTypeOK
<1>3. /\ Len(Counted) = Len(changedAt) - Dropped
      /\ \A i \in 1 .. Len(Counted) : Counted[i] = changedAt[Dropped + i]
  BY CountedIsTheEnd
<1> DEFINE h == IF k <= Dropped THEN 0 ELSE k - Dropped
<1>4. h \in 0 .. Len(Counted)
  BY <1>2, <1>3
<1>5. \A i \in 1 .. h : Counted[i] <= T
  BY <1>1, <1>2, <1>3
<1>6. \A i \in h + 1 .. Len(Counted) : Counted[i] > T
  BY <1>1, <1>2, <1>3
<1> QED
  BY <1>4, <1>5, <1>6

(***************************************************************************)
(* A change made now goes after all that are kept.                         *)
(***************************************************************************)
LEMMA AppendSplits ==
  ASSUME NEW s \in Seq(Int), NEW t \in Int, Splits(s),
         \A i \in 1 .. Len(s) : s[i] <= t
  PROVE  Splits(Append(s, t))
<1> SUFFICES ASSUME NEW T \in Int
             PROVE  \E k \in 0 .. Len(Append(s, t)) :
                      /\ \A i \in 1 .. k : Append(s, t)[i] <= T
                      /\ \A i \in k + 1 .. Len(Append(s, t)) : Append(s, t)[i] > T
  BY DEF Splits
<1>1. PICK k \in 0 .. Len(s) :
        /\ \A i \in 1 .. k : s[i] <= T
        /\ \A i \in k + 1 .. Len(s) : s[i] > T
  BY DEF Splits
<1>2. /\ Len(s) \in Nat
      /\ Len(Append(s, t)) = Len(s) + 1
      /\ Append(s, t)[Len(s) + 1] = t
      /\ \A i \in 1 .. Len(s) : Append(s, t)[i] = s[i]
  OBVIOUS
<1>3. \A i \in 1 .. Len(s) : s[i] \in Int
  OBVIOUS
<1>4. CASE t > T
  <2>1. k \in 0 .. Len(Append(s, t)) /\ \A i \in 1 .. k : Append(s, t)[i] <= T
    BY <1>1, <1>2
  <2>2. ASSUME NEW i \in k + 1 .. Len(Append(s, t))
        PROVE  Append(s, t)[i] > T
    <3>1. i = Len(s) + 1 \/ i \in k + 1 .. Len(s)
      BY <1>2
    <3> QED
      BY <1>1, <1>2, <1>4, <3>1
  <2> QED
    BY <2>1, <2>2
<1>5. CASE t <= T
  <2>1. ASSUME NEW i \in 1 .. Len(s) + 1
        PROVE  Append(s, t)[i] <= T
    <3>1. CASE i = Len(s) + 1
      BY <1>2, <1>5, <3>1
    <3>2. CASE i \in 1 .. Len(s)
      <4>1. s[i] \in Int /\ s[i] <= t
        BY <1>3, <3>2
      <4> QED
        BY <1>2, <1>5, <3>2, <4>1
    <3> QED
      BY <1>2, <3>1, <3>2
  <2>2. /\ Len(s) + 1 \in 0 .. Len(Append(s, t))
        /\ \A i \in (Len(s) + 1) + 1 .. Len(Append(s, t)) : Append(s, t)[i] > T
    BY <1>2
  <2> QED
    BY <2>1, <2>2
<1>6. t > T \/ t <= T
  OBVIOUS
<1> QED
  BY <1>4, <1>5, <1>6

(***************************************************************************)
(* What a call has found to count: the end of what was made, whose rest    *)
(* no longer counts.                                                       *)
(***************************************************************************)
LEMMA CountedAreTheLatest ==
  ASSUME RateInv
  PROVE  /\ Len(Counted) <= Len(made)
         /\ \A i \in 1 .. Len(Counted) :
              Counted[i] = made[Len(made) - Len(Counted) + i]
         /\ \A i \in 1 .. Len(made) - Len(Counted) : ~StillCounts(made[i])
<1>1. /\ Len(made) \in Nat
      /\ Len(changedAt) \in Nat
      /\ Dropped \in 0 .. Len(changedAt)
      /\ \A i \in 1 .. Dropped : ~StillCounts(changedAt[i])
  BY DroppedIsDefined DEF RateInv, RateTypeOK
<1>2. /\ Len(Counted) = Len(changedAt) - Dropped
      /\ \A i \in 1 .. Len(Counted) : Counted[i] = changedAt[Dropped + i]
  BY CountedIsTheEnd DEF RateInv
<1>3. /\ Len(made) - Len(changedAt) \in Nat
      /\ \A i \in 1 .. Len(changedAt) :
           changedAt[i] = made[Len(made) - Len(changedAt) + i]
      /\ \A i \in 1 .. Len(made) - Len(changedAt) : ~StillCounts(made[i])
  BY DEF RateInv, KeptAreTheLatest, Forgotten
<1>4. Len(Counted) <= Len(made)
  BY <1>1, <1>2, <1>3
<1>5. \A i \in 1 .. Len(Counted) : Counted[i] = made[Len(made) - Len(Counted) + i]
  <2> SUFFICES ASSUME NEW i \in 1 .. Len(Counted)
               PROVE  Counted[i] = made[Len(made) - Len(Counted) + i]
    OBVIOUS
  <2>1. Dropped + i \in 1 .. Len(changedAt)
    BY <1>1, <1>2
  <2>2. Counted[i] = made[Len(made) - Len(changedAt) + (Dropped + i)]
    BY <1>2, <1>3, <2>1
  <2>3. Len(made) - Len(changedAt) + (Dropped + i) = Len(made) - Len(Counted) + i
    BY <1>1, <1>2
  <2> QED
    BY <2>2, <2>3
<1>6. \A i \in 1 .. Len(made) - Len(Counted) : ~StillCounts(made[i])
  <2> SUFFICES ASSUME NEW i \in 1 .. Len(made) - Len(Counted),
                      i > Len(made) - Len(changedAt)
               PROVE  ~StillCounts(made[i])
    BY <1>1, <1>3
  <2> DEFINE d == i - (Len(made) - Len(changedAt))
  <2>1. d \in 1 .. Dropped
    BY <1>1, <1>2
  <2>2. d \in 1 .. Len(changedAt) /\ Len(made) - Len(changedAt) + d = i
    BY <1>1, <2>1
  <2>3. changedAt[d] = made[i]
    BY <1>3, <2>2
  <2> QED
    BY <1>1, <2>1, <2>3
<1> QED
  BY <1>4, <1>5, <1>6

(***************************************************************************)
(* A change that is let through keeps the invariant: the change so many    *)
(* before it has stopped counting (History.countChange).                   *)
(***************************************************************************)
LEMMA CountingKeepsRateInv ==
  ASSUME RateInv, CountChange
  PROVE  RateInv'
<1> USE RateAssumption
<1>1. /\ now \in 0 .. MaxTime /\ now' = now
      /\ made \in Seq(0 .. MaxTime) /\ Len(made) \in Nat
      /\ Counted \in Seq(0 .. MaxTime) /\ Len(Counted) \in Nat
      /\ Len(Counted) < MostChanges
      /\ \A i \in 1 .. Len(Counted) : Counted[i] \in 0 .. MaxTime
      /\ \A i \in 1 .. Len(made) : made[i] \in 0 .. MaxTime
  <2>1. Counted \in Seq(0 .. MaxTime)
    BY CountedIsTheEnd DEF RateInv
  <2>2. Len(Counted) \in Nat /\ \A i \in 1 .. Len(Counted) : Counted[i] \in 0 .. MaxTime
    BY <2>1, ElementsOfASequence
  <2>3. Len(made) \in Nat /\ \A i \in 1 .. Len(made) : made[i] \in 0 .. MaxTime
    BY TimesAreNumbers DEF RateInv
  <2>4. now' = now /\ ~(Len(Counted) >= MostChanges)
    BY DEF CountChange, RateReached
  <2>5. Len(Counted) < MostChanges
    BY <2>2, <2>4
  <2> QED
    BY <2>1, <2>2, <2>3, <2>4, <2>5 DEF RateInv, RateTypeOK
<1>2. /\ changedAt' \in Seq(0 .. MaxTime)
      /\ Len(changedAt') = Len(Counted) + 1
      /\ \A i \in 1 .. Len(Counted) : changedAt'[i] = Counted[i]
      /\ changedAt'[Len(Counted) + 1] = now
  BY <1>1 DEF CountChange
<1>3. /\ made' \in Seq(0 .. MaxTime)
      /\ Len(made') = Len(made) + 1
      /\ \A i \in 1 .. Len(made) : made'[i] = made[i]
      /\ made'[Len(made) + 1] = now
  BY <1>1 DEF CountChange
<1>4. /\ Len(Counted) <= Len(made)
      /\ \A i \in 1 .. Len(Counted) : Counted[i] = made[Len(made) - Len(Counted) + i]
      /\ \A i \in 1 .. Len(made) - Len(Counted) : ~StillCounts(made[i])
  BY CountedAreTheLatest
<1>5. \A i \in 1 .. Len(made) : made[i] <= now
  BY DEF RateInv, MadeInOrder
<1>6. RateTypeOK'
  BY <1>1, <1>2, <1>3 DEF RateTypeOK
<1>7. Splits(changedAt')
  <2>1. Counted \in Seq(Int) /\ now \in Int
    BY <1>1
  <2>2. \A i \in 1 .. Len(Counted) : Counted[i] <= now
    <3> SUFFICES ASSUME NEW i \in 1 .. Len(Counted)
                 PROVE  Counted[i] <= now
      OBVIOUS
    <3>1. Len(made) - Len(Counted) + i \in 1 .. Len(made)
      BY <1>1, <1>4
    <3> QED
      BY <1>4, <1>5, <3>1
  <2>3. Splits(Counted)
    BY CountedSplits DEF RateInv
  <2>4. Splits(Append(Counted, now))
    BY <2>1, <2>2, <2>3, AppendSplits
  <2> QED
    BY <2>4 DEF CountChange
<1>8. MadeInOrder'
  <2>1. ASSUME NEW i \in 1 .. Len(made')
        PROVE  made'[i] <= now'
    <3>1. i = Len(made) + 1 \/ i \in 1 .. Len(made)
      BY <1>1, <1>3
    <3>2. now \in Int /\ now' = now
      BY <1>1
    <3>3. CASE i = Len(made) + 1
      <4>1. made'[i] = now
        BY <1>3, <3>3
      <4> QED
        BY <3>2, <4>1
    <3>4. CASE i \in 1 .. Len(made)
      <4>1. made'[i] = made[i] /\ made[i] <= now
        BY <1>3, <1>5, <3>4
      <4> QED
        BY <3>2, <4>1
    <3> QED
      BY <3>1, <3>3, <3>4
  <2>2. ASSUME NEW i \in 1 .. Len(made'), NEW j \in 1 .. Len(made'), i <= j
        PROVE  made'[i] <= made'[j]
    <3>1. CASE j = Len(made) + 1
      BY <1>1, <1>3, <2>1, <3>1
    <3>2. CASE j \in 1 .. Len(made)
      <4>1. i \in 1 .. Len(made)
        BY <1>1, <2>2, <3>2
      <4>2. made[i] <= made[j]
        BY <2>2, <3>2, <4>1 DEF RateInv, MadeInOrder
      <4> QED
        BY <1>3, <3>2, <4>1, <4>2
    <3> QED
      BY <1>1, <1>3, <3>1, <3>2
  <2> QED
    BY <2>1, <2>2 DEF MadeInOrder
<1>9. KeptAreTheLatest'
  <2>1. Len(made') - Len(changedAt') = Len(made) - Len(Counted)
    BY <1>1, <1>2, <1>3
  <2>2. Forgotten' \in Nat
    BY <1>1, <1>4, <2>1 DEF Forgotten
  <2>3. ASSUME NEW i \in 1 .. Len(changedAt')
        PROVE  changedAt'[i] = made'[Forgotten' + i]
    <3>1. CASE i = Len(Counted) + 1
      BY <1>1, <1>2, <1>3, <2>1, <3>1 DEF Forgotten
    <3>2. CASE i \in 1 .. Len(Counted)
      <4>1. Len(made) - Len(Counted) + i \in 1 .. Len(made)
        BY <1>1, <1>4, <3>2
      <4> QED
        BY <1>2, <1>3, <1>4, <2>1, <3>2, <4>1 DEF Forgotten
    <3> QED
      BY <1>1, <1>2, <3>1, <3>2
  <2>4. ASSUME NEW i \in 1 .. Forgotten'
        PROVE  ~StillCounts(made[i])'
    <3>1. i \in 1 .. Len(made) - Len(Counted) /\ i \in 1 .. Len(made)
      BY <1>1, <2>1 DEF Forgotten
    <3>2. ~StillCounts(made[i]) /\ made'[i] = made[i]
      BY <1>3, <1>4, <3>1
    <3> QED
      BY <1>1, <3>2 DEF StillCounts
  <2> QED
    BY <2>2, <2>3, <2>4 DEF KeptAreTheLatest
<1>10. NeverPastTheRate'
  <2> SUFFICES ASSUME NEW i \in 1 .. Len(made') - MostChanges
               PROVE  made'[i + MostChanges] - made'[i] >= Window
    BY DEF NeverPastTheRate
  <2>0. /\ Len(made) \in Nat /\ Len(Counted) \in Nat /\ MostChanges \in Nat
        /\ Len(Counted) < MostChanges /\ MostChanges >= 1
        /\ i \in Nat /\ i >= 1 /\ i + MostChanges <= Len(made) + 1
    BY <1>1, <1>3
  <2>1. i \in 1 .. Len(made) - Len(Counted) /\ i \in 1 .. Len(made)
    BY <2>0
  <2>2. i + MostChanges = Len(made) + 1 \/ i + MostChanges \in 1 .. Len(made)
    BY <2>0
  <2>3. CASE i + MostChanges = Len(made) + 1
    <3>1. now - made[i] >= Window
      <4>1. now \in Int /\ made[i] \in Int /\ Window \in Int
        BY <1>1, <2>1
      <4>2. ~(now - made[i] < Window)
        BY <1>4, <2>1 DEF StillCounts
      <4> QED
        BY <4>1, <4>2
    <3> QED
      BY <1>3, <2>1, <2>3, <3>1
  <2>4. CASE i + MostChanges \in 1 .. Len(made)
    <3>1. made[i + MostChanges] - made[i] >= Window
      BY <1>1, <2>1, <2>4 DEF RateInv, NeverPastTheRate
    <3> QED
      BY <1>3, <2>1, <2>4, <3>1
  <2> QED
    BY <2>2, <2>3, <2>4
<1> QED
  BY <1>6, <1>7, <1>8, <1>9, <1>10 DEF RateInv

(***************************************************************************)
(* A change that is turned away keeps it: only the list is shortened.      *)
(***************************************************************************)
LEMMA RefusingKeepsRateInv ==
  ASSUME RateInv, RefuseChange
  PROVE  RateInv'
<1>1. now' = now /\ made' = made /\ changedAt' = Counted
  BY DEF RefuseChange
<1>2. Counted \in Seq(0 .. MaxTime) /\ Len(Counted) \in Nat /\ Len(made) \in Nat
  BY CountedIsTheEnd DEF RateInv, RateTypeOK
<1>3. RateTypeOK'
  BY <1>1, <1>2 DEF RateInv, RateTypeOK
<1>4. Splits(changedAt')
  BY <1>1, CountedSplits DEF RateInv
<1>5. MadeInOrder' /\ NeverPastTheRate'
  BY <1>1 DEF RateInv, MadeInOrder, NeverPastTheRate
<1>6. KeptAreTheLatest'
  <2>1. Forgotten' = Len(made) - Len(Counted)
    BY <1>1 DEF Forgotten
  <2> QED
    BY <1>1, <1>2, <2>1, CountedAreTheLatest DEF KeptAreTheLatest, StillCounts
<1> QED
  BY <1>3, <1>4, <1>5, <1>6 DEF RateInv

(***************************************************************************)
(* Every step of the limit keeps its invariant.                            *)
(***************************************************************************)
LEMMA RateStepKeepsRateInv ==
  ASSUME RateInv, [RateNext]_rateVars
  PROVE  RateInv'
<1>1. CASE CountChange
  BY <1>1, CountingKeepsRateInv
<1>2. CASE RefuseChange
  BY <1>2, RefusingKeepsRateInv
<1>3. CASE Tick
  <2>1. /\ changedAt' = changedAt /\ made' = made
        /\ now \in 0 .. MaxTime /\ now' = now + 1 /\ now' \in 0 .. MaxTime
    BY <1>3, RateAssumption DEF Tick, RateInv, RateTypeOK
  <2>2. Len(made) \in Nat /\ \A i \in 1 .. Len(made) : made[i] \in Int
    BY TimesAreNumbers DEF RateInv
  <2>3. RateTypeOK' /\ Splits(changedAt')
    BY <2>1 DEF RateInv, RateTypeOK
  <2>4. MadeInOrder'
    BY <2>1, <2>2 DEF RateInv, MadeInOrder
  <2>5. NeverPastTheRate'
    BY <2>1 DEF RateInv, NeverPastTheRate
  <2>6. KeptAreTheLatest'
    <3>1. Forgotten' = Forgotten /\ Len(changedAt) \in Nat
      BY <2>1 DEF Forgotten, RateInv, RateTypeOK
    <3>2. \A i \in 1 .. Forgotten : i \in 1 .. Len(made)
      BY <2>2, <3>1 DEF RateInv, KeptAreTheLatest, Forgotten
    <3>3. \A i \in 1 .. Forgotten : ~StillCounts(made[i])'
      BY <2>1, <2>2, <3>2, RateAssumption
      DEF RateInv, KeptAreTheLatest, StillCounts
    <3> QED
      BY <2>1, <3>1, <3>3 DEF RateInv, KeptAreTheLatest
  <2> QED
    BY <2>3, <2>4, <2>5, <2>6 DEF RateInv
<1>4. CASE UNCHANGED rateVars
  BY <1>4
  DEF rateVars, RateInv, RateTypeOK, Splits, MadeInOrder, KeptAreTheLatest,
      Forgotten, StillCounts, NeverPastTheRate
<1> QED
  BY <1>1, <1>2, <1>3, <1>4 DEF RateNext

LEMMA RateInitGivesRateInv ==
  ASSUME RateInit
  PROVE  RateInv
<1>1. RateTypeOK
  BY RateAssumption DEF RateInit, RateTypeOK
<1>2. Splits(changedAt)
  BY DEF RateInit, Splits
<1>3. MadeInOrder /\ KeptAreTheLatest
  BY DEF RateInit, MadeInOrder, KeptAreTheLatest, Forgotten
<1>4. NeverPastTheRate
  BY RateAssumption DEF RateInit, NeverPastTheRate
<1> QED
  BY <1>1, <1>2, <1>3, <1>4 DEF RateInv

(***************************************************************************)
(* When the limit is reached, as many changes as it allows are less than a *)
(* window old.                                                             *)
(***************************************************************************)
LEMMA FullWhenReached ==
  ASSUME RateInv
  PROVE  RefusedOnlyWhenFull
<1> SUFFICES ASSUME RateReached
             PROVE  /\ Len(made) >= MostChanges
                    /\ now - made[Len(made) - MostChanges + 1] < Window
  BY DEF RefusedOnlyWhenFull
<1> USE RateAssumption
<1>1. /\ Len(made) \in Nat /\ Len(changedAt) \in Nat
      /\ Dropped \in 0 .. Len(changedAt)
      /\ Len(Counted) = Len(changedAt) - Dropped
      /\ Len(Counted) >= MostChanges
      /\ Len(Counted) <= Len(made)
  <2>1. RateTypeOK /\ Splits(changedAt)
    BY DEF RateInv
  <2>2. Len(made) \in Nat /\ Len(changedAt) \in Nat
    BY <2>1, TimesAreNumbers
  <2> QED
    BY <2>1, <2>2, DroppedIsDefined, CountedIsTheEnd, CountedAreTheLatest
    DEF RateReached
<1> DEFINE oldest == Len(made) - Len(Counted) + 1
           last == Len(made) - MostChanges + 1
<1>2. StillCounts(Counted[1]) /\ Counted[1] = made[oldest]
  <2>1. Counted[1] = changedAt[Dropped + 1]
    BY <1>1, CountedIsTheEnd DEF RateInv
  <2>2. StillCounts(changedAt[Dropped + 1])
    BY <1>1, DroppedIsDefined DEF RateInv
  <2>3. Counted[1] = made[Len(made) - Len(Counted) + 1]
    BY <1>1, CountedAreTheLatest
  <2> QED
    BY <2>1, <2>2, <2>3
<1>3. oldest \in 1 .. Len(made) /\ last \in 1 .. Len(made) /\ oldest <= last
  BY <1>1
<1> HIDE DEF oldest, last
<1>4. made[oldest] <= made[last]
  BY <1>3 DEF RateInv, MadeInOrder
<1>5. made[oldest] \in Int /\ made[last] \in Int /\ now \in Int /\ Window \in Int
  BY <1>3, TimesAreNumbers DEF RateInv
<1>6. now - made[oldest] < Window
  BY <1>2 DEF StillCounts
<1>7. now - made[last] < Window
  BY <1>4, <1>5, <1>6
<1>8. Len(made) >= MostChanges
  BY <1>1
<1> QED
  BY <1>7, <1>8 DEF last

(***************************************************************************)
(* However its changes fall, an app never makes more of them than the      *)
(* limit allows in any window (History.countChange).                       *)
(***************************************************************************)
THEOREM TheRateIsKept == RateSpec => []NeverPastTheRate
<1>1. RateInit => RateInv
  BY RateInitGivesRateInv
<1>2. RateInv /\ [RateNext]_rateVars => RateInv'
  BY RateStepKeepsRateInv
<1>3. RateInv => NeverPastTheRate
  BY DEF RateInv
<1> QED
  BY <1>1, <1>2, <1>3, PTL DEF RateSpec

(***************************************************************************)
(* A change is turned away only when one more would be past the limit      *)
(* (History.countChange).                                                  *)
(***************************************************************************)
THEOREM RefusalsHaveACause == RateSpec => []RefusedOnlyWhenFull
<1>1. RateInit => RateInv
  BY RateInitGivesRateInv
<1>2. RateInv /\ [RateNext]_rateVars => RateInv'
  BY RateStepKeepsRateInv
<1>3. RateInv => RefusedOnlyWhenFull
  BY FullWhenReached
<1> QED
  BY <1>1, <1>2, <1>3, PTL DEF RateSpec
=============================================================================
