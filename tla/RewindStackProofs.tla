------------------------- MODULE RewindStackProofs -------------------------
(***************************************************************************)
(* What a player may rely on, for any number of snapshots: rewinding only  *)
(* ever leads back along the timeline the console is on.                   *)
(***************************************************************************)
EXTENDS RewindStack, SequenceTheorems, TLAPS

IInv == TypeOK /\ OnTimeline

(* To go on from a moment is to stay in the future of its past. *)
LEMMA PastOfAppend ==
    ASSUME NEW s \in Seq(Events), NEW t \in Seq(Events), NEW e \in Events, PastOf(s, t)
    PROVE  PastOf(s, Append(t, e))
<1>1. Len(s) \in Nat /\ Len(t) \in Nat /\ Len(Append(t, e)) = Len(t) + 1
  OBVIOUS
<1>2. \A i \in 1 .. Len(t) : Append(t, e)[i] = t[i]
  OBVIOUS
<1> QED
  BY <1>1, <1>2 DEF PastOf

LEMMA PastOfSelf ==
    ASSUME NEW s \in Seq(Events)
    PROVE  PastOf(s, s)
BY LenProperties DEF PastOf

LEMMA StackInit == ASSUME States \in Nat \ {0}, Init PROVE IInv
<1>1. PICK e \in Events : Fresh(e)
  BY DEF Init
<1>2. stack \in Seq(Seq(Events)) /\ Len(stack) = 0
  BY <1>1, EmptySeq DEF Fresh
<1>3. now \in Seq(Events)
  BY <1>1 DEF Fresh
<1> QED
  BY <1>1, <1>2, <1>3 DEF IInv, TypeOK, OnTimeline, Fresh

LEMMA StackStart == ASSUME States \in Nat \ {0}, IInv, Start PROVE IInv'
<1>1. PICK e \in Events : Fresh(e)'
  BY DEF Start
<1>2. stack' \in Seq(Seq(Events)) /\ Len(stack') = 0
  BY <1>1, EmptySeq DEF Fresh
<1>3. now' \in Seq(Events)
  BY <1>1 DEF Fresh
<1> QED
  BY <1>1, <1>2, <1>3 DEF IInv, TypeOK, OnTimeline, Fresh

LEMMA StackRun == ASSUME IInv, Run PROVE IInv'
<1>1. PICK e \in Events : now' = Append(now, e)
  BY DEF Run
<1>2. TypeOK'
  BY <1>1 DEF IInv, TypeOK, Run
<1>3. ASSUME NEW i \in 1 .. Len(stack)
      PROVE  PastOf(stack[i], now')
  <2>1. stack[i] \in Seq(Events) /\ now \in Seq(Events)
    BY ElementOfSeq DEF IInv, TypeOK
  <2> QED
    BY <1>1, <2>1, PastOfAppend DEF IInv, OnTimeline
<1>4. stack' = stack
  BY DEF Run
<1> QED
  BY <1>2, <1>3, <1>4 DEF IInv, OnTimeline

(* Both ways to save end in the present, after snapshots that were there. *)
LEMMA StackSave == ASSUME States \in Nat \ {0}, IInv, Save PROVE IInv'
<1>1. /\ stack \in Seq(Seq(Events)) /\ now \in Seq(Events) /\ now' = now
      /\ Len(stack) \in Nat /\ Len(stack) <= States /\ States \in Nat
  BY LenProperties DEF IInv, TypeOK, Save
<1>2. PICK kept \in Seq(Seq(Events)), skip \in 0 .. 1 :
          /\ stack' = Append(kept, now) /\ Len(kept) + skip = Len(stack) /\ Len(kept) < States
          /\ \A i \in 1 .. Len(kept) : kept[i] = stack[i + skip]
  <2>1. CASE Len(stack) < States /\ stack' = Append(stack, now)
    <3>1. \A i \in 1 .. Len(stack) : stack[i] = stack[i + 0]
      BY <1>1
    <3>2. Len(stack) + 0 = Len(stack) /\ 0 \in 0 .. 1
      BY <1>1
    <3> QED
      BY <1>1, <2>1, <3>1, <3>2
  <2>2. CASE stack # << >> /\ stack' = Append(Tail(stack), now)
    <3>1. /\ Tail(stack) \in Seq(Seq(Events)) /\ Len(Tail(stack)) = Len(stack) - 1
          /\ \A i \in 1 .. Len(Tail(stack)) : Tail(stack)[i] = stack[i + 1]
      BY <1>1, <2>2, HeadTailProperties
    <3>2. Len(Tail(stack)) + 1 = Len(stack) /\ Len(Tail(stack)) < States /\ 1 \in 0 .. 1
      BY <1>1, <3>1
    <3> QED
      BY <2>2, <3>1, <3>2
  <2> QED
    BY <2>1, <2>2 DEF Save
<1>3. Len(kept) \in Nat /\ Len(stack') = Len(kept) + 1
  BY <1>1, <1>2, LenProperties
<1>4. TypeOK'
  <2>1. stack' \in Seq(Seq(Events))
    BY <1>1, <1>2
  <2>2. Len(stack') <= States
    BY <1>1, <1>2, <1>3
  <2> QED
    BY <1>1, <2>1, <2>2 DEF TypeOK, Save
<1>5. \A i \in 1 .. Len(stack') : stack'[i] = IF i = Len(kept) + 1 THEN now ELSE stack[i + skip]
  BY <1>1, <1>2, <1>3
<1>6. \A i \in 1 .. Len(kept) : i + skip \in 1 .. Len(stack)
  BY <1>1, <1>2, <1>3
<1>7. ASSUME NEW i \in 1 .. Len(stack')
      PROVE  PastOf(stack'[i], now) /\ \A j \in i .. Len(stack') : PastOf(stack'[i], stack'[j])
  <2>1. CASE i = Len(kept) + 1
    <3>1. stack'[i] = now /\ \A j \in i .. Len(stack') : j = i
      BY <1>3, <1>5, <2>1
    <3> QED
      BY <1>1, <3>1, PastOfSelf
  <2>2. CASE i \in 1 .. Len(kept)
    <3>1. stack'[i] = stack[i + skip] /\ i + skip \in 1 .. Len(stack)
      BY <1>3, <1>5, <1>6, <2>2
    <3>2. PastOf(stack'[i], now)
      BY <3>1 DEF IInv, OnTimeline
    <3>3. ASSUME NEW j \in i .. Len(stack')
          PROVE  PastOf(stack'[i], stack'[j])
      <4>1. CASE j = Len(kept) + 1
        BY <1>3, <1>5, <3>2, <4>1
      <4>2. CASE j \in i .. Len(kept)
        <5>1. j \in 1 .. Len(kept) /\ j \in 1 .. Len(stack') /\ j # Len(kept) + 1
          BY <1>3, <2>2, <4>2
        <5>2. stack'[j] = stack[j + skip]
          BY <1>5, <5>1
        <5>3. j + skip \in (i + skip) .. Len(stack)
          BY <1>1, <1>2, <1>3, <2>2, <4>2
        <5> QED
          BY <3>1, <5>2, <5>3 DEF IInv, OnTimeline
      <4>3. j \in i .. Len(kept) + 1 /\ i \in Nat
        BY <1>3, <2>2
      <4>4. j = Len(kept) + 1 \/ j \in i .. Len(kept)
        BY <1>3, <4>3
      <4> QED
        BY <4>1, <4>2, <4>4
    <3> QED
      BY <3>2, <3>3
  <2> QED
    BY <1>3, <2>1, <2>2
<1> QED
  BY <1>1, <1>4, <1>7 DEF IInv, OnTimeline

(* One or two back, and the last snapshot is kept. *)
LEMMA BackInRange ==
    ASSUME NEW n \in Nat \ {0}, NEW k, k = n \/ (n # 1 /\ k = n - 1)
    PROVE  k \in 1 .. n
BY SMT

LEMMA StackRewind == ASSUME States \in Nat \ {0}, IInv, Rewind PROVE IInv'
<1> DEFINE k == IF fresh \/ Len(stack) = 1 THEN Len(stack) ELSE Len(stack) - 1
<1>1. /\ stack \in Seq(Seq(Events)) /\ Len(stack) \in Nat \ {0} /\ Len(stack) <= States
      /\ States \in Nat
  BY EmptySeq DEF IInv, TypeOK, Rewind
<1>2. k \in 1 .. Len(stack) /\ GoBack(k)
  <2>1. k = Len(stack) \/ (Len(stack) # 1 /\ k = Len(stack) - 1)
    <3>1. CASE fresh \/ Len(stack) = 1
      BY <1>1, <3>1
    <3>2. CASE ~(fresh \/ Len(stack) = 1)
      BY <3>2
    <3> QED
      BY <3>1, <3>2
  <2>2. GoBack(k)
    BY DEF Rewind
  <2> HIDE DEF k
  <2>3. k \in 1 .. Len(stack)
    BY <1>1, <2>1, BackInRange
  <2> QED
    BY <2>2, <2>3
<1> HIDE DEF k
<1>3. \A i \in 1 .. k : stack[i] \in Seq(Events)
  BY <1>1, <1>2, ElementOfSeq
<1>4. /\ stack' \in Seq(Seq(Events)) /\ Len(stack') = k
      /\ \A i \in 1 .. k : stack'[i] = stack[i]
  <2>1. 1 \in Int /\ k \in Int /\ 1 <= k
    BY <1>1, <1>2
  <2>2. /\ SubSeq(stack, 1, k) \in Seq(Seq(Events))
        /\ Len(SubSeq(stack, 1, k)) = k - 1 + 1
        /\ \A i \in 1 .. k - 1 + 1 : SubSeq(stack, 1, k)[i] = stack[1 + i - 1]
    BY <1>3, <2>1, SubSeqProperties
  <2>3. \A i \in 1 .. k : i \in 1 .. k - 1 + 1 /\ 1 + i - 1 = i
    BY <2>1
  <2>4. k - 1 + 1 = k
    BY <2>1
  <2> QED
    BY <1>2, <2>2, <2>3, <2>4 DEF GoBack
<1>5. now' = stack[k] /\ fresh' = FALSE
  BY <1>2 DEF GoBack
<1>6. TypeOK'
  <2>1. k \in 1 .. k /\ k <= States
    BY <1>1, <1>2
  <2>2. stack[k] \in Seq(Events)
    BY <1>3, <2>1
  <2> QED
    BY <1>4, <1>5, <2>1, <2>2 DEF TypeOK
<1>7. ASSUME NEW i \in 1 .. k
      PROVE  PastOf(stack[i], stack[k]) /\ \A j \in i .. k : PastOf(stack[i], stack[j])
  <2>1. i \in 1 .. Len(stack) /\ k \in i .. Len(stack) /\ \A j \in i .. k : j \in i .. Len(stack)
    BY <1>1, <1>2
  <2> QED
    BY <2>1 DEF IInv, OnTimeline
<1>8. \A i \in 1 .. k : \A j \in i .. k : stack'[j] = stack[j] /\ stack'[i] = stack[i]
  BY <1>1, <1>2, <1>4
<1> QED
  BY <1>4, <1>5, <1>6, <1>7, <1>8 DEF IInv, OnTimeline

(* Types and timeline hold in every behaviour of the stack. *)
THEOREM StackKeepsTimeline == ASSUME States \in Nat \ {0} PROVE Spec => [](TypeOK /\ OnTimeline)
<1>1. Init => IInv
  BY StackInit
<1>2. IInv /\ [Next]_vars => IInv'
  <2>1. ASSUME IInv, UNCHANGED vars PROVE IInv'
    BY <2>1 DEF IInv, TypeOK, OnTimeline, PastOf, vars
  <2> QED
    BY <2>1, StackStart, StackRun, StackSave, StackRewind DEF Next
<1> QED
  BY <1>1, <1>2, PTL DEF Spec, IInv
=============================================================================
