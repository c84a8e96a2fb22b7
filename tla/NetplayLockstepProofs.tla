----------------------- MODULE NetplayLockstepProofs -----------------------
(***************************************************************************)
(* Proofs about NetplayLockstep, for every delay, ring size, set of pads,  *)
(* transport and stray datagram: its types, that both consoles are given   *)
(* the same pads, that drifts and nothing else are reported, that a stream *)
(* never holds more than a bounded backlog, and that lateness is forgiven. *)
(***************************************************************************)
EXTENDS NetplayLockstep, SequenceTheorems, TLAPS

(* A counter that goes round Delay stays in range, and steps by one until it *)
(* starts over.                                                              *)
LEMMA ModRange ==
    ASSUME NEW n \in Nat, NEW d \in Nat \ {0}
    PROVE  n % d \in 0 .. d - 1
BY SMT

LEMMA ModStep ==
    ASSUME NEW d \in Nat \ {0}, NEW q \in 0 .. d - 1
    PROVE  (q + 1) % d = IF q + 1 = d THEN 0 ELSE q + 1
BY SMT

(* The two sides are each other's other. *)
LEMMA OtherSide ==
    ASSUME NEW s \in Sides
    PROVE  /\ Other(s) \in Sides
           /\ Other(Other(s)) = s
           /\ Other(s) # s
           /\ \A t \in Sides : t = s \/ t = Other(s)
BY DEF Sides, Other

(* A receive returns a stray, garbage, or something the peer sent. *)
LEMMA DeliverableCases ==
    ASSUME TypeOK, NEW s \in Sides, NEW p \in Deliverable(s)
    PROVE  \/ p \in Strays
           \/ p = Garbage
           \/ \E i \in 1 .. Len(sent[Other(s)]) : p = sent[Other(s)][i]
<1> DEFINE wire == sent[Other(s)]
<1>1. CASE Transport = "udp"
  BY <1>1 DEF Deliverable
<1>2. CASE Transport # "udp" /\ ~(Unread(s) < 2) /\ read[s] % 2 = 0
  <2>1. read[s] \in Nat /\ Len(wire) \in Nat
    BY OtherSide DEF TypeOK
  <2>2. 2 * Len(wire) - read[s] >= 2
    BY <1>2, <2>1 DEF Unread
  <2>3. read[s] \div 2 + 1 \in 1 .. Len(wire)
    BY <2>1, <2>2
  <2> QED
    BY <1>2, <2>3 DEF Deliverable
<1> QED
  BY <1>1, <1>2 DEF Deliverable

(* Whatever a receive can return is numbered with a frame and carries a pad  *)
(* and a checksum of the kinds the ring holds.                               *)
LEMMA DeliverableType ==
    ASSUME TypeOK, NEW s \in Sides, NEW p \in Deliverable(s)
    PROVE  p.seq \in Nat /\ p.joy \in Joys /\ p.crc \in Hashes
<1> USE ParametersAssumption DEF ParametersAssumption
<1> DEFINE wire == sent[Other(s)]
<1>1. wire \in Seq(Inputs)
  BY OtherSide DEF TypeOK
<1>2. ASSUME NEW i \in 1 .. Len(wire)
      PROVE  wire[i].seq \in Nat /\ wire[i].joy \in Joys /\ wire[i].crc \in Hashes
  <2>1. wire[i] \in Inputs
    BY <1>1
  <2> QED
    BY <2>1 DEF Inputs, Joys
<1>3. CASE p \in Strays
  BY <1>3 DEF Joys, Hashes
<1>4. CASE p = Garbage
  BY <1>4 DEF Garbage, Joys, Hashes
<1>5. CASE \E i \in 1 .. Len(wire) : p = wire[i]
  BY <1>2, <1>5
<1> QED
  BY <1>3, <1>4, <1>5, DeliverableCases

-----------------------------------------------------------------------------
(* Types. *)

LEMMA TypeInit == Init => TypeOK
<1> USE ParametersAssumption DEF ParametersAssumption
<1> SUFFICES ASSUME Init PROVE TypeOK
  OBVIOUS
<1>1. EmptySlot \in Slots
  BY DEF EmptySlot, Slots, Joys, Hashes
<1>2. ring \in [Sides -> [0 .. Ring - 1 -> Slots]]
  BY <1>1 DEF Init
<1>3. crcs \in [Sides -> [0 .. Ring - 1 -> Hashes]]
  BY DEF Init, Hashes
<1>4. sent \in [Sides -> Seq(Inputs)] /\ played \in [Sides -> Seq(Joys \X Joys)]
  BY DEF Init
<1>5. /\ pc \in [Sides -> {"emulate", "await"} \cup Gone]
      /\ desync \in [Sides -> BOOLEAN]
      /\ drift \in [Sides -> {None} \cup 0 .. MaxFrame]
  BY DEF Init
<1>6. /\ frame \in [Sides -> 0 .. MaxFrame]
      /\ qpos \in [Sides -> 0 .. Delay - 1]
      /\ qfilled \in [Sides -> 0 .. Delay]
      /\ patience \in [Sides -> 0 .. Patience]
      /\ read \in [Sides -> Nat]
      /\ hitches \in Nat
  BY DEF Init
<1>7. /\ mine \in [Sides -> Pads]
      /\ queue \in [Sides -> [0 .. Delay - 1 -> Pads]]
  BY DEF Init
<1>8. \A s \in Sides : pc[s] # "await"
  BY DEF Init
<1> QED
  BY <1>2, <1>3, <1>4, <1>5, <1>6, <1>7, <1>8 DEF TypeOK

(* A state hash is of the kind the rings hold. *)
LEMMA StateHashType ==
    ASSUME TypeOK, NEW s \in Sides
    PROVE  StateHash(s) \in Hashes
<1>1. played[s] \in Seq(Joys \X Joys)
  BY DEF TypeOK
<1>2. (IF drift[s] = None THEN "sound" ELSE s) \in {"sound"} \cup Sides
  OBVIOUS
<1> QED
  BY <1>1, <1>2 DEF StateHash, Hashes

LEMMA TypeBegin ==
    ASSUME TypeOK, NEW s \in Sides, NEW raw \in Pads, NEW ok \in BOOLEAN,
           Begin(s, raw, ok)
    PROVE  TypeOK'
<1> USE ParametersAssumption DEF ParametersAssumption
<1> DEFINE packet == [session |-> Token, seq |-> frame[s] + Delay, joy |-> raw,
                      crc |-> StateHash(s)]
<1>1. mine' \in [Sides -> Pads]
  <2>1. /\ mine \in [Sides -> Pads]
        /\ queue[s][qpos[s]] \in Pads
    BY DEF TypeOK
  <2>2. mine' = [mine EXCEPT ![s] =
                    IF qfilled[s] < Delay THEN Neutral ELSE queue[s][qpos[s]]]
    BY DEF Begin
  <2> QED
    BY <2>1, <2>2
<1>2. queue' \in [Sides -> [0 .. Delay - 1 -> Pads]]
  <2>1. queue \in [Sides -> [0 .. Delay - 1 -> Pads]] /\ qpos[s] \in 0 .. Delay - 1
    BY DEF TypeOK
  <2>2. queue' = [queue EXCEPT ![s][qpos[s]] = raw]
    BY DEF Begin
  <2> QED
    BY <2>1, <2>2
<1>3. qfilled' \in [Sides -> 0 .. Delay]
  <2>1. qfilled \in [Sides -> 0 .. Delay]
    BY DEF TypeOK
  <2>2. qfilled' = [qfilled EXCEPT ![s] = IF @ < Delay THEN @ + 1 ELSE @]
    BY DEF Begin
  <2> QED
    BY <2>1, <2>2
<1>4. qpos' \in [Sides -> 0 .. Delay - 1]
  <2>1. qpos \in [Sides -> 0 .. Delay - 1]
    BY DEF TypeOK
  <2>2. (qpos[s] + 1) % Delay \in 0 .. Delay - 1
    BY <2>1, ModRange
  <2>3. qpos' = [qpos EXCEPT ![s] = (@ + 1) % Delay]
    BY DEF Begin
  <2> QED
    BY <2>1, <2>2, <2>3
<1>5. crcs' \in [Sides -> [0 .. Ring - 1 -> Hashes]]
  <2>1. crcs \in [Sides -> [0 .. Ring - 1 -> Hashes]]
    BY DEF TypeOK
  <2>2. crcs' = [crcs EXCEPT ![s][frame[s] % Ring] = StateHash(s)]
    BY DEF Begin
  <2> QED
    BY <2>1, <2>2, StateHashType
<1>6. sent' \in [Sides -> Seq(Inputs)]
  <2>1. packet \in Inputs
    <3>1. frame[s] \in 0 .. MaxFrame
      BY DEF TypeOK
    <3> QED
      BY <3>1, StateHashType DEF Inputs
  <2>2. sent \in [Sides -> Seq(Inputs)]
    BY DEF TypeOK
  <2>3. sent' = [sent EXCEPT ![s] = Append(@, packet)] \/ sent' = sent
    BY DEF Begin
  <2>4. Append(sent[s], packet) \in Seq(Inputs)
    <3> HIDE DEF packet
    <3> QED
      BY <2>1, <2>2
  <2> HIDE DEF packet
  <2> QED
    BY <2>2, <2>3, <2>4
<1>7. /\ pc' \in [Sides -> {"emulate", "await"} \cup Gone]
      /\ patience' \in [Sides -> 0 .. Patience]
      /\ \A t \in Sides : pc'[t] = "await" => patience'[t] > 0 /\ frame'[t] < MaxFrame
  <2>1. /\ pc \in [Sides -> {"emulate", "await"} \cup Gone]
        /\ patience \in [Sides -> 0 .. Patience]
        /\ frame \in [Sides -> 0 .. MaxFrame]
        /\ \A t \in Sides : pc[t] = "await" => patience[t] > 0 /\ frame[t] < MaxFrame
    BY DEF TypeOK
  <2>2. /\ frame[s] < MaxFrame
        /\ patience' = [patience EXCEPT ![s] = Patience]
        /\ pc' = [pc EXCEPT ![s] = "await"] \/ pc' = [pc EXCEPT ![s] = "left"]
        /\ frame' = frame
    BY DEF Begin
  <2> QED
    BY <2>1, <2>2 DEF Gone
<1>8. /\ frame' \in [Sides -> 0 .. MaxFrame]
      /\ ring' \in [Sides -> [0 .. Ring - 1 -> Slots]]
      /\ desync' \in [Sides -> BOOLEAN]
      /\ read' \in [Sides -> Nat]
      /\ hitches' \in Nat
      /\ drift' \in [Sides -> {None} \cup 0 .. MaxFrame]
      /\ played' \in [Sides -> Seq(Joys \X Joys)]
  BY DEF TypeOK, Begin
<1> QED
  BY <1>1, <1>2, <1>3, <1>4, <1>5, <1>6, <1>7, <1>8 DEF TypeOK

LEMMA TypeReceive ==
    ASSUME TypeOK, NEW s \in Sides, NEW p \in Deliverable(s), Receive(s, p)
    PROVE  TypeOK'
<1> USE ParametersAssumption DEF ParametersAssumption
<1>1. p.seq % Ring \in 0 .. Ring - 1
  BY DeliverableType, ModRange
<1>2. [valid |-> TRUE, frame |-> p.seq, joy |-> p.joy, crc |-> p.crc] \in Slots
  BY DeliverableType DEF Slots
<1>3. ring' \in [Sides -> [0 .. Ring - 1 -> Slots]]
  BY <1>1, <1>2 DEF TypeOK, Receive
<1>4. read' \in [Sides -> Nat]
  BY SMTT(30) DEF TypeOK, Receive
<1> QED
  BY <1>3, <1>4 DEF TypeOK, Receive, localVars

LEMMA TypeTimeout ==
    ASSUME TypeOK, NEW s \in Sides, NEW torn \in BOOLEAN, Timeout(s, torn)
    PROVE  TypeOK'
<1>1. pc[s] = "await" /\ patience[s] \in 1 .. Patience
  BY ParametersAssumption DEF ParametersAssumption, TypeOK, Timeout, Waiting
<1>2. /\ pc' \in [Sides -> {"emulate", "await"} \cup Gone]
      /\ patience' \in [Sides -> 0 .. Patience]
      /\ \A t \in Sides : pc'[t] = "await" => patience'[t] > 0 /\ frame'[t] < MaxFrame
  <2>1. /\ pc \in [Sides -> {"emulate", "await"} \cup Gone]
        /\ patience \in [Sides -> 0 .. Patience]
        /\ frame \in [Sides -> 0 .. MaxFrame]
        /\ \A t \in Sides : pc[t] = "await" => patience[t] > 0 /\ frame[t] < MaxFrame
    BY DEF TypeOK
  <2>2. /\ frame' = frame
        /\ patience' = [patience EXCEPT ![s] = @ - 1]
        /\ pc' = IF patience[s] = 1 THEN [pc EXCEPT ![s] = "lost"] ELSE pc
    BY DEF Timeout, LastChance
  <2> USE ParametersAssumption DEF ParametersAssumption
  <2> QED
    BY <1>1, <2>1, <2>2 DEF Gone
<1>3. read' \in [Sides -> Nat] /\ hitches' \in Nat
  BY DEF TypeOK, Timeout
<1> QED
  BY <1>2, <1>3 DEF TypeOK, Timeout, localVars

LEMMA TypePlay ==
    ASSUME TypeOK, NEW s \in Sides, Play(s)
    PROVE  TypeOK'
<1> USE ParametersAssumption DEF ParametersAssumption
<1> DEFINE slot == frame[s] % Ring
           theirs == IF WarmUp(s) THEN Neutral ELSE ring[s][slot].joy
<1>1. slot \in 0 .. Ring - 1
  <2>1. frame[s] \in Nat
    BY DEF TypeOK
  <2> QED
    BY <2>1, ModRange
<1>2. theirs \in Joys /\ mine[s] \in Joys
  <2>1. ring[s][slot] \in Slots
    BY <1>1, SMTT(30) DEF TypeOK
  <2> QED
    BY <2>1 DEF TypeOK, Slots, Joys
<1>3. played' \in [Sides -> Seq(Joys \X Joys)]
  <2>1. played' = [played EXCEPT ![s] = Append(@,
                      IF s = "host" THEN <<mine[s], theirs>> ELSE <<theirs, mine[s]>>)]
    BY DEF Play
  <2>2. (IF s = "host" THEN <<mine[s], theirs>> ELSE <<theirs, mine[s]>>) \in Joys \X Joys
    BY <1>2
  <2>3. played \in [Sides -> Seq(Joys \X Joys)]
    BY DEF TypeOK
  <2> QED
    BY <2>1, <2>2, <2>3
<1>4. ring' \in [Sides -> [0 .. Ring - 1 -> Slots]]
  <2>1. CASE ring' = ring
    BY <2>1 DEF TypeOK
  <2>2. CASE ring' = [ring EXCEPT ![s][slot].valid = FALSE]
    <3>1. ring \in [Sides -> [0 .. Ring - 1 -> Slots]]
      BY DEF TypeOK
    <3>2. [ring[s][slot] EXCEPT !.valid = FALSE] \in Slots
      <4>1. ring[s][slot] \in Slots
        BY <1>1, <3>1
      <4> HIDE DEF slot
      <4> QED
        BY <4>1 DEF Slots
    <3>3. ring' = [ring EXCEPT ![s] =
                      [@ EXCEPT ![slot] = [ring[s][slot] EXCEPT !.valid = FALSE]]]
      BY <2>2
    <3> HIDE DEF slot
    <3> QED
      BY <1>1, <3>1, <3>2, <3>3
  <2> QED
    BY <2>1, <2>2 DEF Play
<1>5. /\ pc' \in [Sides -> {"emulate", "await"} \cup Gone]
      /\ frame' \in [Sides -> 0 .. MaxFrame]
      /\ \A t \in Sides : pc'[t] = "await" => patience'[t] > 0 /\ frame'[t] < MaxFrame
  <2>1. /\ pc \in [Sides -> {"emulate", "await"} \cup Gone]
        /\ patience \in [Sides -> 0 .. Patience]
        /\ frame \in [Sides -> 0 .. MaxFrame]
        /\ \A t \in Sides : pc[t] = "await" => patience[t] > 0 /\ frame[t] < MaxFrame
    BY DEF TypeOK
  <2>2. /\ pc[s] = "await"
        /\ pc' = [pc EXCEPT ![s] = "emulate"]
        /\ frame' = [frame EXCEPT ![s] = @ + 1]
        /\ patience' = patience
    BY DEF Play
  <2> QED
    BY <2>1, <2>2
<1>6. desync' \in [Sides -> BOOLEAN]
  <2>1. ChecksumsDiffer(s) \in BOOLEAN
    BY DEF ChecksumsDiffer
  <2>2. (desync[s] \/ ChecksumsDiffer(s)) \in BOOLEAN
    BY <2>1
  <2> QED
    BY <2>2 DEF TypeOK, Play
<1> QED
  BY <1>3, <1>4, <1>5, <1>6 DEF TypeOK, Play, localVars

LEMMA TypeLeave ==
    ASSUME TypeOK, NEW s \in Sides, Disconnect(s) \/ Drift(s)
    PROVE  TypeOK'
<1>1. CASE Disconnect(s)
  BY <1>1 DEF TypeOK, Gone, Disconnect, localVars
<1>2. CASE Drift(s)
  <2>1. drift' \in [Sides -> {None} \cup 0 .. MaxFrame]
    BY <1>2 DEF TypeOK, Drift
  <2> QED
    BY <1>2, <2>1 DEF TypeOK, Drift, localVars
<1> QED
  BY <1>1, <1>2

LEMMA TypeStutter == TypeOK /\ UNCHANGED vars => TypeOK'
BY DEF TypeOK, vars, localVars

(* The state always has its types: no ring index, queue index or frame       *)
(* number leaves its range, and no one waits with its patience spent.        *)
THEOREM TypeCorrect == Spec => []TypeOK
<1>1. TypeOK /\ [Next]_vars => TypeOK'
  <2> SUFFICES ASSUME TypeOK, [Next]_vars
               PROVE  TypeOK'
    OBVIOUS
  <2>1. ASSUME NEW s \in Sides, NEW raw \in Pads, NEW ok \in BOOLEAN, Begin(s, raw, ok)
        PROVE  TypeOK'
    BY <2>1, TypeBegin
  <2>2. ASSUME NEW s \in Sides, NEW p \in Deliverable(s), Receive(s, p)
        PROVE  TypeOK'
    BY <2>2, TypeReceive
  <2>3. ASSUME NEW s \in Sides, NEW torn \in BOOLEAN, Timeout(s, torn)
        PROVE  TypeOK'
    BY <2>3, TypeTimeout
  <2>4. ASSUME NEW s \in Sides, Play(s)
        PROVE  TypeOK'
    BY <2>4, TypePlay
  <2>5. ASSUME NEW s \in Sides, Disconnect(s) \/ Drift(s)
        PROVE  TypeOK'
    BY <2>5, TypeLeave
  <2>6. CASE Over \/ UNCHANGED vars
    BY <2>6, TypeStutter DEF Over
  <2> QED
    BY <2>1, <2>2, <2>3, <2>4, <2>5, <2>6 DEF Next
<1> QED
  BY <1>1, TypeInit, PTL DEF Spec

-----------------------------------------------------------------------------
(* The inductive invariant behind Agreement. *)

(* Stepping the queue position by one moves every pad one place back, and    *)
(* the place Delay back is the one about to be overwritten.                  *)
LEMMA BackStep ==
    ASSUME NEW q \in 0 .. Delay - 1, NEW next, next = (q + 1) % Delay,
           NEW k \in 1 .. Delay
    PROVE  /\ k = 1 => Back(next, k) = q
           /\ k # 1 => /\ Back(next, k) = Back(q, k - 1)
                       /\ Back(q, k - 1) \in 0 .. Delay - 1
                       /\ Back(q, k - 1) # q
<1> USE ParametersAssumption DEF ParametersAssumption
<1>1. next = IF q + 1 = Delay THEN 0 ELSE q + 1
  BY ModStep
<1> QED
  BY <1>1 DEF Back

LEMMA BackAround ==
    ASSUME NEW q \in 0 .. Delay - 1
    PROVE  Back(q, Delay) = q
BY ParametersAssumption DEF ParametersAssumption, Back

(* What a side has sent for a frame does not change as it sends more. *)
LEMMA DueStable ==
    ASSUME TypeOK, NEW t \in Sides, NEW f \in Nat,
           f >= Delay => f - Delay + 1 <= Len(sent[t]),
           \/ sent'[t] = sent[t]
           \/ \E m \in Inputs : sent'[t] = Append(sent[t], m)
    PROVE  /\ Due(t, f)' = Due(t, f)
           /\ f >= Delay => f - Delay + 1 <= Len(sent'[t])
<1> USE ParametersAssumption DEF ParametersAssumption
<1>1. sent[t] \in Seq(Inputs)
  BY DEF TypeOK
<1>2. CASE sent'[t] = sent[t]
  BY <1>2 DEF Due
<1>3. ASSUME NEW m \in Inputs, sent'[t] = Append(sent[t], m)
      PROVE  /\ Due(t, f)' = Due(t, f)
             /\ f >= Delay => f - Delay + 1 <= Len(sent'[t])
  <2>1. CASE f < Delay
    BY <2>1 DEF Due
  <2>2. CASE f >= Delay
    <3>1. f - Delay + 1 \in 1 .. Len(sent[t])
      BY <1>1, <2>2
    <3>2. sent'[t][f - Delay + 1] = sent[t][f - Delay + 1] /\ Len(sent'[t]) = Len(sent[t]) + 1
      BY <1>1, <1>3, <3>1
    <3> QED
      BY <2>2, <3>1, <3>2 DEF Due
  <2> QED
    BY <2>1, <2>2
<1> QED
  BY <1>2, <1>3

(* A packet of this session on a frame that waits for one is the peer's. *)
LEMMA DeliveredAsSent ==
    ASSUME IInv, NEW s \in Sides, NEW p \in Deliverable(s),
           p.session = Token, p.seq >= Delay
    PROVE  /\ p.seq - Delay + 1 <= Len(sent[Other(s)])
           /\ p.joy = Due(Other(s), p.seq)
<1> USE ParametersAssumption DEF ParametersAssumption
<1> DEFINE wire == sent[Other(s)]
<1>1. wire \in Seq(Inputs) /\ Other(s) \in Sides
  BY OtherSide DEF IInv, TypeOK
<1>2. p \notin Strays
  OBVIOUS
<1>3. p # Garbage
  BY DEF Garbage
<1>4. PICK i \in 1 .. Len(wire) : p = wire[i]
  BY <1>2, <1>3, DeliverableCases DEF IInv
<1>5. p.seq = Delay + i - 1
  BY <1>1, <1>4 DEF IInv, SentInOrder
<1>6. p.seq - Delay + 1 = i /\ i <= Len(wire)
  BY <1>1, <1>5
<1>7. ~(p.seq < Delay)
  BY <1>1, <1>5
<1>8. Due(Other(s), p.seq) = wire[i].joy
  BY <1>6, <1>7 DEF Due
<1> QED
  BY <1>4, <1>6, <1>8

(* The parts of IInv about a side that neither samples nor plays. *)
LEMMA Untouched ==
    ASSUME IInv, NEW t \in Sides,
           sent' = sent, frame'[t] = frame[t], pc'[t] \in {pc[t]} \cup Gone,
           queue'[t] = queue[t], qpos'[t] = qpos[t], qfilled'[t] = qfilled[t],
           mine'[t] = mine[t], played'[t] = played[t]
    PROVE  /\ SentInOrder(t)'
           /\ QueueHoldsLastSent(t)'
           /\ MineIsDue(t)'
           /\ PlayedAsSent(t)'
<1>1. SentInOrder(t)'
  BY DEF IInv, Gone, SentInOrder
<1>2. QueueHoldsLastSent(t)'
  BY DEF IInv, QueueHoldsLastSent
<1>3. MineIsDue(t)'
  BY DEF IInv, Gone, MineIsDue, Due
<1>4. PlayedAsSent(t)'
  BY DEF IInv, PlayedAsSent, Due
<1> QED
  BY <1>1, <1>2, <1>3, <1>4

(* What is filed stays as sent when neither the ring nor the wire changes. *)
LEMMA FiledUntouched ==
    ASSUME IInv, NEW t \in Sides, ring'[t] = ring[t], sent' = sent
    PROVE  FiledAsSent(t)'
BY DEF IInv, FiledAsSent, Due

LEMMA InvInit == Init => IInv
<1> USE ParametersAssumption DEF ParametersAssumption
<1> SUFFICES ASSUME Init, NEW s \in Sides
             PROVE  /\ SentInOrder(s)
                    /\ QueueHoldsLastSent(s)
                    /\ MineIsDue(s)
                    /\ FiledAsSent(s)
                    /\ PlayedAsSent(s)
  BY TypeInit DEF IInv
<1>1. /\ pc[s] = "emulate" /\ frame[s] = 0 /\ qfilled[s] = 0
      /\ sent[s] = << >> /\ played[s] = << >>
      /\ ring[s] = [i \in 0 .. Ring - 1 |-> EmptySlot]
  BY DEF Init
<1>2. SentInOrder(s) /\ QueueHoldsLastSent(s) /\ MineIsDue(s) /\ PlayedAsSent(s)
  BY <1>1 DEF SentInOrder, QueueHoldsLastSent, MineIsDue, PlayedAsSent
<1>3. FiledAsSent(s)
  BY <1>1 DEF FiledAsSent, EmptySlot
<1> QED
  BY <1>2, <1>3

LEMMA InvBegin ==
    ASSUME IInv, NEW s \in Sides, NEW raw \in Pads, NEW ok \in BOOLEAN,
           Begin(s, raw, ok)
    PROVE  IInv'
<1> USE ParametersAssumption DEF ParametersAssumption
<1> DEFINE n == Len(sent[s])
           packet == [session |-> Token, seq |-> frame[s] + Delay, joy |-> raw,
                      crc |-> StateHash(s)]
<1>1. TypeOK /\ TypeOK'
  BY TypeBegin DEF IInv
<1>2. /\ sent \in [Sides -> Seq(Inputs)] /\ frame \in [Sides -> 0 .. MaxFrame]
      /\ pc \in [Sides -> {"emulate", "await"} \cup Gone]
      /\ queue \in [Sides -> [0 .. Delay - 1 -> Pads]]
      /\ qpos \in [Sides -> 0 .. Delay - 1]
      /\ qfilled \in [Sides -> 0 .. Delay] /\ mine \in [Sides -> Pads]
  BY <1>1 DEF TypeOK
<1>3. pc[s] = "emulate" /\ n = frame[s] /\ n \in Nat
  BY <1>2 DEF IInv, SentInOrder, Begin
<1>4. packet \in Inputs
  <2>1. StateHash(s) \in Hashes
    BY <1>1, StateHashType
  <2> QED
    BY <1>2, <2>1 DEF Inputs
<1>5. /\ frame' = frame /\ played' = played /\ ring' = ring
      /\ queue' = [queue EXCEPT ![s][qpos[s]] = raw]
      /\ qpos' = [qpos EXCEPT ![s] = (@ + 1) % Delay]
      /\ qfilled' = [qfilled EXCEPT ![s] = IF @ < Delay THEN @ + 1 ELSE @]
      /\ mine' = [mine EXCEPT ![s] =
                    IF qfilled[s] < Delay THEN Neutral ELSE queue[s][qpos[s]]]
  BY DEF Begin
<1>6. \/ sent' = sent /\ pc' = [pc EXCEPT ![s] = "left"]
      \/ sent' = [sent EXCEPT ![s] = Append(@, packet)] /\ pc' = [pc EXCEPT ![s] = "await"]
  BY DEF Begin
<1> HIDE DEF packet
<1>7. \A t \in Sides : \/ sent'[t] = sent[t]
                       \/ \E m \in Inputs : sent'[t] = Append(sent[t], m)
  BY <1>2, <1>4, <1>6
<1>8. ASSUME NEW t \in Sides
      PROVE  FiledAsSent(t)'
  <2> SUFFICES ASSUME NEW i \in 0 .. Ring - 1, ring[t][i].valid, ring[t][i].frame >= Delay,
                      NEW f \in Nat, f = ring[t][i].frame
               PROVE  /\ f - Delay + 1 <= Len(sent'[Other(t)])
                      /\ ring[t][i].joy = Due(Other(t), f)'
    <3>1. \A i \in 0 .. Ring - 1 : ring[t][i].frame \in Nat
      <4>1. ring \in [Sides -> [0 .. Ring - 1 -> Slots]]
        BY <1>1 DEF TypeOK
      <4> QED
        BY <4>1 DEF Slots
    <3> QED
      BY <1>5, <3>1 DEF FiledAsSent, Due
  <2>1. /\ f - Delay + 1 <= Len(sent[Other(t)])
        /\ ring[t][i].joy = Due(Other(t), f)
    BY DEF IInv, FiledAsSent
  <2>2. /\ Due(Other(t), f)' = Due(Other(t), f)
        /\ f - Delay + 1 <= Len(sent'[Other(t)])
    <3>1. Other(t) \in Sides
      BY OtherSide
    <3> QED
      BY <1>1, <1>7, <2>1, <3>1, DueStable
  <2> QED
    BY <2>1, <2>2
<1>9. ASSUME NEW t \in Sides
      PROVE  PlayedAsSent(t)'
  <2>1. frame[t] \in Nat
    BY <1>2
  <2> SUFFICES ASSUME NEW f \in 0 .. frame[t] - 1
               PROVE  /\ f >= Delay => f - Delay + 1 <= Len(sent'[Other(t)])
                      /\ played[t][f + 1] = <<Due("host", f), Due("guest", f)>>'
    BY <1>5 DEF PlayedAsSent, IInv
  <2>2. /\ f \in Nat
        /\ f >= Delay => f - Delay + 1 <= Len(sent[Other(t)])
        /\ played[t][f + 1] = <<Due("host", f), Due("guest", f)>>
    BY <2>1 DEF IInv, PlayedAsSent
  <2>3. f >= Delay => f - Delay + 1 <= Len(sent[t])
    <3>1. Len(sent[t]) >= frame[t] /\ Len(sent[t]) \in Nat
      BY <1>2 DEF IInv, SentInOrder
    <3> QED
      BY <2>1, <3>1
  <2>4. /\ Due(t, f)' = Due(t, f)
        /\ Due(Other(t), f)' = Due(Other(t), f)
        /\ f >= Delay => f - Delay + 1 <= Len(sent'[Other(t)])
    <3>1. Due(t, f)' = Due(t, f)
      BY <1>1, <1>7, <2>2, <2>3, DueStable
    <3>2. Other(t) \in Sides
      BY OtherSide
    <3>3. /\ Due(Other(t), f)' = Due(Other(t), f)
          /\ f >= Delay => f - Delay + 1 <= Len(sent'[Other(t)])
      BY <1>1, <1>7, <2>2, <3>2, DueStable
    <3> QED
      BY <3>1, <3>3
  <2>5. <<Due("host", f), Due("guest", f)>>' = <<Due("host", f), Due("guest", f)>>
    BY <2>4, OtherSide DEF Sides, Other
  <2> QED
    BY <1>5, <2>2, <2>4, <2>5
<1>10. ASSUME NEW t \in Sides, t # s
       PROVE  SentInOrder(t)' /\ QueueHoldsLastSent(t)' /\ MineIsDue(t)'
  <2>1. /\ sent'[t] = sent[t] /\ pc'[t] = pc[t] /\ frame'[t] = frame[t]
        /\ queue'[t] = queue[t] /\ qpos'[t] = qpos[t] /\ qfilled'[t] = qfilled[t]
        /\ mine'[t] = mine[t]
    BY <1>2, <1>5, <1>6, <1>10
  <2>2. SentInOrder(t)'
    BY <2>1 DEF IInv, SentInOrder
  <2>3. QueueHoldsLastSent(t)'
    BY <2>1 DEF IInv, QueueHoldsLastSent
  <2>4. MineIsDue(t)'
    BY <2>1 DEF IInv, MineIsDue, Due
  <2> QED
    BY <2>2, <2>3, <2>4
<1>11. CASE sent' = sent /\ pc' = [pc EXCEPT ![s] = "left"]
  <2>1. pc'[s] = "left" /\ sent'[s] = sent[s] /\ frame'[s] = frame[s]
    BY <1>2, <1>5, <1>11
  <2>2. SentInOrder(s)' /\ QueueHoldsLastSent(s)' /\ MineIsDue(s)'
    BY <2>1 DEF IInv, Gone, SentInOrder, QueueHoldsLastSent, MineIsDue
  <2> QED
    BY <1>1, <1>8, <1>9, <1>10, <2>2 DEF IInv
<1>12. CASE /\ sent' = [sent EXCEPT ![s] = Append(@, packet)]
            /\ pc' = [pc EXCEPT ![s] = "await"]
  <2>1. /\ pc'[s] = "await" /\ frame'[s] = frame[s]
        /\ sent'[s] = Append(sent[s], packet)
        /\ sent'[s] \in Seq(Inputs)
    BY <1>2, <1>4, <1>5, <1>12
  <2>2. /\ Len(sent'[s]) = n + 1
        /\ sent'[s][n + 1] = packet
        /\ \A i \in 1 .. n : sent'[s][i] = sent[s][i]
    BY <1>2, <1>3, <1>4, <2>1
  <2>3. packet.seq = Delay + n /\ packet.joy = raw
    BY <1>3 DEF packet
  <2>4. SentInOrder(s)'
    <3>1. \A i \in 1 .. n : sent[s][i].seq = Delay + i - 1
      BY DEF IInv, SentInOrder
    <3>2. ASSUME NEW i \in 1 .. n + 1
          PROVE  sent'[s][i].seq = Delay + i - 1
      <4>1. CASE i = n + 1
        BY <1>3, <2>2, <2>3, <4>1
      <4>2. CASE i \in 1 .. n
        BY <2>2, <3>1, <4>2
      <4> QED
        BY <1>3, <4>1, <4>2
    <3> HIDE DEF n
    <3>3. Len(sent'[s]) = frame'[s] + 1 /\ Len(sent'[s]) >= frame'[s]
      BY <1>3, <2>1, <2>2
    <3> QED
      BY <2>1, <2>2, <3>2, <3>3 DEF SentInOrder
  <2>5. /\ qfilled[s] = IF n < Delay THEN n ELSE Delay
        /\ \A k \in 1 .. Delay : k <= n =>
              queue[s][Back(qpos[s], k)] = sent[s][n - k + 1].joy
    BY <1>3 DEF IInv, Gone, QueueHoldsLastSent
  <2>6. QueueHoldsLastSent(s)'
    <3>1. qfilled'[s] = IF n + 1 < Delay THEN n + 1 ELSE Delay
      BY <1>2, <1>3, <1>5, <2>5
    <3>2. ASSUME NEW k \in 1 .. Delay, k <= n + 1
          PROVE  queue'[s][Back(qpos'[s], k)] = sent'[s][n + 1 - k + 1].joy
      <4>1. qpos[s] \in 0 .. Delay - 1 /\ qpos'[s] = (qpos[s] + 1) % Delay
        BY <1>2, <1>5
      <4>2. CASE k = 1
        <5>1. Back(qpos'[s], k) = qpos[s]
          BY <4>1, <4>2, BackStep
        <5>2. queue'[s][qpos[s]] = raw
          BY <1>2, <1>5
        <5>3. n + 1 - k + 1 = n + 1
          BY <1>3, <4>2
        <5> HIDE DEF n
        <5> QED
          BY <2>2, <2>3, <5>1, <5>2, <5>3
      <4>3. CASE k # 1
        <5>1. /\ Back(qpos'[s], k) = Back(qpos[s], k - 1)
              /\ Back(qpos[s], k - 1) \in 0 .. Delay - 1
              /\ Back(qpos[s], k - 1) # qpos[s]
          <6> DEFINE q == qpos[s]
                     next == qpos'[s]
          <6>1. q \in 0 .. Delay - 1 /\ next = (q + 1) % Delay
            BY <4>1
          <6> HIDE DEF q, next
          <6>2. /\ Back(next, k) = Back(q, k - 1)
                /\ Back(q, k - 1) \in 0 .. Delay - 1
                /\ Back(q, k - 1) # q
            BY <4>3, <6>1, BackStep
          <6> QED
            BY <6>2 DEF q, next
        <5>2. queue'[s][Back(qpos[s], k - 1)] = queue[s][Back(qpos[s], k - 1)]
          BY <1>2, <1>5, <5>1
        <5>3. k - 1 \in 1 .. Delay /\ k - 1 <= n /\ n - (k - 1) + 1 \in 1 .. n
          BY <1>3, <3>2, <4>3
        <5>4. queue[s][Back(qpos[s], k - 1)] = sent[s][n - (k - 1) + 1].joy
          BY <2>5, <5>3
        <5>5. n + 1 - k + 1 = n - (k - 1) + 1
          BY <1>3
        <5> QED
          BY <2>2, <5>1, <5>2, <5>3, <5>4, <5>5
      <4> QED
        BY <4>2, <4>3
    <3>3. n + 1 = Len(sent'[s])
      BY <2>2
    <3>4. /\ qfilled'[s] = IF Len(sent'[s]) < Delay THEN Len(sent'[s]) ELSE Delay
          /\ \A k \in 1 .. Delay : k <= Len(sent'[s]) =>
                queue'[s][Back(qpos'[s], k)] = sent'[s][Len(sent'[s]) - k + 1].joy
      <4>1. ASSUME NEW k \in 1 .. Delay, k <= Len(sent'[s])
            PROVE  queue'[s][Back(qpos'[s], k)] = sent'[s][Len(sent'[s]) - k + 1].joy
        <5>1. queue'[s][Back(qpos'[s], k)] = sent'[s][n + 1 - k + 1].joy
          BY <3>2, <3>3, <4>1
        <5> QED
          BY <3>3, <5>1
      <4>2. qfilled'[s] = IF Len(sent'[s]) < Delay THEN Len(sent'[s]) ELSE Delay
        BY <3>1, <3>3
      <4> QED
        BY <4>1, <4>2
    <3> QED
      BY <3>4 DEF QueueHoldsLastSent
  <2>7. MineIsDue(s)'
    <3>1. mine'[s] = IF qfilled[s] < Delay THEN Neutral ELSE queue[s][qpos[s]]
      BY <1>2, <1>5
    <3>2. CASE n < Delay
      <4>1. mine'[s] = Neutral
        BY <1>3, <2>5, <3>1, <3>2
      <4>2. frame'[s] < Delay
        BY <1>3, <2>1, <3>2
      <4> QED
        BY <4>1, <4>2 DEF MineIsDue, Due
    <3>3. CASE n >= Delay
      <4>1. mine'[s] = queue[s][qpos[s]]
        BY <2>5, <3>1, <3>3
      <4>2. queue[s][qpos[s]] = sent[s][n - Delay + 1].joy
        <5>1. Back(qpos[s], Delay) = qpos[s]
          BY <1>2, BackAround
        <5>2. Delay \in 1 .. Delay /\ Delay <= n
          BY <3>3
        <5>3. queue[s][Back(qpos[s], Delay)] = sent[s][n - Delay + 1].joy
          BY <2>5, <5>2
        <5> QED
          BY <5>1, <5>3
      <4>3. n - Delay + 1 \in 1 .. n
        BY <1>3, <3>3
      <4> QED
        BY <1>3, <2>1, <2>2, <3>3, <4>1, <4>2, <4>3 DEF MineIsDue, Due
    <3> QED
      BY <1>3, <3>2, <3>3
  <2> QED
    BY <1>1, <1>8, <1>9, <1>10, <2>4, <2>6, <2>7 DEF IInv
<1> QED
  BY <1>6, <1>11, <1>12

LEMMA InvReceive ==
    ASSUME IInv, NEW s \in Sides, NEW p \in Deliverable(s), Receive(s, p)
    PROVE  IInv'
<1> USE ParametersAssumption DEF ParametersAssumption
<1> DEFINE slot == p.seq % Ring
           filed == [valid |-> TRUE, frame |-> p.seq, joy |-> p.joy, crc |-> p.crc]
<1>1. TypeOK /\ TypeOK'
  BY TypeReceive DEF IInv
<1>2. /\ sent' = sent /\ frame' = frame /\ pc' = pc /\ queue' = queue /\ qpos' = qpos
      /\ qfilled' = qfilled /\ mine' = mine /\ played' = played
  BY DEF Receive, localVars
<1>3. ASSUME NEW t \in Sides
      PROVE  FiledAsSent(t)'
  <2>1. ring \in [Sides -> [0 .. Ring - 1 -> Slots]]
    BY <1>1 DEF TypeOK
  <2>2. CASE ring' = ring \/ t # s
    <3>1. ring'[t] = ring[t]
      BY <2>1, <2>2 DEF Receive
    <3> QED
      BY <1>2, <3>1, FiledUntouched
  <2>3. CASE ring' # ring /\ t = s
    <3>1. p.session = Token /\ ring' = [ring EXCEPT ![s][slot] = filed]
      BY <2>3 DEF Receive
    <3>2. slot \in 0 .. Ring - 1
      BY <1>1, DeliverableType, ModRange
    <3> HIDE DEF slot, filed
    <3> SUFFICES ASSUME NEW i \in 0 .. Ring - 1, ring'[s][i].valid, ring'[s][i].frame >= Delay
                 PROVE  /\ ring'[s][i].frame - Delay + 1 <= Len(sent[Other(s)])
                        /\ ring'[s][i].joy = Due(Other(s), ring'[s][i].frame)
      BY <1>2, <2>3 DEF FiledAsSent, Due
    <3>3. CASE i = slot
      <4>1. ring'[s][i] = filed
        BY <2>1, <3>1, <3>2, <3>3
      <4>2. ring'[s][i].frame = p.seq /\ ring'[s][i].joy = p.joy
        BY <4>1 DEF filed
      <4> QED
        BY <3>1, <4>2, DeliveredAsSent
    <3>4. CASE i # slot
      <4>1. ring'[s][i] = ring[s][i]
        BY <2>1, <3>1, <3>2, <3>4
      <4> QED
        BY <4>1 DEF IInv, FiledAsSent
    <3> QED
      BY <3>3, <3>4
  <2> QED
    BY <2>2, <2>3
<1>4. ASSUME NEW t \in Sides
      PROVE  SentInOrder(t)' /\ QueueHoldsLastSent(t)' /\ MineIsDue(t)' /\ PlayedAsSent(t)'
  BY <1>2, Untouched
<1> QED
  BY <1>1, <1>3, <1>4 DEF IInv

LEMMA InvTimeout ==
    ASSUME IInv, NEW s \in Sides, NEW torn \in BOOLEAN, Timeout(s, torn)
    PROVE  IInv'
<1>1. TypeOK /\ TypeOK'
  BY TypeTimeout DEF IInv
<1>2. /\ sent' = sent /\ frame' = frame /\ ring' = ring /\ queue' = queue /\ qpos' = qpos
      /\ qfilled' = qfilled /\ mine' = mine /\ played' = played
  BY DEF Timeout, localVars
<1>3. \A t \in Sides : pc'[t] \in {pc[t]} \cup Gone
  BY <1>1 DEF Timeout, TypeOK
<1>4. ASSUME NEW t \in Sides
      PROVE  /\ SentInOrder(t)' /\ QueueHoldsLastSent(t)' /\ MineIsDue(t)'
             /\ PlayedAsSent(t)' /\ FiledAsSent(t)'
  BY <1>2, <1>3, Untouched, FiledUntouched
<1> QED
  BY <1>1, <1>4 DEF IInv

LEMMA InvLeave ==
    ASSUME IInv, NEW s \in Sides, Disconnect(s) \/ Drift(s)
    PROVE  IInv'
<1>1. TypeOK /\ TypeOK'
  BY TypeLeave DEF IInv
<1>2. /\ sent' = sent /\ frame' = frame /\ ring' = ring /\ queue' = queue /\ qpos' = qpos
      /\ qfilled' = qfilled /\ mine' = mine /\ played' = played
  BY DEF Disconnect, Drift, localVars
<1>3. \A t \in Sides : pc'[t] \in {pc[t]} \cup Gone
  BY <1>1 DEF Disconnect, Drift, TypeOK
<1>4. ASSUME NEW t \in Sides
      PROVE  /\ SentInOrder(t)' /\ QueueHoldsLastSent(t)' /\ MineIsDue(t)'
             /\ PlayedAsSent(t)' /\ FiledAsSent(t)'
  BY <1>2, <1>3, Untouched, FiledUntouched
<1> QED
  BY <1>1, <1>4 DEF IInv

LEMMA InvStutter == IInv /\ UNCHANGED vars => IInv'
<1> SUFFICES ASSUME IInv, UNCHANGED vars PROVE IInv'
  OBVIOUS
<1>1. TypeOK'
  BY TypeStutter DEF IInv
<1>2. /\ sent' = sent /\ frame' = frame /\ ring' = ring /\ queue' = queue /\ qpos' = qpos
      /\ qfilled' = qfilled /\ mine' = mine /\ played' = played /\ pc' = pc
  BY DEF vars, localVars
<1>3. ASSUME NEW t \in Sides
      PROVE  /\ SentInOrder(t)' /\ QueueHoldsLastSent(t)' /\ MineIsDue(t)'
             /\ PlayedAsSent(t)' /\ FiledAsSent(t)'
  BY <1>2, Untouched, FiledUntouched
<1> QED
  BY <1>1, <1>3 DEF IInv

(* The pads a side plays are the pair due for the frame it is on. *)
LEMMA PlaysDue ==
    ASSUME IInv, NEW s \in Sides, Play(s)
    PROVE  /\ frame[s] >= Delay => frame[s] - Delay + 1 <= Len(sent[Other(s)])
           /\ played' = [played EXCEPT ![s] =
                  Append(@, <<Due("host", frame[s]), Due("guest", frame[s])>>)]
<1> USE ParametersAssumption DEF ParametersAssumption
<1> DEFINE slot == frame[s] % Ring
           theirs == IF WarmUp(s) THEN Neutral ELSE ring[s][slot].joy
<1>1. frame[s] \in Nat /\ ring \in [Sides -> [0 .. Ring - 1 -> Slots]]
  BY DEF IInv, TypeOK
<1>2. slot \in 0 .. Ring - 1
  BY <1>1, ModRange
<1>3. mine[s] = Due(s, frame[s])
  BY DEF IInv, MineIsDue, Play
<1>4. /\ theirs = Due(Other(s), frame[s])
      /\ frame[s] >= Delay => frame[s] - Delay + 1 <= Len(sent[Other(s)])
  <2>1. CASE WarmUp(s)
    BY <1>1, <2>1 DEF WarmUp, Due
  <2>2. CASE ~WarmUp(s)
    <3>1. ring[s][slot].valid /\ ring[s][slot].frame = frame[s] /\ frame[s] >= Delay
      BY <1>1, <2>2 DEF Play, WarmUp, Hit
    <3> HIDE DEF slot
    <3> QED
      BY <1>2, <2>2, <3>1 DEF IInv, FiledAsSent
  <2> QED
    BY <2>1, <2>2
<1>5. played' = [played EXCEPT ![s] =
          Append(@, IF s = "host" THEN <<mine[s], theirs>> ELSE <<theirs, mine[s]>>)]
  BY DEF Play
<1>6. (IF s = "host" THEN <<mine[s], theirs>> ELSE <<theirs, mine[s]>>)
          = <<Due("host", frame[s]), Due("guest", frame[s])>>
  <2> HIDE DEF theirs
  <2> QED
    BY <1>3, <1>4 DEF Sides, Other
<1> QED
  BY <1>4, <1>5, <1>6

LEMMA InvPlay ==
    ASSUME IInv, NEW s \in Sides, Play(s)
    PROVE  IInv'
<1> USE ParametersAssumption DEF ParametersAssumption
<1> DEFINE slot == frame[s] % Ring
           pair == <<Due("host", frame[s]), Due("guest", frame[s])>>
<1>1. TypeOK /\ TypeOK'
  BY TypePlay DEF IInv
<1>2. /\ pc \in [Sides -> {"emulate", "await"} \cup Gone]
      /\ frame \in [Sides -> 0 .. MaxFrame]
      /\ ring \in [Sides -> [0 .. Ring - 1 -> Slots]]
      /\ sent \in [Sides -> Seq(Inputs)]
      /\ played \in [Sides -> Seq(Joys \X Joys)] /\ played' \in [Sides -> Seq(Joys \X Joys)]
  BY <1>1 DEF TypeOK
<1>3. /\ pc[s] = "await"
      /\ pc' = [pc EXCEPT ![s] = "emulate"] /\ frame' = [frame EXCEPT ![s] = @ + 1]
      /\ ring' = ring \/ ring' = [ring EXCEPT ![s][slot].valid = FALSE]
      /\ queue' = queue /\ qpos' = qpos /\ qfilled' = qfilled /\ mine' = mine
      /\ sent' = sent
  BY DEF Play, localVars
<1>4. ASSUME NEW t \in Sides
      PROVE  FiledAsSent(t)'
  <2>1. CASE ring'[t] = ring[t]
    BY <1>3, <2>1, FiledUntouched
  <2>2. CASE ring'[t] # ring[t]
    <3>1. slot \in 0 .. Ring - 1
      <4>1. frame[s] \in Nat /\ Ring \in Nat \ {0}
        BY <1>2 DEF ParametersAssumption
      <4> QED
        BY <4>1, ModRange
    <3>2. t = s /\ ring' = [ring EXCEPT ![s] =
                      [@ EXCEPT ![slot] = [ring[s][slot] EXCEPT !.valid = FALSE]]]
      BY <1>2, <1>3, <2>2
    <3> HIDE DEF slot
    <3>3. ring'[s][slot] = [ring[s][slot] EXCEPT !.valid = FALSE] /\ ring[s][slot] \in Slots
      <4>1. ring \in [Sides -> [0 .. Ring - 1 -> Slots]]
        BY <1>2
      <4>2. ring[s][slot] \in Slots
        BY <3>1, <4>1
      <4> QED
        BY <3>1, <3>2, <4>1, <4>2
    <3>4. ~ring'[s][slot].valid
      BY <3>3 DEF Slots
    <3>5. \A i \in 0 .. Ring - 1 : i # slot => ring'[s][i] = ring[s][i]
      BY <1>2, <3>1, <3>2
    <3> QED
      BY <1>3, <3>2, <3>4, <3>5 DEF IInv, FiledAsSent, Due
  <2> QED
    BY <2>1, <2>2
<1>5. ASSUME NEW t \in Sides, t # s
      PROVE  SentInOrder(t)' /\ QueueHoldsLastSent(t)' /\ MineIsDue(t)' /\ PlayedAsSent(t)'
  <2>1. /\ frame'[t] = frame[t] /\ pc'[t] = pc[t] /\ played'[t] = played[t]
        /\ queue'[t] = queue[t] /\ qpos'[t] = qpos[t] /\ qfilled'[t] = qfilled[t]
        /\ mine'[t] = mine[t]
    BY <1>2, <1>3, <1>5, PlaysDue
  <2> QED
    BY <1>3, <2>1, Untouched
<1>6. pc'[s] = "emulate" /\ frame'[s] = frame[s] + 1 /\ frame[s] \in Nat
  BY <1>2, <1>3
<1>7. SentInOrder(s)' /\ QueueHoldsLastSent(s)' /\ MineIsDue(s)'
  <2>1. Len(sent[s]) = frame[s] + 1
    BY <1>3 DEF IInv, SentInOrder
  <2>2. SentInOrder(s)'
    BY <1>3, <1>6, <2>1 DEF IInv, SentInOrder
  <2>3. QueueHoldsLastSent(s)'
    BY <1>3 DEF IInv, Gone, QueueHoldsLastSent
  <2>4. MineIsDue(s)'
    BY <1>6 DEF MineIsDue
  <2> QED
    BY <2>2, <2>3, <2>4
<1>8. PlayedAsSent(s)'
  <2>1. Len(played[s]) = frame[s]
    BY DEF IInv, PlayedAsSent
  <2>2. played'[s] = Append(played[s], pair)
    BY <1>2, PlaysDue
  <2> HIDE DEF pair
  <2>3. /\ Len(played'[s]) = frame[s] + 1
        /\ played'[s][frame[s] + 1] = pair
        /\ \A f \in 0 .. frame[s] - 1 : played'[s][f + 1] = played[s][f + 1]
    BY <1>2, <1>6, <2>1, <2>2
  <2>4. ASSUME NEW f \in 0 .. frame[s]
        PROVE  /\ f >= Delay => f - Delay + 1 <= Len(sent[Other(s)])
               /\ played'[s][f + 1] = <<Due("host", f), Due("guest", f)>>
    <3>1. CASE f = frame[s]
      BY <2>3, <3>1, PlaysDue DEF pair
    <3>2. CASE f \in 0 .. frame[s] - 1
      BY <2>3, <3>2 DEF IInv, PlayedAsSent
    <3> QED
      BY <1>6, <3>1, <3>2
  <2> QED
    BY <1>3, <1>6, <2>3, <2>4 DEF PlayedAsSent, Due
<1> QED
  BY <1>1, <1>4, <1>5, <1>7, <1>8 DEF IInv

LEMMA InvStep == IInv /\ [Next]_vars => IInv'
<1> SUFFICES ASSUME IInv, [Next]_vars
             PROVE  IInv'
  OBVIOUS
<1>1. ASSUME NEW s \in Sides, NEW raw \in Pads, NEW ok \in BOOLEAN, Begin(s, raw, ok)
      PROVE  IInv'
  BY <1>1, InvBegin
<1>2. ASSUME NEW s \in Sides, NEW p \in Deliverable(s), Receive(s, p)
      PROVE  IInv'
  BY <1>2, InvReceive
<1>3. ASSUME NEW s \in Sides, NEW torn \in BOOLEAN, Timeout(s, torn)
      PROVE  IInv'
  BY <1>3, InvTimeout
<1>4. ASSUME NEW s \in Sides, Play(s)
      PROVE  IInv'
  BY <1>4, InvPlay
<1>5. ASSUME NEW s \in Sides, Disconnect(s) \/ Drift(s)
      PROVE  IInv'
  BY <1>5, InvLeave
<1>6. CASE Over \/ UNCHANGED vars
  BY <1>6, InvStutter DEF Over
<1> QED
  BY <1>1, <1>2, <1>3, <1>4, <1>5, <1>6 DEF Next

LEMMA InvAgrees == IInv => Agreement
<1> SUFFICES ASSUME IInv, NEW f \in 1 .. MaxFrame,
                    f <= Len(played["host"]), f <= Len(played["guest"])
             PROVE  played["host"][f] = played["guest"][f]
  BY DEF Agreement
<1>1. "host" \in Sides /\ "guest" \in Sides
  BY DEF Sides
<1>2. \A s \in Sides : frame[s] \in Nat /\ Len(played[s]) = frame[s]
  BY DEF IInv, TypeOK, PlayedAsSent
<1>3. \A s \in Sides : played[s][(f - 1) + 1] = <<Due("host", f - 1), Due("guest", f - 1)>>
  <2> TAKE s \in Sides
  <2>1. f - 1 \in 0 .. frame[s] - 1
    BY <1>1, <1>2 DEF Sides
  <2> QED
    BY <2>1 DEF IInv, PlayedAsSent
<1>4. (f - 1) + 1 = f
  OBVIOUS
<1> QED
  BY <1>1, <1>3, <1>4

(* For any delay and ring size, any loss, repetition, reordering and mixing  *)
(* in of foreign datagrams, the two consoles are given the same pads.        *)
THEOREM ConsolesAgree == Spec => []Agreement
<1>1. Spec => []IInv
  BY InvInit, InvStep, PTL DEF Spec
<1> QED
  BY <1>1, InvAgrees, PTL

-----------------------------------------------------------------------------
(* The lockstep implements the shared timeline. *)

(* A side's samples are the pads of its packets, in order. *)
LEMMA SampleProperties ==
    ASSUME TypeOK, NEW t \in Sides
    PROVE  /\ Samples[t] \in Seq(Pads)
           /\ Len(Samples[t]) = Len(sent[t])
           /\ \A i \in 1 .. Len(sent[t]) : Samples[t][i] = sent[t][i].joy
<1>1. sent[t] \in Seq(Inputs)
  BY DEF TypeOK
<1>2. Samples[t] = [i \in 1 .. Len(sent[t]) |-> sent[t][i].joy]
  BY DEF Samples
<1>3. \A i \in 1 .. Len(sent[t]) : sent[t][i].joy \in Pads
  <2> TAKE i \in 1 .. Len(sent[t])
  <2>1. sent[t][i] \in Inputs
    BY <1>1, ElementOfSeq
  <2> QED
    BY <2>1 DEF Inputs
<1>4. Len(sent[t]) \in Nat
  BY <1>1
<1> HIDE DEF Samples
<1> QED
  BY <1>2, <1>3, <1>4

(* The abstract pair for a frame both sides have sent for is the pair due. *)
LEMMA PairIsDue ==
    ASSUME TypeOK, NEW f \in Nat,
           \A t \in Sides : f >= Delay => f - Delay + 1 <= Len(sent[t])
    PROVE  Timeline!PairAt(f) = <<Due("host", f), Due("guest", f)>>
<1> USE ParametersAssumption DEF ParametersAssumption
<1>1. ASSUME NEW t \in Sides
      PROVE  Timeline!PadFor(t, f) = Due(t, f)
  <2>1. CASE f < Delay
    BY <2>1 DEF Timeline!PadFor, Due
  <2>2. CASE f >= Delay
    <3>1. Len(sent[t]) \in Nat
      BY DEF TypeOK
    <3>2. f - Delay + 1 \in 1 .. Len(sent[t])
      BY <2>2, <3>1
    <3>3. Samples[t][f - Delay + 1] = sent[t][f - Delay + 1].joy
      BY <3>2, SampleProperties
    <3> QED
      BY <2>2, <3>3 DEF Timeline!PadFor, Due
  <2> QED
    BY <2>1, <2>2
<1> QED
  BY <1>1 DEF Timeline!PairAt, Sides

LEMMA RefInit == Init => Timeline!Init
<1> SUFFICES ASSUME Init PROVE Timeline!Init
  OBVIOUS
<1>1. TypeOK
  BY TypeInit
<1>2. ASSUME NEW t \in Sides
      PROVE  Samples[t] = << >>
  <2>1. sent[t] = << >>
    BY DEF Init
  <2>2. Samples[t] \in Seq(Pads) /\ Len(Samples[t]) = 0
    BY <1>1, <2>1, SampleProperties
  <2> QED
    BY <2>2, EmptySeq
<1>3. Samples = [t \in Sides |-> << >>]
  <2>1. Samples = [t \in Sides |-> Samples[t]]
    BY DEF Samples
  <2> QED
    BY <1>2, <2>1
<1> QED
  BY <1>3 DEF Init, Timeline!Init, Timeline!Sides, Sides

(* Sending is sampling; a send that fails changes nothing in the timeline. *)
LEMMA RefBegin ==
    ASSUME IInv, NEW s \in Sides, NEW raw \in Pads, NEW ok \in BOOLEAN,
           Begin(s, raw, ok)
    PROVE  [Timeline!Next]_<<Samples, played>>
<1> DEFINE packet == [session |-> Token, seq |-> frame[s] + Delay, joy |-> raw,
                      crc |-> StateHash(s)]
<1>1. TypeOK /\ TypeOK' /\ played' = played
  BY TypeBegin DEF IInv, Begin
<1>2. CASE sent' = sent
  BY <1>1, <1>2 DEF Samples
<1>3. CASE sent' = [sent EXCEPT ![s] = Append(@, packet)]
  <2>1. sent \in [Sides -> Seq(Inputs)] /\ sent' \in [Sides -> Seq(Inputs)]
    BY <1>1 DEF TypeOK
  <2>2. packet.joy = raw
    OBVIOUS
  <2> HIDE DEF packet
  <2>3. sent'[s] = Append(sent[s], packet) /\ \A t \in Sides : t # s => sent'[t] = sent[t]
    BY <1>3, <2>1
  <2>4. Len(sent'[s]) = Len(sent[s]) + 1 /\ Len(sent[s]) \in Nat
    BY <2>1, <2>3
  <2>5. /\ Samples[s] \in Seq(Pads) /\ Len(Samples[s]) = Len(sent[s])
        /\ \A i \in 1 .. Len(sent[s]) : Samples[s][i] = sent[s][i].joy
    BY <1>1, SampleProperties
  <2>6. /\ Samples'[s] \in Seq(Pads) /\ Len(Samples'[s]) = Len(sent'[s])
        /\ \A i \in 1 .. Len(sent'[s]) : Samples'[s][i] = sent'[s][i].joy
    <3>1. Samples'[s] = [i \in 1 .. Len(sent'[s]) |-> sent'[s][i].joy]
      BY DEF Samples
    <3>2. \A i \in 1 .. Len(sent'[s]) : sent'[s][i].joy \in Pads
      <4> TAKE i \in 1 .. Len(sent'[s])
      <4>1. sent'[s][i] \in Inputs
        BY <2>1, ElementOfSeq
      <4> QED
        BY <4>1 DEF Inputs
    <3>3. Len(sent'[s]) \in Nat
      BY <2>4
    <3> HIDE DEF Samples
    <3> QED
      BY <3>1, <3>2, <3>3
  <2>7. Samples'[s] = Append(Samples[s], raw)
    <3>1. Append(Samples[s], raw) \in Seq(Pads)
      BY <2>5
    <3>2. Len(Append(Samples[s], raw)) = Len(Samples'[s])
      BY <2>4, <2>5, <2>6
    <3>3. ASSUME NEW i \in 1 .. Len(Samples'[s])
          PROVE  Samples'[s][i] = Append(Samples[s], raw)[i]
      <4>1. CASE i = Len(sent[s]) + 1
        <5>1. sent'[s][Len(sent[s]) + 1] = packet
          BY <2>1, <2>3
        <5>2. Append(Samples[s], raw)[Len(sent[s]) + 1] = raw
          BY <2>5
        <5>3. Samples'[s][i] = packet.joy
          BY <2>6, <4>1, <5>1
        <5> QED
          BY <2>2, <4>1, <5>2, <5>3
      <4>2. CASE i \in 1 .. Len(sent[s])
        <5>1. sent'[s][i] = sent[s][i]
          BY <2>1, <2>3, <4>2
        <5>2. Append(Samples[s], raw)[i] = Samples[s][i]
          BY <2>5, <4>2
        <5>3. Samples[s][i] = sent[s][i].joy
          BY <2>5, <4>2
        <5>4. Samples'[s][i] = sent'[s][i].joy
          BY <2>6
        <5> QED
          BY <5>1, <5>2, <5>3, <5>4
      <4>3. i \in 1 .. Len(sent[s]) + 1
        <5>1. Len(Samples'[s]) = Len(sent[s]) + 1
          BY <2>4, <2>6
        <5> QED
          BY <5>1
      <4>4. i = Len(sent[s]) + 1 \/ i \in 1 .. Len(sent[s])
        BY <2>4, <4>3
      <4> QED
        BY <4>1, <4>2, <4>4
    <3> QED
      BY <2>6, <3>1, <3>2, <3>3, SeqEqual
  <2>8. Samples' = [Samples EXCEPT ![s] = Append(@, raw)]
    <3>1. \A t \in Sides : t # s => Samples'[t] = Samples[t]
      BY <2>3 DEF Samples
    <3>2. Samples = [t \in Sides |-> Samples[t]] /\ Samples' = [t \in Sides |-> Samples'[t]]
      BY DEF Samples
    <3> HIDE DEF Samples
    <3> QED
      BY <2>7, <3>1, <3>2
  <2>9. Len(Samples[s]) = Len(played[s])
    BY <2>5 DEF IInv, SentInOrder, PlayedAsSent, Begin
  <2> QED
    BY <1>1, <2>8, <2>9 DEF Timeline!Next, Timeline!Sample, Timeline!Sides, Sides
<1> QED
  BY <1>2, <1>3 DEF Begin

LEMMA RefPlay ==
    ASSUME IInv, NEW s \in Sides, Play(s)
    PROVE  Timeline!Next
<1> USE ParametersAssumption DEF ParametersAssumption
<1>1. Len(played[s]) = frame[s] /\ frame[s] \in Nat /\ Len(sent[s]) = frame[s] + 1
  BY DEF IInv, TypeOK, PlayedAsSent, SentInOrder, Play
<1>2. Samples' = Samples
  BY DEF Play, Samples
<1>3. Len(Samples[s]) = frame[s] + 1 /\ Len(Samples[Other(s)]) = Len(sent[Other(s)])
  BY <1>1, SampleProperties, OtherSide DEF IInv
<1>4. frame[s] >= Delay => frame[s] - Delay < Len(Samples[Other(s)])
  <2>1. Len(sent[Other(s)]) \in Nat
    BY OtherSide DEF IInv, TypeOK
  <2> QED
    BY <1>1, <1>3, <2>1, PlaysDue
<1>5. Timeline!PairAt(frame[s]) = <<Due("host", frame[s]), Due("guest", frame[s])>>
  <2>1. \A t \in Sides : frame[s] >= Delay => frame[s] - Delay + 1 <= Len(sent[t])
    BY <1>1, PlaysDue, OtherSide
  <2> QED
    BY <1>1, <2>1, PairIsDue DEF IInv
<1>6. played' = [played EXCEPT ![s] = Append(@, Timeline!PairAt(frame[s]))]
  BY <1>5, PlaysDue
<1>7. Timeline!Other(s) = Other(s)
  BY DEF Timeline!Other, Other
<1>8. Timeline!Play(s)
  BY <1>1, <1>2, <1>3, <1>4, <1>6, <1>7 DEF Timeline!Play
<1> QED
  BY <1>8 DEF Timeline!Next, Timeline!Sides, Sides

LEMMA RefStep == IInv /\ [Next]_vars => [Timeline!Next]_<<Samples, played>>
<1> SUFFICES ASSUME IInv, [Next]_vars
             PROVE  [Timeline!Next]_<<Samples, played>>
  OBVIOUS
<1>1. ASSUME NEW s \in Sides, NEW raw \in Pads, NEW ok \in BOOLEAN, Begin(s, raw, ok)
      PROVE  [Timeline!Next]_<<Samples, played>>
  BY <1>1, RefBegin
<1>2. ASSUME NEW s \in Sides, NEW p \in Deliverable(s), Receive(s, p)
      PROVE  UNCHANGED <<Samples, played>>
  BY <1>2 DEF Receive, Samples
<1>3. ASSUME NEW s \in Sides, NEW torn \in BOOLEAN, Timeout(s, torn)
      PROVE  UNCHANGED <<Samples, played>>
  BY <1>3 DEF Timeout, Samples
<1>4. ASSUME NEW s \in Sides, Play(s)
      PROVE  Timeline!Next
  BY <1>4, RefPlay
<1>5. ASSUME NEW s \in Sides, Disconnect(s) \/ Drift(s)
      PROVE  UNCHANGED <<Samples, played>>
  BY <1>5 DEF Disconnect, Drift, Samples
<1>6. CASE Over \/ UNCHANGED vars
  BY <1>6 DEF Over, vars, Samples
<1> QED
  BY <1>1, <1>2, <1>3, <1>4, <1>5, <1>6 DEF Next

(* Every behaviour of the lockstep is one of the shared timeline: frame f is *)
(* played with the two pads held Delay frames before, the host's first.      *)
THEOREM LockstepImplementsTimeline == Spec => PlaysTheSharedTimeline
<1>1. Spec => []IInv
  BY InvInit, InvStep, PTL DEF Spec
<1> QED
  BY <1>1, RefInit, RefStep, PTL DEF Spec, PlaysTheSharedTimeline, Timeline!Spec

-----------------------------------------------------------------------------
(* The checksums.  A console drifts at most once, on the frame it is on, so  *)
(* its hash for a frame it has begun is settled.                             *)

HashAt(s, g) ==
    <<IF drift[s] # None /\ drift[s] <= g THEN s ELSE "sound", SubSeq(played[s], 1, g)>>

OneSentAhead(s) == Len(sent[s]) <= frame[s] + 1

DriftIsPast(s) == drift[s] # None => drift[s] <= frame[s]

SentWithHash(s) == \A i \in 1 .. Len(sent[s]) : sent[s][i].crc = HashAt(s, i - 1)

FiledWithHash(s) ==
    \A i \in 0 .. Ring - 1 :
        ring[s][i].valid /\ ring[s][i].frame >= Delay
            => ring[s][i].crc = HashAt(Other(s), ring[s][i].frame - Delay)

(* The local ring still holds the hashes of the last Ring frames begun. *)
HashesKept(s) ==
    pc[s] \notin Gone =>
        \A g \in Nat :
            g < Len(sent[s]) /\ Len(sent[s]) <= g + Ring
                => crcs[s][g % Ring] = HashAt(s, g)

HashInv == /\ IInv
           /\ \A s \in Sides :
                 /\ OneSentAhead(s)
                 /\ DriftIsPast(s)
                 /\ SentWithHash(s)
                 /\ FiledWithHash(s)
                 /\ HashesKept(s)

(* Two numbers less than d apart do not meet on a ring of d places. *)
LEMMA ModDiffers ==
    ASSUME NEW d \in Nat \ {0}, NEW m \in Nat, NEW n \in Nat, m < n, n - m < d
    PROVE  m % d # n % d
<1> SUFFICES ASSUME m % d = n % d PROVE FALSE
  OBVIOUS
<1> DEFINE k == n \div d - m \div d
<1>1. k \in Int /\ n - m = d * k
  OBVIOUS
<1> HIDE DEF k
<1>2. k <= 0 => d * k <= 0
  BY <1>1
<1>3. k >= 1 => d * k >= d
  BY <1>1
<1> QED
  BY <1>1, <1>2, <1>3

LEMMA FramesAndPackets ==
    ASSUME TypeOK
    PROVE  \A t \in Sides : frame[t] \in Nat /\ Len(sent[t]) \in Nat
<1>1. frame \in [Sides -> 0 .. MaxFrame] /\ sent \in [Sides -> Seq(Inputs)]
  BY DEF TypeOK
<1> QED
  BY <1>1

(* What a receive files, and what a frame played takes out of the ring. *)
LEMMA ReceiveEffect ==
    ASSUME TypeOK, NEW s \in Sides, NEW p \in Deliverable(s), Receive(s, p)
    PROVE  /\ \A t \in Sides : t # s => ring'[t] = ring[t] /\ read'[t] = read[t]
           /\ read'[s] = IF Transport = "stream" THEN read[s] + 2 ELSE read[s]
           /\ p.session # Token => ring'[s] = ring[s]
           /\ p.session = Token =>
                \A i \in 0 .. Ring - 1 :
                    ring'[s][i] = IF i = p.seq % Ring
                                  THEN [valid |-> TRUE, frame |-> p.seq, joy |-> p.joy, crc |-> p.crc]
                                  ELSE ring[s][i]
<1> DEFINE slot == p.seq % Ring
           filed == [valid |-> TRUE, frame |-> p.seq, joy |-> p.joy, crc |-> p.crc]
<1>1. /\ ring \in [Sides -> [0 .. Ring - 1 -> Slots]] /\ read \in [Sides -> Nat]
      /\ read' = [read EXCEPT ![s] = IF Transport = "stream" THEN @ + 2 ELSE @]
      /\ ring' = IF p.session = Token THEN [ring EXCEPT ![s][slot] = filed] ELSE ring
  BY DEF TypeOK, Receive
<1>2. slot \in 0 .. Ring - 1
  BY DeliverableType, ModRange, ParametersAssumption DEF ParametersAssumption
<1> HIDE DEF slot, filed
<1>3. \A t \in Sides : t # s => ring'[t] = ring[t] /\ read'[t] = read[t]
  BY <1>1
<1>4. read'[s] = IF Transport = "stream" THEN read[s] + 2 ELSE read[s]
  BY <1>1
<1>5. p.session # Token => ring'[s] = ring[s]
  BY <1>1
<1>6. p.session = Token => \A i \in 0 .. Ring - 1 : ring'[s][i] = IF i = slot THEN filed ELSE ring[s][i]
  BY <1>1, <1>2
<1> QED
  BY <1>3, <1>4, <1>5, <1>6 DEF slot, filed

LEMMA PlayEffect ==
    ASSUME TypeOK, NEW s \in Sides, Play(s)
    PROVE  /\ \A t \in Sides : t # s => ring'[t] = ring[t]
           /\ WarmUp(s) => ring'[s] = ring[s]
           /\ ~WarmUp(s) => /\ Hit(s) /\ frame[s] % Ring \in 0 .. Ring - 1
                            /\ ~ ring'[s][frame[s] % Ring].valid
           /\ \A i \in 0 .. Ring - 1 : i # frame[s] % Ring => ring'[s][i] = ring[s][i]
<1> DEFINE slot == frame[s] % Ring
<1>1. ring \in [Sides -> [0 .. Ring - 1 -> Slots]] /\ frame[s] \in Nat
  BY DEF TypeOK
<1>2. slot \in 0 .. Ring - 1
  BY <1>1, ModRange, ParametersAssumption DEF ParametersAssumption
<1>3. ring' = IF WarmUp(s) THEN ring ELSE [ring EXCEPT ![s][slot].valid = FALSE]
  BY DEF Play
<1>4. WarmUp(s) \/ Hit(s)
  BY DEF Play
<1> HIDE DEF slot
<1>5. CASE WarmUp(s)
  BY <1>3, <1>5 DEF slot
<1>6. CASE ~WarmUp(s)
  <2>1. ring' = [ring EXCEPT ![s] = [@ EXCEPT ![slot] = [ring[s][slot] EXCEPT !.valid = FALSE]]]
    BY <1>3, <1>6
  <2>2. ring[s][slot] \in Slots
    BY <1>1, <1>2
  <2>3. ring'[s][slot] = [ring[s][slot] EXCEPT !.valid = FALSE]
    BY <1>1, <1>2, <2>1
  <2>4. ~ ring'[s][slot].valid
    BY <2>2, <2>3 DEF Slots
  <2>5. /\ \A t \in Sides : t # s => ring'[t] = ring[t]
        /\ \A i \in 0 .. Ring - 1 : i # slot => ring'[s][i] = ring[s][i]
    BY <1>1, <1>2, <2>1
  <2> QED
    BY <1>2, <1>4, <1>6, <2>4, <2>5 DEF slot
<1> QED
  BY <1>5, <1>6

(* A hash on the wire is for a frame its console has begun. *)
LEMMA HashStable ==
    ASSUME HashInv, TypeOK', NEW t \in Sides, NEW g \in Nat, g < Len(sent[t]),
           \/ drift'[t] = drift[t]
           \/ pc[t] = "emulate" /\ drift[t] = None /\ drift'[t] = frame[t],
           \/ played'[t] = played[t]
           \/ \E e : played'[t] = Append(played[t], e)
    PROVE  HashAt(t, g)' = HashAt(t, g)
<1>1. /\ frame[t] \in Nat /\ played[t] \in Seq(Joys \X Joys) /\ Len(sent[t]) \in Nat
      /\ played'[t] \in Seq(Joys \X Joys) /\ Len(played[t]) = frame[t]
      /\ pc[t] = "emulate" => Len(sent[t]) = frame[t]
      /\ Len(sent[t]) <= frame[t] + 1
  <2>1. /\ frame[t] \in Nat /\ played[t] \in Seq(Joys \X Joys) /\ Len(sent[t]) \in Nat
        /\ played'[t] \in Seq(Joys \X Joys)
    <3>1. /\ frame \in [Sides -> 0 .. MaxFrame] /\ played \in [Sides -> Seq(Joys \X Joys)]
          /\ sent \in [Sides -> Seq(Inputs)] /\ played' \in [Sides -> Seq(Joys \X Joys)]
      BY DEF HashInv, IInv, TypeOK
    <3> QED
      BY <3>1
  <2>2. PlayedAsSent(t) /\ SentInOrder(t) /\ OneSentAhead(t)
    BY DEF HashInv, IInv
  <2> QED
    BY <2>1, <2>2 DEF PlayedAsSent, SentInOrder, OneSentAhead
<1>2. drift'[t] # None /\ drift'[t] <= g <=> drift[t] # None /\ drift[t] <= g
  <2>1. CASE drift'[t] = drift[t]
    BY <2>1
  <2>2. CASE pc[t] = "emulate" /\ drift[t] = None /\ drift'[t] = frame[t]
    <3>1. ~ (drift'[t] <= g)
      BY <1>1, <2>2
    <3> QED
      BY <2>2, <3>1
  <2> QED
    BY <2>1, <2>2
<1>3. SubSeq(played'[t], 1, g) = SubSeq(played[t], 1, g)
  <2>1. CASE played'[t] = played[t]
    BY <2>1
  <2>2. ASSUME NEW e, played'[t] = Append(played[t], e)
        PROVE  SubSeq(played'[t], 1, g) = SubSeq(played[t], 1, g)
    <3>1. g <= Len(played[t])
      BY <1>1
    <3>2. Len(played'[t]) = Len(played[t]) + 1
      BY <1>1, <2>2
    <3>3. \A i \in 1 .. g : played'[t][i] = played[t][i]
      BY <1>1, <2>2, <3>1
    <3>4. \A i \in 1 .. g : played[t][i] \in Joys \X Joys
      BY <1>1, <3>1, ElementOfSeq
    <3>5. /\ SubSeq(played[t], 1, g) \in Seq(Joys \X Joys)
          /\ Len(SubSeq(played[t], 1, g)) = g
          /\ \A i \in 1 .. g : SubSeq(played[t], 1, g)[i] = played[t][i]
      <4>1. /\ SubSeq(played[t], 1, g) \in Seq(Joys \X Joys)
            /\ Len(SubSeq(played[t], 1, g)) = IF 1 <= g THEN g - 1 + 1 ELSE 0
            /\ \A i \in 1 .. g - 1 + 1 : SubSeq(played[t], 1, g)[i] = played[t][1 + i - 1]
        BY <3>4, SubSeqProperties
      <4> QED
        BY <4>1
    <3>6. /\ SubSeq(played'[t], 1, g) \in Seq(Joys \X Joys)
          /\ Len(SubSeq(played'[t], 1, g)) = g
          /\ \A i \in 1 .. g : SubSeq(played'[t], 1, g)[i] = played'[t][i]
      <4>1. \A i \in 1 .. g : played'[t][i] \in Joys \X Joys
        BY <3>3, <3>4
      <4>2. /\ SubSeq(played'[t], 1, g) \in Seq(Joys \X Joys)
            /\ Len(SubSeq(played'[t], 1, g)) = IF 1 <= g THEN g - 1 + 1 ELSE 0
            /\ \A i \in 1 .. g - 1 + 1 : SubSeq(played'[t], 1, g)[i] = played'[t][1 + i - 1]
        BY <4>1, SubSeqProperties
      <4> QED
        BY <4>2
    <3> QED
      BY <3>3, <3>5, <3>6, SeqEqual
  <2> QED
    BY <2>1, <2>2
<1> QED
  BY <1>2, <1>3 DEF HashAt

(* What every step does to the two things a hash is made of. *)
LEMMA HashesSettled ==
    ASSUME HashInv, [Next]_vars, NEW t \in Sides
    PROVE  /\ \/ drift'[t] = drift[t]
              \/ pc[t] = "emulate" /\ drift[t] = None /\ drift'[t] = frame[t]
           /\ \A g \in Nat : g < Len(sent[t]) => HashAt(t, g)' = HashAt(t, g)
<1>1. TypeOK /\ TypeOK' /\ IInv
  BY InvStep DEF IInv, HashInv
<1> DEFINE DriftStep == \/ drift'[t] = drift[t]
                        \/ pc[t] = "emulate" /\ drift[t] = None /\ drift'[t] = frame[t]
           PlayStep == \/ played'[t] = played[t]
                       \/ \E e : played'[t] = Append(played[t], e)
<1>2. ASSUME NEW s \in Sides, NEW raw \in Pads, NEW ok \in BOOLEAN, Begin(s, raw, ok)
      PROVE  DriftStep /\ PlayStep
  BY <1>2 DEF Begin
<1>3. ASSUME NEW s \in Sides, NEW p \in Deliverable(s), Receive(s, p)
      PROVE  DriftStep /\ PlayStep
  BY <1>3 DEF Receive
<1>4. ASSUME NEW s \in Sides, NEW torn \in BOOLEAN, Timeout(s, torn)
      PROVE  DriftStep /\ PlayStep
  BY <1>4 DEF Timeout
<1>5. ASSUME NEW s \in Sides, Play(s)
      PROVE  DriftStep /\ PlayStep
  <2>1. drift' = drift
    BY <1>5 DEF Play
  <2>2. PlayStep
    <3>1. played' = [played EXCEPT ![s] =
                  Append(@, <<Due("host", frame[s]), Due("guest", frame[s])>>)]
      BY <1>1, <1>5, PlaysDue
    <3>2. played \in [Sides -> Seq(Joys \X Joys)]
      BY <1>1 DEF TypeOK
    <3> QED
      BY <3>1, <3>2
  <2> QED
    BY <2>1, <2>2
<1>6. ASSUME NEW s \in Sides, Disconnect(s) \/ Drift(s)
      PROVE  DriftStep /\ PlayStep
  <2>1. drift \in [Sides -> {None} \cup 0 .. MaxFrame] /\ played' = played
    BY <1>1, <1>6 DEF TypeOK, Disconnect, Drift
  <2> QED
    BY <1>6, <2>1 DEF Disconnect, Drift
<1>7. ASSUME Over \/ UNCHANGED vars
      PROVE  DriftStep /\ PlayStep
  BY <1>7 DEF Over, vars
<1>8. DriftStep /\ PlayStep
  <2> HIDE DEF DriftStep, PlayStep
  <2> QED
    BY <1>2, <1>3, <1>4, <1>5, <1>6, <1>7 DEF Next
<1>9. ASSUME NEW g \in Nat, g < Len(sent[t])
      PROVE  HashAt(t, g)' = HashAt(t, g)
  BY <1>1, <1>8, <1>9, HashStable
<1> QED
  BY <1>8, <1>9

LEMMA HashInit == Init => HashInv
<1> SUFFICES ASSUME Init, NEW s \in Sides
             PROVE  /\ OneSentAhead(s) /\ DriftIsPast(s) /\ SentWithHash(s)
                    /\ FiledWithHash(s) /\ HashesKept(s)
  BY InvInit DEF HashInv
<1>1. /\ frame[s] = 0 /\ sent[s] = << >> /\ drift[s] = None
      /\ ring[s] = [i \in 0 .. Ring - 1 |-> EmptySlot]
  BY DEF Init
<1> QED
  BY <1>1 DEF OneSentAhead, DriftIsPast, SentWithHash, FiledWithHash, HashesKept, EmptySlot

(* The hash a side takes as it begins a frame is that frame's. *)
LEMMA StateHashIsNow ==
    ASSUME HashInv, NEW s \in Sides
    PROVE  StateHash(s) = HashAt(s, frame[s])
<1>1. played[s] \in Seq(Joys \X Joys) /\ Len(played[s]) = frame[s]
  BY DEF HashInv, IInv, TypeOK, PlayedAsSent
<1>2. SubSeq(played[s], 1, frame[s]) = played[s]
  BY <1>1, SubSeqFull
<1>3. drift[s] # None /\ drift[s] <= frame[s] <=> drift[s] # None
  BY DEF HashInv, DriftIsPast
<1> QED
  BY <1>2, <1>3 DEF StateHash, HashAt

(* What is on the wire, and what is filed from it, keeps its hash. *)
LEMMA WireHashesStay ==
    ASSUME HashInv, [Next]_vars, NEW t \in Sides
    PROVE  /\ \A i \in 1 .. Len(sent[t]) : sent[t][i].crc = HashAt(t, i - 1)'
           /\ \A i \in 0 .. Ring - 1, g \in Nat :
                 ring[t][i].valid /\ ring[t][i].frame = g + Delay
                     => ring[t][i].crc = HashAt(Other(t), g)'
<1> USE ParametersAssumption DEF ParametersAssumption
<1>1. ASSUME NEW i \in 1 .. Len(sent[t])
      PROVE  sent[t][i].crc = HashAt(t, i - 1)'
  <2>1. sent[t][i].crc = HashAt(t, i - 1)
    BY DEF HashInv, SentWithHash
  <2>2. Len(sent[t]) \in Nat
    BY DEF HashInv, IInv, TypeOK
  <2>3. i - 1 \in Nat /\ i - 1 < Len(sent[t])
    BY <2>2
  <2> QED
    BY <2>1, <2>3, HashesSettled
<1>2. ASSUME NEW i \in 0 .. Ring - 1, NEW g \in Nat,
             ring[t][i].valid, ring[t][i].frame = g + Delay
      PROVE  ring[t][i].crc = HashAt(Other(t), g)'
  <2>1. ring[t][i].frame >= Delay /\ ring[t][i].frame - Delay = g
    BY <1>2
  <2>2. ring[t][i].crc = HashAt(Other(t), g)
    BY <1>2, <2>1 DEF HashInv, FiledWithHash
  <2>3. g + 1 <= Len(sent[Other(t)])
    BY <1>2, <2>1 DEF HashInv, IInv, FiledAsSent
  <2>4. Other(t) \in Sides /\ Len(sent[Other(t)]) \in Nat
    BY OtherSide DEF HashInv, IInv, TypeOK
  <2>5. HashAt(Other(t), g)' = HashAt(Other(t), g)
    BY <2>3, <2>4, HashesSettled
  <2> QED
    BY <2>2, <2>5
<1> QED
  BY <1>1, <1>2

LEMMA FiledHashesStay ==
    ASSUME HashInv, [Next]_vars, NEW t \in Sides,
           \A i \in 0 .. Ring - 1 : ring'[t][i].valid => ring'[t][i] = ring[t][i]
    PROVE  FiledWithHash(t)'
<1> USE ParametersAssumption DEF ParametersAssumption
<1> SUFFICES ASSUME NEW i \in 0 .. Ring - 1, ring'[t][i].valid, ring'[t][i].frame >= Delay
             PROVE  ring'[t][i].crc = HashAt(Other(t), ring[t][i].frame - Delay)'
  BY DEF FiledWithHash
<1>1. ring[t][i].valid /\ ring'[t][i] = ring[t][i] /\ ring[t][i].frame >= Delay
  OBVIOUS
<1>2. ring[t][i].frame \in Nat
  <2>1. ring \in [Sides -> [0 .. Ring - 1 -> Slots]]
    BY DEF HashInv, IInv, TypeOK
  <2> QED
    BY <2>1 DEF Slots
<1>3. PICK g \in Nat : ring[t][i].frame = g + Delay
  <2>1. ring[t][i].frame - Delay \in Nat /\ ring[t][i].frame = (ring[t][i].frame - Delay) + Delay
    BY <1>1, <1>2
  <2> QED
    BY <2>1
<1>4. ring[t][i].crc = HashAt(Other(t), g)'
  BY <1>1, <1>3, WireHashesStay
<1>5. ring'[t][i].frame - Delay = g
  BY <1>1, <1>3
<1> QED
  BY <1>1, <1>4, <1>5 DEF HashAt

(* A side whose frame, packets and local ring stand still. *)
LEMMA HashUntouched ==
    ASSUME HashInv, [Next]_vars, NEW t \in Sides,
           sent'[t] = sent[t], crcs'[t] = crcs[t], frame'[t] >= frame[t], frame'[t] \in Nat,
           pc'[t] \in Gone \/ pc[t] \notin Gone
    PROVE  OneSentAhead(t)' /\ DriftIsPast(t)' /\ SentWithHash(t)' /\ HashesKept(t)'
<1>1. frame[t] \in Nat /\ Len(sent[t]) \in Nat
  BY DEF HashInv, IInv, TypeOK
<1>2. OneSentAhead(t)'
  BY <1>1 DEF HashInv, OneSentAhead
<1>3. DriftIsPast(t)'
  <2>1. drift[t] \in {None} \cup 0 .. MaxFrame
    BY DEF HashInv, IInv, TypeOK
  <2> QED
    BY <1>1, <2>1, HashesSettled, ParametersAssumption DEF HashInv, DriftIsPast, ParametersAssumption
<1>4. SentWithHash(t)'
  BY WireHashesStay DEF SentWithHash
<1>5. HashesKept(t)'
  BY HashesSettled DEF HashInv, HashesKept
<1> QED
  BY <1>2, <1>3, <1>4, <1>5

LEMMA HashBegin ==
    ASSUME HashInv, NEW s \in Sides, NEW raw \in Pads, NEW ok \in BOOLEAN,
           Begin(s, raw, ok)
    PROVE  HashInv'
<1> USE ParametersAssumption DEF ParametersAssumption
<1>0. PICK n \in Nat : n = frame[s]
  BY DEF HashInv, IInv, TypeOK
<1> DEFINE packet == [session |-> Token, seq |-> n + Delay, joy |-> raw, crc |-> StateHash(s)]
<1>1. [Next]_vars /\ IInv /\ IInv'
  BY InvBegin DEF HashInv, Next
<1>2. /\ pc[s] = "emulate" /\ Len(sent[s]) = n
      /\ sent \in [Sides -> Seq(Inputs)] /\ sent' \in [Sides -> Seq(Inputs)]
      /\ crcs \in [Sides -> [0 .. Ring - 1 -> Hashes]]
      /\ pc \in [Sides -> {"emulate", "await"} \cup Gone]
      /\ frame \in [Sides -> 0 .. MaxFrame]
  BY <1>0, <1>1 DEF IInv, TypeOK, SentInOrder, Begin
<1>3. /\ frame' = frame /\ ring' = ring /\ drift' = drift
      /\ crcs' = [crcs EXCEPT ![s][n % Ring] = StateHash(s)]
      /\ \/ sent' = sent /\ pc' = [pc EXCEPT ![s] = "left"]
         \/ sent' = [sent EXCEPT ![s] = Append(@, packet)] /\ pc' = [pc EXCEPT ![s] = "await"]
  BY <1>0 DEF Begin
<1> HIDE DEF packet
<1>4. \A t \in Sides : FiledWithHash(t)'
  BY <1>1, <1>3, FiledHashesStay
<1>5. n % Ring \in 0 .. Ring - 1
  BY <1>2, ModRange
<1>6. /\ \A t \in Sides : t # s => sent'[t] = sent[t] /\ crcs'[t] = crcs[t] /\ pc'[t] = pc[t]
      /\ crcs'[s][n % Ring] = StateHash(s)
      /\ \A i \in 0 .. Ring - 1 : i # n % Ring => crcs'[s][i] = crcs[s][i]
  BY <1>2, <1>3, <1>5
<1>7. ASSUME NEW t \in Sides, t # s
      PROVE  OneSentAhead(t)' /\ DriftIsPast(t)' /\ SentWithHash(t)' /\ HashesKept(t)'
  <2>1. frame[t] \in Nat
    BY <1>2
  <2> QED
    BY <1>1, <1>3, <1>6, <1>7, <2>1, HashUntouched DEF HashInv
<1>8. DriftIsPast(s)'
  BY <1>3 DEF HashInv, DriftIsPast
<1>9. CASE sent' = sent /\ pc' = [pc EXCEPT ![s] = "left"]
  <2>1. sent'[s] = sent[s] /\ pc'[s] \in Gone
    BY <1>2, <1>9 DEF Gone
  <2>2. OneSentAhead(s)' /\ HashesKept(s)'
    BY <1>0, <1>2, <1>3, <2>1 DEF OneSentAhead, HashesKept
  <2>3. SentWithHash(s)'
    BY <1>1, <2>1, WireHashesStay DEF SentWithHash
  <2> QED
    BY <1>1, <1>4, <1>7, <1>8, <2>2, <2>3 DEF HashInv
<1>10. CASE sent' = [sent EXCEPT ![s] = Append(@, packet)] /\ pc' = [pc EXCEPT ![s] = "await"]
  <2>1. sent'[s] = Append(sent[s], packet)
    BY <1>2, <1>10
  <2>2. /\ Len(sent'[s]) = n + 1
        /\ sent'[s][n + 1] = packet
        /\ \A i \in 1 .. n : sent'[s][i] = sent[s][i]
    BY <1>2, <2>1
  <2>3. packet.crc = HashAt(s, n)
    BY <1>0, StateHashIsNow DEF packet
  <2>4. HashAt(s, n)' = HashAt(s, n)
    BY DEF HashAt, Begin
  <2>5. OneSentAhead(s)'
    BY <1>0, <1>2, <1>3, <2>2 DEF OneSentAhead
  <2>6. SentWithHash(s)'
    <3>1. ASSUME NEW i \in 1 .. n + 1
          PROVE  sent'[s][i].crc = HashAt(s, i - 1)'
      <4>1. CASE i = n + 1
        <5>1. i - 1 = n
          BY <1>2, <4>1
        <5> QED
          BY <2>2, <2>3, <2>4, <4>1, <5>1
      <4>2. CASE i \in 1 .. n
        BY <1>1, <1>2, <2>2, <4>2, WireHashesStay
      <4> QED
        BY <1>2, <4>1, <4>2
    <3> QED
      BY <2>2, <3>1 DEF SentWithHash
  <2>7. HashesKept(s)'
    <3> SUFFICES ASSUME NEW g \in Nat, g < n + 1, n + 1 <= g + Ring
                 PROVE  crcs'[s][g % Ring] = HashAt(s, g)'
      BY <2>2 DEF HashesKept
    <3>1. CASE g = n
      BY <1>0, <1>6, <2>4, <3>1, StateHashIsNow
    <3>2. CASE g # n
      <4>1. g < n /\ n - g < Ring /\ n <= g + Ring
        BY <1>2, <3>2
      <4>2. g % Ring # n % Ring /\ g % Ring \in 0 .. Ring - 1
        BY <1>2, <4>1, ModDiffers, ModRange
      <4>3. crcs[s][g % Ring] = HashAt(s, g)
        BY <1>2, <4>1 DEF HashInv, HashesKept, Gone
      <4>4. HashAt(s, g)' = HashAt(s, g)
        BY <1>1, <1>2, <4>1, HashesSettled
      <4> QED
        BY <1>6, <4>2, <4>3, <4>4
    <3> QED
      BY <3>1, <3>2
  <2> QED
    BY <1>1, <1>4, <1>7, <1>8, <2>5, <2>6, <2>7 DEF HashInv
<1> QED
  BY <1>3, <1>9, <1>10

LEMMA HashReceive ==
    ASSUME HashInv, NEW s \in Sides, NEW p \in Deliverable(s), Receive(s, p)
    PROVE  HashInv'
<1> USE ParametersAssumption DEF ParametersAssumption
<1>1. [Next]_vars /\ IInv /\ IInv' /\ TypeOK
  BY InvReceive DEF HashInv, IInv, Next
<1>2. sent' = sent /\ frame' = frame /\ pc' = pc /\ crcs' = crcs
  BY DEF Receive, localVars
<1>3. ASSUME NEW t \in Sides
      PROVE  OneSentAhead(t)' /\ DriftIsPast(t)' /\ SentWithHash(t)' /\ HashesKept(t)'
  <2>1. frame[t] \in Nat
    BY <1>1 DEF TypeOK
  <2> QED
    BY <1>1, <1>2, <2>1, HashUntouched
<1>4. ASSUME NEW t \in Sides, t # s
      PROVE  FiledWithHash(t)'
  <2>1. ring'[t] = ring[t]
    BY <1>1, <1>4, ReceiveEffect
  <2> QED
    BY <1>1, <2>1, FiledHashesStay
<1>5. CASE p.session # Token
  BY <1>1, <1>3, <1>4, <1>5, ReceiveEffect, FiledHashesStay DEF HashInv
<1>6. CASE p.session = Token
  <2> DEFINE wire == sent[Other(s)]
  <2>1. wire \in Seq(Inputs) /\ Other(s) \in Sides /\ Len(wire) \in Nat
    BY <1>1, OtherSide DEF TypeOK
  <2>2. ASSUME p.seq >= Delay
        PROVE  \E g \in Nat : p.seq = g + Delay /\ p.crc = HashAt(Other(s), g)'
    <3>1. p # Garbage /\ p \notin Strays
      BY <1>6, <2>2 DEF Garbage
    <3>2. PICK i \in 1 .. Len(wire) : p = wire[i]
      BY <1>1, <3>1, DeliverableCases
    <3>3. p.seq = Delay + i - 1
      BY <1>1, <2>1, <3>2 DEF IInv, SentInOrder
    <3>4. p.crc = HashAt(Other(s), i - 1)'
      BY <1>1, <2>1, <3>2, WireHashesStay
    <3> WITNESS i - 1 \in Nat
    <3> QED
      BY <2>1, <3>3, <3>4
  <2>3. \A i \in 0 .. Ring - 1 : i # p.seq % Ring => ring'[s][i] = ring[s][i]
    BY <1>1, <1>6, ReceiveEffect
  <2>4. FiledWithHash(s)'
    <3> SUFFICES ASSUME NEW i \in 0 .. Ring - 1, ring'[s][i].valid, ring'[s][i].frame >= Delay
                 PROVE  ring'[s][i].crc = HashAt(Other(s), ring[s][i].frame - Delay)'
      BY DEF FiledWithHash
    <3>1. CASE i = p.seq % Ring
      <4>1. ring'[s][i] = [valid |-> TRUE, frame |-> p.seq, joy |-> p.joy, crc |-> p.crc]
        BY <1>1, <1>6, <3>1, ReceiveEffect
      <4>2. ring'[s][i].frame = p.seq /\ ring'[s][i].crc = p.crc
        BY <4>1
      <4>3. PICK g \in Nat : p.seq = g + Delay /\ p.crc = HashAt(Other(s), g)'
        BY <2>2, <4>2
      <4>4. ring'[s][i].frame - Delay = g
        BY <4>2, <4>3
      <4> QED
        BY <4>2, <4>3, <4>4 DEF HashAt
    <3>2. CASE i # p.seq % Ring
      <4>1. ring'[s][i] = ring[s][i]
        BY <2>3, <3>2
      <4>2. ring[s][i].frame \in Nat
        <5>1. ring \in [Sides -> [0 .. Ring - 1 -> Slots]]
          BY <1>1 DEF TypeOK
        <5> QED
          BY <5>1 DEF Slots
      <4>3. PICK g \in Nat : ring[s][i].frame = g + Delay
        <5>1. ring[s][i].frame - Delay \in Nat /\ ring[s][i].frame = (ring[s][i].frame - Delay) + Delay
          BY <4>1, <4>2
        <5> QED
          BY <5>1
      <4>4. ring[s][i].crc = HashAt(Other(s), g)'
        BY <1>1, <4>1, <4>3, WireHashesStay
      <4>5. ring'[s][i].frame - Delay = g
        BY <4>1, <4>3
      <4> QED
        BY <4>1, <4>4, <4>5 DEF HashAt
    <3> QED
      BY <3>1, <3>2
  <2> QED
    BY <1>1, <1>3, <1>4, <2>4 DEF HashInv
<1> QED
  BY <1>5, <1>6

(* Every other step leaves the packets and both rings as they are, or, when  *)
(* it plays a frame, takes one input out of the ring.                        *)
LEMMA HashOther ==
    ASSUME HashInv, [Next]_vars, sent' = sent, crcs' = crcs,
           \A t \in Sides : /\ frame'[t] >= frame[t]
                            /\ pc'[t] \in Gone \/ pc[t] \notin Gone
                            /\ \A i \in 0 .. Ring - 1 : ring'[t][i].valid => ring'[t][i] = ring[t][i]
    PROVE  HashInv'
<1>1. IInv'
  BY InvStep DEF HashInv
<1>2. ASSUME NEW t \in Sides
      PROVE  /\ OneSentAhead(t)' /\ DriftIsPast(t)' /\ SentWithHash(t)' /\ HashesKept(t)'
             /\ FiledWithHash(t)'
  <2>1. frame'[t] \in Nat
    BY <1>1 DEF IInv, TypeOK
  <2> QED
    BY <2>1, HashUntouched, FiledHashesStay
<1> QED
  BY <1>1, <1>2 DEF HashInv

LEMMA HashStep == HashInv /\ [Next]_vars => HashInv'
<1> SUFFICES ASSUME HashInv, [Next]_vars
             PROVE  HashInv'
  OBVIOUS
<1>1. TypeOK
  BY DEF HashInv, IInv
<1>2. /\ frame \in [Sides -> 0 .. MaxFrame]
      /\ pc \in [Sides -> {"emulate", "await"} \cup Gone]
  BY <1>1 DEF TypeOK
<1>3. ASSUME NEW s \in Sides, NEW raw \in Pads, NEW ok \in BOOLEAN, Begin(s, raw, ok)
      PROVE  HashInv'
  BY <1>3, HashBegin
<1>4. ASSUME NEW s \in Sides, NEW p \in Deliverable(s), Receive(s, p)
      PROVE  HashInv'
  BY <1>4, HashReceive
<1>5. ASSUME NEW s \in Sides, NEW torn \in BOOLEAN, Timeout(s, torn)
      PROVE  HashInv'
  <2>1. /\ sent' = sent /\ crcs' = crcs /\ ring' = ring /\ frame' = frame
        /\ \A t \in Sides : pc'[t] \in Gone \/ pc'[t] = pc[t]
    BY <1>2, <1>5 DEF Timeout, localVars, Gone
  <2>2. \A t \in Sides : pc'[t] = pc[t] \/ pc[t] \notin Gone
    BY <1>2, <1>5 DEF Timeout, Waiting, Gone
  <2> QED
    BY <1>2, <2>1, <2>2, HashOther
<1>6. ASSUME NEW s \in Sides, Play(s)
      PROVE  HashInv'
  <2>1. /\ sent' = sent /\ crcs' = crcs /\ pc[s] = "await"
        /\ pc' = [pc EXCEPT ![s] = "emulate"] /\ frame' = [frame EXCEPT ![s] = @ + 1]
    BY <1>6 DEF Play, localVars
  <2>2. \A t \in Sides : frame'[t] >= frame[t] /\ (pc'[t] \in Gone \/ pc[t] \notin Gone)
    BY <1>2, <2>1 DEF Gone
  <2>3. ASSUME NEW t \in Sides, NEW i \in 0 .. Ring - 1, ring'[t][i].valid
        PROVE  ring'[t][i] = ring[t][i]
    BY <1>1, <1>6, <2>3, PlayEffect
  <2> QED
    BY <2>1, <2>2, <2>3, HashOther
<1>7. ASSUME NEW s \in Sides, Disconnect(s) \/ Drift(s)
      PROVE  HashInv'
  <2>1. sent' = sent /\ crcs' = crcs /\ ring' = ring /\ frame' = frame
    BY <1>7 DEF Disconnect, Drift, localVars
  <2>2. \A t \in Sides : pc'[t] = pc[t] \/ pc[t] \notin Gone
    BY <1>2, <1>7 DEF Disconnect, Drift, Gone
  <2>3. \A t \in Sides : pc'[t] \in Gone \/ pc'[t] = pc[t]
    BY <1>2, <1>7 DEF Disconnect, Drift, Gone
  <2> QED
    BY <1>2, <2>1, <2>2, <2>3, HashOther
<1>8. CASE Over \/ UNCHANGED vars
  <2>1. sent' = sent /\ crcs' = crcs /\ ring' = ring /\ frame' = frame /\ pc' = pc
    BY <1>8 DEF Over, vars, localVars
  <2> QED
    BY <1>2, <2>1, HashOther
<1> QED
  BY <1>3, <1>4, <1>5, <1>6, <1>7, <1>8 DEF Next

LEMMA HashInvariance == Spec => []HashInv
BY HashInit, HashStep, PTL DEF Spec

(* The checksums a side compares are both for the same frame, which both     *)
(* consoles have begun: this is where the local ring must outlast the delay. *)
LEMMA SameFrameCompared ==
    ASSUME HashInv, Delay < Ring, NEW s \in Sides, Play(s), frame[s] > Delay + 2,
           NEW g \in Nat, frame[s] = g + Delay
    PROVE  /\ \A t \in Sides : g <= frame[t]
           /\ ChecksumsDiffer(s) <=> HashAt(s, g) # HashAt(Other(s), g)
<1> USE ParametersAssumption DEF ParametersAssumption
<1>1. TypeOK /\ IInv /\ OneSentAhead(Other(s)) /\ pc[s] = "await" /\ Other(s) \in Sides
  BY OtherSide DEF HashInv, IInv, Play
<1>2. /\ Len(sent[s]) = frame[s] + 1 /\ Len(sent[Other(s)]) <= frame[Other(s)] + 1
      /\ \A t \in Sides : frame[t] \in Nat /\ Len(sent[t]) \in Nat
  <2>1. frame \in [Sides -> 0 .. MaxFrame] /\ sent \in [Sides -> Seq(Inputs)]
    BY <1>1 DEF TypeOK
  <2>2. SentInOrder(s)
    BY <1>1 DEF IInv
  <2> QED
    BY <1>1, <2>1, <2>2 DEF SentInOrder, OneSentAhead
<1>3. frame[s] - Delay + 1 <= Len(sent[Other(s)])
  BY <1>1, <1>2, PlaysDue
<1>4. g <= frame[Other(s)] /\ g <= frame[s] /\ frame[s] - Delay = g
  BY <1>1, <1>2, <1>3
<1>5. crcs[s][g % Ring] = HashAt(s, g)
  <2>1. g < Len(sent[s]) /\ Len(sent[s]) <= g + Ring
    BY <1>2
  <2> QED
    BY <1>1, <2>1 DEF HashInv, HashesKept, Gone
<1>6. ring[s][frame[s] % Ring].crc = HashAt(Other(s), g)
  <2>1. ~WarmUp(s) /\ frame[s] >= Delay
    BY DEF WarmUp
  <2>2. Hit(s) /\ frame[s] % Ring \in 0 .. Ring - 1
    BY <1>1, <2>1, PlayEffect
  <2>3. ring[s][frame[s] % Ring].valid /\ ring[s][frame[s] % Ring].frame = frame[s]
    BY <2>2 DEF Hit
  <2> QED
    BY <1>4, <2>1, <2>2, <2>3 DEF HashInv, FiledWithHash
<1> QED
  BY <1>4, <1>5, <1>6, OtherSide DEF ChecksumsDiffer

(* Two sound consoles have one hash for a frame both have begun. *)
LEMMA SoundHashesAgree ==
    ASSUME HashInv, NEW s \in Sides, NEW g \in Nat, \A t \in Sides : g <= frame[t] /\ drift[t] = None
    PROVE  HashAt(s, g) = HashAt(Other(s), g)
<1>1. /\ Other(s) \in Sides /\ Agreement
      /\ \A t \in Sides : /\ played[t] \in Seq(Joys \X Joys) /\ Len(played[t]) = frame[t]
                          /\ frame[t] \in 0 .. MaxFrame
  BY OtherSide, InvAgrees DEF HashInv, IInv, TypeOK, PlayedAsSent
<1>2. \A t \in Sides :
         /\ SubSeq(played[t], 1, g) \in Seq(Joys \X Joys)
         /\ Len(SubSeq(played[t], 1, g)) = g
         /\ \A i \in 1 .. g : SubSeq(played[t], 1, g)[i] = played[t][i]
  <2> TAKE t \in Sides
  <2>1. \A i \in 1 .. g : played[t][i] \in Joys \X Joys
    <3> TAKE i \in 1 .. g
    <3>1. i \in 1 .. Len(played[t])
      BY <1>1
    <3> QED
      BY <1>1, <3>1, ElementOfSeq
  <2>2. /\ SubSeq(played[t], 1, g) \in Seq(Joys \X Joys)
        /\ Len(SubSeq(played[t], 1, g)) = IF 1 <= g THEN g - 1 + 1 ELSE 0
        /\ \A i \in 1 .. g - 1 + 1 : SubSeq(played[t], 1, g)[i] = played[t][1 + i - 1]
    BY <2>1, SubSeqProperties
  <2> QED
    BY <2>2
<1>3. \A i \in 1 .. g : played["host"][i] = played["guest"][i]
  <2> TAKE i \in 1 .. g
  <2>1. "host" \in Sides /\ "guest" \in Sides
    BY DEF Sides
  <2>2. g <= frame["host"] /\ g <= frame["guest"]
    BY <2>1
  <2>3. i \in 1 .. MaxFrame /\ i <= Len(played["host"]) /\ i <= Len(played["guest"])
    BY <1>1, <2>1, <2>2, ParametersAssumption DEF ParametersAssumption
  <2> QED
    BY <1>1, <2>3 DEF Agreement
<1>4. \A i \in 1 .. g : played[s][i] = played[Other(s)][i]
  BY <1>3 DEF Sides, Other
<1>5. SubSeq(played[s], 1, g) = SubSeq(played[Other(s)], 1, g)
  <2>1. \A i \in 1 .. g : SubSeq(played[s], 1, g)[i] = SubSeq(played[Other(s)], 1, g)[i]
    BY <1>1, <1>2, <1>4
  <2> QED
    BY <1>1, <1>2, <2>1, SeqEqual
<1> QED
  BY <1>1, <1>5 DEF HashAt

(* Only playing a frame reports anything. *)
LEMMA DesyncChange ==
    ASSUME TypeOK, [Next]_vars
    PROVE  \/ /\ UNCHANGED desync
              /\ \A t \in Sides : frame'[t] = frame[t]
           \/ \E s \in Sides :
                 /\ Play(s) /\ UNCHANGED drift
                 /\ desync'[s] = (desync[s] \/ ChecksumsDiffer(s))
                 /\ frame'[s] = frame[s] + 1
                 /\ \A t \in Sides : t # s => desync'[t] = desync[t] /\ frame'[t] = frame[t]
<1>1. desync \in [Sides -> BOOLEAN] /\ frame \in [Sides -> 0 .. MaxFrame]
  BY DEF TypeOK
<1>2. ASSUME NEW s \in Sides, Play(s)
      PROVE  /\ Play(s) /\ UNCHANGED drift
             /\ desync'[s] = (desync[s] \/ ChecksumsDiffer(s))
             /\ frame'[s] = frame[s] + 1
             /\ \A t \in Sides : t # s => desync'[t] = desync[t] /\ frame'[t] = frame[t]
  <2>1. /\ desync' = [desync EXCEPT ![s] = @ \/ ChecksumsDiffer(s)]
        /\ frame' = [frame EXCEPT ![s] = @ + 1] /\ drift' = drift
    BY <1>2 DEF Play
  <2> QED
    BY <1>1, <1>2, <2>1
<1>3. CASE \A s \in Sides : ~Play(s)
  <2>1. UNCHANGED desync /\ UNCHANGED frame
    BY <1>3 DEF Next, vars, Begin, Receive, Timeout, Disconnect, Drift, Over
  <2> QED
    BY <2>1
<1> QED
  BY <1>2, <1>3

(* For any delay the ring outlasts: a desync reported is a console drifted. *)
THEOREM DesyncsAreReal == ASSUME Delay < Ring PROVE Spec => []NoFalseDesync
<1>1. Init => NoFalseDesync
  BY DEF Init, NoFalseDesync
<1>2. HashInv /\ NoFalseDesync /\ [Next]_vars => NoFalseDesync'
  <2> SUFFICES ASSUME HashInv, NoFalseDesync, [Next]_vars, NEW u \in Sides, desync'[u],
                      \A t \in Sides : drift'[t] = None
               PROVE  FALSE
    BY DEF NoFalseDesync
  <2> USE ParametersAssumption DEF ParametersAssumption
  <2>1. TypeOK /\ \A t \in Sides : frame[t] \in Nat
    <3>1. TypeOK
      BY DEF HashInv, IInv
    <3> QED
      BY <3>1, FramesAndPackets
  <2>2. \A t \in Sides : drift[t] = None
    <3> TAKE t \in Sides
    <3> QED
      BY <2>1, HashesSettled
  <2>3. ~desync[u]
    BY <2>2 DEF NoFalseDesync
  <2>4. Play(u) /\ ChecksumsDiffer(u)
    BY <2>1, <2>3, DesyncChange
  <2>5. frame[u] > Delay + 2
    BY <2>4 DEF ChecksumsDiffer
  <2>6. frame[u] - Delay \in Nat /\ frame[u] = (frame[u] - Delay) + Delay
    BY <2>1, <2>5
  <2>7. PICK g \in Nat : frame[u] = g + Delay
    BY <2>6
  <2>8. (\A t \in Sides : g <= frame[t]) /\ HashAt(u, g) # HashAt(Other(u), g)
    BY <2>4, <2>5, <2>7, SameFrameCompared
  <2> QED
    BY <2>2, <2>8, SoundHashesAgree
<1> QED
  BY <1>1, <1>2, HashInvariance, PTL DEF Spec

(* For any delay the ring outlasts: the side that plays the frame on which a *)
(* lone drift comes due reports it.                                          *)
THEOREM DriftsAreReported == ASSUME Delay < Ring PROVE Spec => []DesyncNoticed
<1>1. Init => DesyncNoticed
  BY ParametersAssumption DEF Init, DesyncNoticed, ParametersAssumption
<1>2. HashInv /\ DesyncNoticed /\ [Next]_vars => DesyncNoticed'
  <2> SUFFICES ASSUME HashInv, DesyncNoticed, [Next]_vars,
                      NEW s \in Sides, NEW t \in Sides, NEW d \in 0 .. MaxFrame,
                      drift'[t] = d, frame'[s] > d + Delay, frame'[s] > Delay + 3,
                      drift'[Other(t)] = None, ~desync'[s]
               PROVE  FALSE
    BY DEF DesyncNoticed
  <2> USE ParametersAssumption DEF ParametersAssumption
  <2>1. /\ TypeOK /\ \A u \in Sides : frame[u] \in Nat
        /\ Other(t) \in Sides /\ Other(s) \in Sides /\ Other(t) # t
    <3>1. TypeOK
      BY DEF HashInv, IInv
    <3> QED
      BY <3>1, FramesAndPackets, OtherSide
  <2>2. drift[Other(t)] = None
    BY <2>1, HashesSettled
  <2>3. CASE drift[t] = d
    <3>1. ~(frame[s] > d + Delay /\ frame[s] > Delay + 3 /\ desync[s] = FALSE)
      BY <2>2, <2>3 DEF DesyncNoticed
    <3>2. Play(s) /\ ~desync[s] /\ ~ChecksumsDiffer(s) /\ frame'[s] = frame[s] + 1
      <4>1. desync[s] \in BOOLEAN
        BY <2>1 DEF TypeOK
      <4> QED
        BY <2>1, <2>2, <2>3, <4>1, DesyncChange DEF DesyncNoticed
    <3>3. frame[s] >= d + Delay /\ frame[s] > Delay + 2
      BY <2>1, <3>2
    <3>4. PICK g \in Nat : frame[s] = g + Delay
      <4>1. frame[s] - Delay \in Nat /\ frame[s] = (frame[s] - Delay) + Delay
        BY <2>1, <3>3
      <4> QED
        BY <4>1
    <3>5. d <= g /\ d # None
      BY <3>3, <3>4
    <3>6. HashAt(s, g) = HashAt(Other(s), g)
      BY <3>2, <3>3, <3>4, SameFrameCompared
    <3>7. HashAt(t, g)[1] = t /\ HashAt(Other(t), g)[1] = "sound"
      BY <2>2, <2>3, <3>5 DEF HashAt
    <3>8. HashAt(t, g) = HashAt(Other(t), g)
      BY <3>6, OtherSide
    <3> QED
      BY <3>7, <3>8 DEF Sides
  <2>4. CASE drift[t] # d
    <3>1. pc[t] = "emulate" /\ drift[t] = None /\ d = frame[t] /\ drift'[t] # drift[t]
      BY <2>4, HashesSettled
    <3>2. \A u \in Sides : frame'[u] = frame[u]
      BY <2>1, <3>1, DesyncChange
    <3>3. Len(sent[t]) = frame[t]
      BY <3>1 DEF HashInv, IInv, SentInOrder
    <3>4. frame[s] > frame[t] + Delay
      BY <3>1, <3>2
    <3>5. s = Other(t)
      BY <2>1, <3>4, OtherSide
    <3>6. frame[s] - Delay <= Len(sent[t])
      <4>1. PlayedAsSent(s) /\ Other(s) = t
        BY <3>5, OtherSide DEF HashInv, IInv
      <4>2. frame[s] - 1 \in 0 .. frame[s] - 1 /\ frame[s] - 1 >= Delay
        BY <2>1, <3>4
      <4>3. (frame[s] - 1) - Delay + 1 <= Len(sent[t])
        BY <4>1, <4>2 DEF PlayedAsSent
      <4> QED
        BY <2>1, <3>3, <4>3
    <3> QED
      BY <2>1, <3>3, <3>4, <3>6
  <2> QED
    BY <2>3, <2>4
<1> QED
  BY <1>1, <1>2, HashInvariance, PTL DEF Spec

-----------------------------------------------------------------------------
(* What a stream still owes.  A side has read at least up to the input it    *)
(* has filed, and up to every frame it has played.                           *)

ReadAlong(s) ==
    /\ 2 * frame[s] <= read[s] + 2 * Delay
    /\ \A i \in 0 .. Ring - 1 :
          ring[s][i].valid /\ ring[s][i].frame >= Delay
              => 2 * (ring[s][i].frame + 1) <= read[s] + 2 * Delay

ReadInv == HashInv /\ (Transport = "stream" => \A s \in Sides : ReadAlong(s))

(* A stream hands over the peer's next packet, or garbage. *)
LEMMA StreamDelivers ==
    ASSUME HashInv, Transport = "stream", NEW s \in Sides, NEW p \in Deliverable(s)
    PROVE  \/ p = Garbage /\ read[s] % 2 # 0
           \/ /\ p.session = Token /\ p.seq \in Nat /\ 2 * p.seq = 2 * Delay + read[s]
              /\ read[s] % 2 = 0
<1> USE ParametersAssumption DEF ParametersAssumption
<1> DEFINE wire == sent[Other(s)]
<1>1. read[s] \in Nat /\ wire \in Seq(Inputs) /\ Len(wire) \in Nat
  BY OtherSide DEF HashInv, IInv, TypeOK
<1>2. CASE read[s] % 2 = 0
  <2> DEFINE i == read[s] \div 2 + 1
  <2>1. p = wire[i] /\ 2 * Len(wire) - read[s] >= 2
    BY <1>1, <1>2 DEF Deliverable, Unread
  <2>2. i \in 1 .. Len(wire) /\ 2 * i = read[s] + 2
    BY <1>1, <1>2, <2>1
  <2> HIDE DEF i
  <2>3. p \in Inputs
    BY <1>1, <2>1, <2>2
  <2>4. SentInOrder(Other(s))
    BY OtherSide DEF HashInv, IInv
  <2>5. p.seq = Delay + i - 1
    BY <2>1, <2>2, <2>4 DEF SentInOrder
  <2>6. p.session = Token /\ p.seq \in Nat
    BY <2>3 DEF Inputs
  <2>7. 2 * p.seq = 2 * Delay + read[s]
    BY <1>1, <2>2, <2>5, <2>6
  <2> QED
    BY <1>2, <2>6, <2>7
<1>3. CASE read[s] % 2 # 0
  BY <1>3 DEF Deliverable
<1> QED
  BY <1>2, <1>3

(* The rings, frames and stream positions of a step that neither receives    *)
(* nor plays; a torn read moves the position alone.                          *)
LEMMA IdleEffect ==
    ASSUME TypeOK, [Next]_vars,
           \A s \in Sides : ~Play(s) /\ \A p \in Deliverable(s) : ~Receive(s, p)
    PROVE  /\ ring' = ring /\ frame' = frame
           /\ \A t \in Sides : read'[t] \in Nat /\ read'[t] >= read[t]
           /\ ~Torn => read' = read
<1>1. read \in [Sides -> Nat]
  BY DEF TypeOK
<1>2. ASSUME NEW s \in Sides, NEW torn \in BOOLEAN, Timeout(s, torn)
      PROVE  /\ ring' = ring /\ frame' = frame
             /\ \A t \in Sides : read'[t] \in Nat /\ read'[t] >= read[t]
             /\ ~Torn => read' = read
  <2>1. ring' = ring /\ frame' = frame /\ read' = [read EXCEPT ![s] = IF torn THEN @ + 1 ELSE @]
    BY <1>2 DEF Timeout
  <2>2. ~Torn => torn = FALSE
    BY <1>2 DEF Timeout
  <2> QED
    BY <1>1, <2>1, <2>2
<1>3. ASSUME \A s \in Sides, torn \in BOOLEAN : ~Timeout(s, torn)
      PROVE  UNCHANGED <<ring, frame, read>>
  BY <1>3 DEF Next, vars, Begin, Disconnect, Drift, Over
<1> QED
  BY <1>1, <1>2, <1>3

LEMMA PlayFrames ==
    ASSUME TypeOK, NEW s \in Sides, Play(s)
    PROVE  /\ read' = read /\ frame'[s] = frame[s] + 1
           /\ \A t \in Sides : t # s => frame'[t] = frame[t]
<1>1. frame \in [Sides -> 0 .. MaxFrame] /\ frame' = [frame EXCEPT ![s] = @ + 1] /\ read' = read
  BY DEF TypeOK, Play
<1> QED
  BY <1>1

LEMMA ReadInit == Init => ReadInv
<1> SUFFICES ASSUME Init, NEW s \in Sides PROVE ReadAlong(s)
  BY HashInit DEF ReadInv
<1>1. /\ frame[s] = 0 /\ read[s] = 0 /\ ring[s] = [i \in 0 .. Ring - 1 |-> EmptySlot]
  BY DEF Init
<1> QED
  BY <1>1, ParametersAssumption DEF ReadAlong, EmptySlot, ParametersAssumption

LEMMA ReadStep == ReadInv /\ [Next]_vars => ReadInv'
<1> USE ParametersAssumption DEF ParametersAssumption
<1> SUFFICES ASSUME ReadInv, [Next]_vars, Transport = "stream", NEW t \in Sides
             PROVE  ReadAlong(t)'
  BY HashStep DEF ReadInv
<1>1. TypeOK /\ HashInv /\ ReadAlong(t)
  BY DEF ReadInv, HashInv, IInv
<1>2. /\ frame[t] \in Nat /\ read[t] \in Nat
      /\ \A i \in 0 .. Ring - 1 : ring[t][i].frame \in Nat
  <2>1. read \in [Sides -> Nat] /\ ring \in [Sides -> [0 .. Ring - 1 -> Slots]]
    BY <1>1 DEF TypeOK
  <2> QED
    BY <1>1, <2>1, FramesAndPackets DEF Slots
<1>3. ASSUME NEW s \in Sides, NEW p \in Deliverable(s), Receive(s, p)
      PROVE  ReadAlong(t)'
  <2>1. frame' = frame
    BY <1>3 DEF Receive
  <2>2. CASE t # s
    <3>1. ring'[t] = ring[t] /\ read'[t] = read[t]
      BY <1>1, <1>3, <2>2, ReceiveEffect
    <3> QED
      BY <1>1, <2>1, <3>1 DEF ReadAlong
  <2>3. CASE t = s
    <3>1. read'[s] = read[s] + 2
      BY <1>1, <1>3, ReceiveEffect
    <3>2. ASSUME NEW i \in 0 .. Ring - 1, ring'[s][i].valid, ring'[s][i].frame >= Delay
          PROVE  2 * (ring'[s][i].frame + 1) <= read'[s] + 2 * Delay
      <4>1. CASE ring'[s][i] = ring[s][i]
        BY <1>1, <1>2, <2>3, <3>1, <3>2, <4>1 DEF ReadAlong
      <4>2. CASE ring'[s][i] # ring[s][i]
        <5>1. p.session = Token /\ ring'[s][i].frame = p.seq
          <6>1. p.session = Token
            BY <1>1, <1>3, <4>2, ReceiveEffect
          <6>2. ring'[s][i] = [valid |-> TRUE, frame |-> p.seq, joy |-> p.joy, crc |-> p.crc]
            BY <1>1, <1>3, <4>2, <6>1, ReceiveEffect
          <6> QED
            BY <6>1, <6>2
        <5>2. p.seq \in Nat /\ 2 * p.seq = 2 * Delay + read[s]
          BY <1>1, <5>1, StreamDelivers DEF Garbage
        <5> QED
          BY <1>2, <2>3, <3>1, <5>1, <5>2
      <4> QED
        BY <4>1, <4>2
    <3> QED
      BY <1>1, <1>2, <2>1, <2>3, <3>1, <3>2 DEF ReadAlong
  <2> QED
    BY <2>2, <2>3
<1>4. ASSUME NEW s \in Sides, Play(s)
      PROVE  ReadAlong(t)'
  <2>1. read' = read
    BY <1>1, <1>4, PlayFrames
  <2>2. \A i \in 0 .. Ring - 1 : ring'[t][i].valid => ring'[t][i] = ring[t][i]
    BY <1>1, <1>4, PlayEffect
  <2>3. CASE t # s
    <3>1. frame'[t] = frame[t]
      BY <1>1, <1>4, <2>3, PlayFrames
    <3> QED
      BY <1>1, <2>1, <2>2, <3>1 DEF ReadAlong
  <2>4. CASE t = s
    <3>1. frame'[s] = frame[s] + 1
      BY <1>1, <1>4, PlayFrames
    <3>2. 2 * (frame[s] + 1) <= read[s] + 2 * Delay
      <4>1. CASE WarmUp(s)
        BY <1>2, <2>4, <4>1 DEF WarmUp
      <4>2. CASE ~WarmUp(s)
        <5>1. Hit(s) /\ frame[s] % Ring \in 0 .. Ring - 1
          BY <1>1, <1>4, <4>2, PlayEffect
        <5> QED
          BY <1>1, <1>2, <2>4, <4>2, <5>1 DEF WarmUp, Hit, ReadAlong
      <4> QED
        BY <4>1, <4>2
    <3> QED
      BY <1>1, <2>1, <2>2, <2>4, <3>1, <3>2 DEF ReadAlong
  <2> QED
    BY <2>3, <2>4
<1>5. CASE \A s \in Sides : ~Play(s) /\ \A p \in Deliverable(s) : ~Receive(s, p)
  <2>1. ring' = ring /\ frame' = frame /\ read'[t] \in Nat /\ read'[t] >= read[t]
    BY <1>1, <1>5, IdleEffect
  <2> QED
    BY <1>1, <1>2, <2>1 DEF ReadAlong
<1> QED
  BY <1>3, <1>4, <1>5

LEMMA ReadInvariance == Spec => []ReadInv
BY ReadInit, ReadStep, PTL DEF Spec

(* A side can have begun no frame more than Delay past the peer's packets. *)
LEMMA FrameLead ==
    ASSUME HashInv, NEW s \in Sides
    PROVE  frame[s] <= Len(sent[Other(s)]) + Delay
<1> USE ParametersAssumption DEF ParametersAssumption
<1>1. PlayedAsSent(s) /\ frame[s] \in Nat /\ Len(sent[Other(s)]) \in Nat
  BY OtherSide, FramesAndPackets DEF HashInv, IInv
<1>2. CASE frame[s] <= Delay
  BY <1>1, <1>2
<1>3. CASE frame[s] > Delay
  <2>1. frame[s] - 1 \in 0 .. frame[s] - 1 /\ frame[s] - 1 >= Delay
    BY <1>1, <1>3
  <2>2. (frame[s] - 1) - Delay + 1 <= Len(sent[Other(s)])
    BY <1>1, <2>1 DEF PlayedAsSent
  <2> QED
    BY <1>1, <2>2
<1> QED
  BY <1>1, <1>2, <1>3

LEMMA BacklogArithmetic ==
    ASSUME NEW f \in Nat, NEW g \in Nat, NEW a \in Nat, NEW b \in Nat, NEW r \in Nat,
           a <= f + 1, b <= g + 1, g <= a + Delay, 2 * f <= r + 2 * Delay
    PROVE  2 * b - r <= 2 * (2 * Delay + 2)
BY ParametersAssumption DEF ParametersAssumption

(* For any delay and any moments of leaving: a stream never holds more than  *)
(* 2 * Delay + 2 packets that its reader has not taken.                      *)
THEOREM BacklogStaysBounded == Spec => []BacklogBounded
<1>1. ReadInv => BacklogBounded
  <2> USE ParametersAssumption DEF ParametersAssumption
  <2> SUFFICES ASSUME ReadInv, NEW s \in Sides, Transport = "stream"
               PROVE  Unread(s) <= 2 * (2 * Delay + 2)
    BY DEF BacklogBounded
  <2>1. HashInv /\ TypeOK /\ ReadAlong(s) /\ Other(s) \in Sides /\ Other(Other(s)) = s
    BY OtherSide DEF ReadInv, HashInv, IInv
  <2>2. /\ frame[s] \in Nat /\ frame[Other(s)] \in Nat
        /\ Len(sent[s]) \in Nat /\ Len(sent[Other(s)]) \in Nat /\ read[s] \in Nat
    <3>1. read[s] \in Nat
      BY <2>1 DEF TypeOK
    <3> QED
      BY <2>1, <3>1, FramesAndPackets
  <2>3. Len(sent[s]) <= frame[s] + 1 /\ Len(sent[Other(s)]) <= frame[Other(s)] + 1
    BY <2>1 DEF HashInv, OneSentAhead
  <2>4. frame[Other(s)] <= Len(sent[s]) + Delay
    BY <2>1, FrameLead
  <2>5. 2 * frame[s] <= read[s] + 2 * Delay
    BY <2>1 DEF ReadAlong
  <2>6. Unread(s) = 2 * Len(sent[Other(s)]) - read[s]
    BY DEF Unread
  <2>7. 2 * Len(sent[Other(s)]) - read[s] <= 2 * (2 * Delay + 2)
    BY <2>2, <2>3, <2>4, <2>5, BacklogArithmetic
  <2> QED
    BY <2>6, <2>7
<1> QED
  BY <1>1, ReadInvariance, PTL

-----------------------------------------------------------------------------
(* A stream that is never torn.  At most one input is filed, the one for the *)
(* frame in hand, and the position says how far the reader has got.          *)

Whole == Transport = "stream" /\ ~Torn

OneFiled(s) ==
    /\ \A i \in 0 .. Ring - 1 : ring[s][i].valid => i = frame[s] % Ring /\ Hit(s)
    /\ frame[s] < Delay => ~Hit(s) /\ read[s] = 0
    /\ frame[s] >= Delay =>
          read[s] + 2 * Delay = IF Hit(s) THEN 2 * frame[s] + 2 ELSE 2 * frame[s]

FiledInv == HashInv /\ (Whole => \A s \in Sides : OneFiled(s))

(* Nothing is received over an input that is filed. *)
LEMMA WholeReceive ==
    ASSUME FiledInv, Whole, NEW s \in Sides, NEW p \in Deliverable(s), Receive(s, p)
    PROVE  /\ \A i \in 0 .. Ring - 1 : ~ring[s][i].valid
           /\ \A i \in 0 .. Ring - 1 : ring'[s][i].valid => i = frame[s] % Ring
           /\ Hit(s)'
           /\ read'[s] + 2 * Delay = 2 * frame[s] + 2
           /\ frame[s] >= Delay
<1> USE ParametersAssumption DEF ParametersAssumption
<1>1. OneFiled(s) /\ HashInv /\ TypeOK /\ frame[s] \in Nat /\ read[s] \in Nat
  <2>1. TypeOK
    BY DEF FiledInv, HashInv, IInv
  <2>2. read \in [Sides -> Nat]
    BY <2>1 DEF TypeOK
  <2> QED
    BY <2>1, <2>2, FramesAndPackets DEF FiledInv
<1>2. ~Hit(s) /\ ~WarmUp(s) /\ frame' = frame
  BY DEF Receive, Waiting
<1>3. frame[s] >= Delay /\ read[s] + 2 * Delay = 2 * frame[s] /\ \A i \in 0 .. Ring - 1 : ~ring[s][i].valid
  BY <1>1, <1>2 DEF WarmUp, OneFiled
<1>4. read[s] % 2 = 0
  BY <1>1, <1>3
<1>5. p.session = Token /\ p.seq = frame[s]
  BY <1>1, <1>3, <1>4, StreamDelivers DEF Whole
<1>6. frame[s] % Ring \in 0 .. Ring - 1
  BY <1>1, ModRange
<1>7. \A i \in 0 .. Ring - 1 :
         ring'[s][i] = IF i = frame[s] % Ring
                       THEN [valid |-> TRUE, frame |-> p.seq, joy |-> p.joy, crc |-> p.crc]
                       ELSE ring[s][i]
  BY <1>1, <1>5, ReceiveEffect
<1>8. ring'[s][frame[s] % Ring].valid /\ ring'[s][frame[s] % Ring].frame = frame[s]
  BY <1>5, <1>6, <1>7
<1>9. Hit(s)'
  BY <1>2, <1>8 DEF Hit
<1>10. read'[s] = read[s] + 2
  BY <1>1, ReceiveEffect DEF Whole
<1> QED
  BY <1>1, <1>3, <1>7, <1>9, <1>10

LEMMA FiledInit == Init => FiledInv
<1> SUFFICES ASSUME Init, NEW s \in Sides PROVE OneFiled(s)
  BY HashInit DEF FiledInv
<1> USE ParametersAssumption DEF ParametersAssumption
<1>1. /\ frame[s] = 0 /\ read[s] = 0 /\ ring[s] = [i \in 0 .. Ring - 1 |-> EmptySlot]
      /\ 0 % Ring \in 0 .. Ring - 1
  BY ModRange DEF Init
<1>2. ~Hit(s)
  BY <1>1 DEF Hit, EmptySlot
<1> QED
  BY <1>1, <1>2 DEF OneFiled, EmptySlot

LEMMA FiledStep == FiledInv /\ [Next]_vars => FiledInv'
<1> USE ParametersAssumption DEF ParametersAssumption
<1> SUFFICES ASSUME FiledInv, [Next]_vars, Whole, NEW t \in Sides
             PROVE  OneFiled(t)'
  BY HashStep DEF FiledInv, Whole
<1>1. TypeOK /\ OneFiled(t)
  BY DEF FiledInv, HashInv, IInv
<1>2. frame[t] \in Nat /\ read[t] \in Nat
  <2>1. read \in [Sides -> Nat]
    BY <1>1 DEF TypeOK
  <2> QED
    BY <1>1, <2>1, FramesAndPackets
<1>3. ASSUME ring'[t] = ring[t], frame'[t] = frame[t], read'[t] = read[t]
      PROVE  OneFiled(t)'
  BY <1>1, <1>3 DEF OneFiled, Hit
<1>4. ASSUME NEW s \in Sides, NEW p \in Deliverable(s), Receive(s, p)
      PROVE  OneFiled(t)'
  <2>1. frame' = frame
    BY <1>4 DEF Receive
  <2>2. CASE t # s
    BY <1>1, <1>3, <1>4, <2>1, <2>2, ReceiveEffect
  <2>3. CASE t = s
    BY <1>2, <1>4, <2>1, <2>3, WholeReceive DEF OneFiled
  <2> QED
    BY <2>2, <2>3
<1>5. ASSUME NEW s \in Sides, Play(s)
      PROVE  OneFiled(t)'
  <2>1. read' = read
    BY <1>1, <1>5, PlayFrames
  <2>2. CASE t # s
    BY <1>1, <1>3, <1>5, <2>1, <2>2, PlayFrames, PlayEffect
  <2>3. CASE t = s
    <3>1. frame'[s] = frame[s] + 1
      BY <1>1, <1>5, PlayFrames
    <3>2. \A i \in 0 .. Ring - 1 : ~ring'[s][i].valid
      <4>1. CASE WarmUp(s)
        <5>1. ring'[s] = ring[s] /\ ~Hit(s)
          BY <1>1, <1>5, <2>3, <4>1, PlayEffect DEF WarmUp, OneFiled
        <5> QED
          BY <1>1, <2>3, <5>1 DEF OneFiled
      <4>2. CASE ~WarmUp(s)
        <5>1. /\ ~ring'[s][frame[s] % Ring].valid
              /\ \A i \in 0 .. Ring - 1 : i # frame[s] % Ring => ring'[s][i] = ring[s][i]
          BY <1>1, <1>5, <4>2, PlayEffect
        <5> QED
          BY <1>1, <2>3, <5>1 DEF OneFiled
      <4> QED
        BY <4>1, <4>2
    <3>3. ~Hit(s)'
      <4>1. frame'[s] % Ring \in 0 .. Ring - 1
        BY <1>2, <2>3, <3>1, ModRange
      <4> QED
        BY <3>2, <4>1 DEF Hit
    <3>4. CASE WarmUp(s)
      BY <1>1, <1>2, <2>1, <2>3, <3>1, <3>2, <3>3, <3>4 DEF WarmUp, OneFiled
    <3>5. CASE ~WarmUp(s)
      <4>1. Hit(s)
        BY <1>1, <1>5, <3>5, PlayEffect
      <4>2. read[s] + 2 * Delay = 2 * frame[s] + 2 /\ frame[s] >= Delay
        BY <1>1, <1>2, <2>3, <3>5, <4>1 DEF WarmUp, OneFiled
      <4> QED
        BY <1>2, <2>1, <2>3, <3>1, <3>2, <3>3, <4>2 DEF OneFiled
    <3> QED
      BY <3>4, <3>5
  <2> QED
    BY <2>2, <2>3
<1>6. CASE \A s \in Sides : ~Play(s) /\ \A p \in Deliverable(s) : ~Receive(s, p)
  BY <1>1, <1>3, <1>6, IdleEffect DEF Whole
<1> QED
  BY <1>4, <1>5, <1>6

LEMMA FiledInvariance == Spec => []FiledInv
BY FiledInit, FiledStep, PTL DEF Spec

(* On a stream that is never torn, an input filed stays until its frame is   *)
(* played.                                                                   *)
THEOREM FiledInputsAreKept == ASSUME Whole PROVE Spec => FiledInputKept
<1>1. FiledInv /\ [Next]_vars =>
        [\A s \in Sides, i \in 0 .. Ring - 1 :
            ring[s][i].valid /\ ring'[s][i] # ring[s][i]
                => frame'[s] = ring[s][i].frame + 1]_vars
  <2> SUFFICES ASSUME FiledInv, [Next]_vars, NEW t \in Sides, NEW i \in 0 .. Ring - 1,
                      ring[t][i].valid, ring'[t][i] # ring[t][i]
               PROVE  frame'[t] = ring[t][i].frame + 1
    OBVIOUS
  <2>1. TypeOK /\ OneFiled(t)
    BY DEF FiledInv, HashInv, IInv
  <2>2. i = frame[t] % Ring /\ ring[t][i].frame = frame[t]
    BY <2>1 DEF OneFiled, Hit
  <2>3. ASSUME NEW s \in Sides, NEW p \in Deliverable(s), Receive(s, p)
        PROVE  FALSE
    <3>1. t = s
      BY <2>1, <2>3, ReceiveEffect
    <3> QED
      BY <2>3, <3>1, WholeReceive
  <2>4. ASSUME NEW s \in Sides, Play(s)
        PROVE  frame'[t] = ring[t][i].frame + 1
    BY <2>1, <2>2, <2>4, PlayEffect, PlayFrames
  <2>5. CASE \A s \in Sides : ~Play(s) /\ \A p \in Deliverable(s) : ~Receive(s, p)
    BY <2>1, <2>5, IdleEffect
  <2> QED
    BY <2>3, <2>4, <2>5
<1> QED
  BY <1>1, FiledInvariance, PTL DEF Spec, FiledInputKept

-----------------------------------------------------------------------------
(* Patience.  Two sides are never waiting with nothing on its way to either, *)
(* so while no one has left every timeout strikes with input on its way.     *)

PatienceCounts ==
    \/ \E s \in Sides : pc[s] = "left"
    \/ Patience <= hitches
    \/ \A s \in Sides : pc[s] # "lost" /\ Patience <= patience[s] + hitches

PatientInv == FiledInv /\ PatienceCounts

LEMMA BehindArithmetic ==
    ASSUME NEW f \in Nat, NEW g \in Nat, NEW r \in Nat,
           r + 2 * Delay = 2 * f, 2 * (g + 1) - r < 2
    PROVE  g + Delay < f
BY ParametersAssumption DEF ParametersAssumption

(* A wait that is quiet is a wait for a side that is gone. *)
LEMMA QuietIsGone ==
    ASSUME FiledInv, Transport = "udp" \/ ~Torn, NEW s \in Sides, Waiting(s), Quiet(s)
    PROVE  pc[Other(s)] \in Gone
<1> USE ParametersAssumption DEF ParametersAssumption
<1> SUFFICES ASSUME Waiting(Other(s)), Deliverable(s) = {}, Deliverable(Other(s)) = {}
             PROVE  FALSE
  BY DEF Quiet
<1>1. TypeOK /\ Other(s) \in Sides /\ Other(Other(s)) = s
  BY OtherSide DEF FiledInv, HashInv, IInv
<1>2. /\ frame[s] \in Nat /\ frame[Other(s)] \in Nat
      /\ Len(sent[s]) = frame[s] + 1 /\ Len(sent[Other(s)]) = frame[Other(s)] + 1
      /\ frame[s] >= Delay /\ frame[Other(s)] >= Delay
  <2>1. SentInOrder(s) /\ SentInOrder(Other(s))
    BY <1>1 DEF FiledInv, HashInv, IInv
  <2>2. frame[s] \in Nat /\ frame[Other(s)] \in Nat
    BY <1>1, FramesAndPackets
  <2> QED
    BY <2>1, <2>2 DEF SentInOrder, Waiting, WarmUp
<1>3. CASE Transport = "udp"
  <2>1. 1 \in 1 .. Len(sent[Other(s)])
    BY <1>2
  <2>2. sent[Other(s)][1] \in Deliverable(s)
    BY <1>3, <2>1 DEF Deliverable
  <2> QED
    BY <2>2
<1>4. CASE Transport # "udp"
  <2>1. OneFiled(s) /\ OneFiled(Other(s))
    BY <1>1, <1>4 DEF FiledInv, Whole
  <2>2. /\ read[s] + 2 * Delay = 2 * frame[s]
        /\ read[Other(s)] + 2 * Delay = 2 * frame[Other(s)]
    BY <1>2, <2>1 DEF OneFiled, Waiting
  <2>3. read[s] \in Nat /\ read[Other(s)] \in Nat
    BY <1>1 DEF TypeOK
  <2>4. Unread(s) < 2 /\ Unread(Other(s)) < 2
    BY <1>4 DEF Deliverable
  <2>5. Unread(s) = 2 * Len(sent[Other(s)]) - read[s] /\ Unread(Other(s)) = 2 * Len(sent[s]) - read[Other(s)]
    BY <1>1 DEF Unread
  <2> HIDE DEF Unread
  <2>6. frame[Other(s)] + Delay < frame[s]
    BY <1>2, <2>2, <2>3, <2>4, <2>5, BehindArithmetic
  <2>7. frame[s] + Delay < frame[Other(s)]
    BY <1>2, <2>2, <2>3, <2>4, <2>5, BehindArithmetic
  <2> QED
    BY <1>2, <2>6, <2>7
<1> QED
  BY <1>3, <1>4

(* Timeouts that strike while input is on its way are counted, and a side is *)
(* given up only when Patience of them have struck, unless someone has left. *)
LEMMA PatienceStep ==
    ASSUME Hitches # None, Transport = "udp" \/ ~Torn, PatientInv, [Next]_vars
    PROVE  PatientInv'
<1> USE ParametersAssumption DEF ParametersAssumption
<1>1. FiledInv' /\ TypeOK
  BY FiledStep DEF PatientInv, FiledInv, HashInv, IInv
<1>2. /\ pc \in [Sides -> {"emulate", "await"} \cup Gone]
      /\ patience \in [Sides -> 0 .. Patience] /\ hitches \in Nat
  BY <1>1 DEF TypeOK
<1>3. ASSUME NEW s \in Sides, NEW raw \in Pads, NEW ok \in BOOLEAN, Begin(s, raw, ok)
      PROVE  PatienceCounts'
  <2>1. /\ pc[s] = "emulate"
        /\ pc' = [pc EXCEPT ![s] = "await"] \/ pc' = [pc EXCEPT ![s] = "left"]
        /\ patience' = [patience EXCEPT ![s] = Patience] /\ hitches' = hitches
    BY <1>3 DEF Begin
  <2>2. CASE pc' = [pc EXCEPT ![s] = "left"]
    BY <1>2, <2>2 DEF PatienceCounts
  <2>3. CASE pc' = [pc EXCEPT ![s] = "await"]
    BY <1>2, <2>1, <2>3 DEF PatientInv, PatienceCounts
  <2> QED
    BY <2>1, <2>2, <2>3
<1>4. ASSUME NEW s \in Sides, NEW torn \in BOOLEAN, Timeout(s, torn)
      PROVE  PatienceCounts'
  <2>1. /\ Waiting(s) /\ pc[s] = "await" /\ patience' = [patience EXCEPT ![s] = @ - 1]
        /\ pc' = IF patience[s] = 1 THEN [pc EXCEPT ![s] = "lost"] ELSE pc
        /\ hitches' = IF ~Quiet(s) THEN hitches + 1 ELSE hitches
    BY <1>4 DEF Timeout, Waiting, LastChance, Counted
  <2>2. patience[s] \in 1 .. Patience
    BY <1>1, <1>2, <2>1 DEF TypeOK
  <2>3. CASE \E t \in Sides : pc[t] = "left"
    BY <1>2, <2>1, <2>3 DEF PatienceCounts
  <2>4. CASE Patience <= hitches
    BY <1>2, <2>1, <2>4 DEF PatienceCounts
  <2>5. CASE /\ \A t \in Sides : pc[t] # "left"
             /\ \A t \in Sides : pc[t] # "lost" /\ Patience <= patience[t] + hitches
    <3>1. ~Quiet(s)
      BY <2>1, <2>5, QuietIsGone, OtherSide DEF PatientInv, Gone
    <3>2. /\ hitches' = hitches + 1 /\ patience'[s] = patience[s] - 1
          /\ \A t \in Sides : t # s => patience'[t] = patience[t]
      BY <1>2, <2>1, <3>1
    <3>3. CASE patience[s] = 1
      BY <1>2, <2>5, <3>2, <3>3 DEF PatienceCounts
    <3>4. CASE patience[s] # 1
      <4>1. \A t \in Sides : pc'[t] # "lost" /\ Patience <= patience'[t] + hitches'
        BY <1>2, <2>1, <2>2, <2>5, <3>2, <3>4
      <4> QED
        BY <4>1 DEF PatienceCounts
    <3> QED
      BY <3>3, <3>4
  <2> QED
    BY <2>3, <2>4, <2>5 DEF PatientInv, PatienceCounts
<1>5. ASSUME NEW s \in Sides, Play(s) \/ Disconnect(s)
      PROVE  PatienceCounts'
  <2>1. /\ patience' = patience /\ hitches' = hitches /\ pc[s] \in {"await", "emulate"}
        /\ pc' = [pc EXCEPT ![s] = "emulate"] \/ pc' = [pc EXCEPT ![s] = "left"]
    BY <1>5 DEF Play, Disconnect
  <2> QED
    BY <1>2, <2>1 DEF PatientInv, PatienceCounts
<1>6. ASSUME UNCHANGED <<pc, patience, hitches>>
      PROVE  PatienceCounts'
  BY <1>6 DEF PatientInv, PatienceCounts
<1>7. ASSUME NEW s \in Sides, NEW p \in Deliverable(s), Receive(s, p)
      PROVE  PatienceCounts'
  BY <1>6, <1>7 DEF Receive
<1>8. ASSUME NEW s \in Sides, Drift(s)
      PROVE  PatienceCounts'
  BY <1>6, <1>8 DEF Drift
<1>9. CASE Over \/ UNCHANGED vars
  BY <1>1, <1>6, <1>9 DEF Over, vars, PatientInv
<1> QED
  BY <1>1, <1>3, <1>4, <1>5, <1>7, <1>8, <1>9 DEF Next, PatientInv

(* Late packets are forgiven up to the patience of one wait, over UDP and    *)
(* over a stream that is never torn.  (A torn stream is the finding of the   *)
(* run lockstep_torn: there the peer is lost with no timeout at fault.)      *)
THEOREM LatenessIsForgiven ==
    ASSUME Hitches # None, Transport = "udp" \/ ~Torn
    PROVE  Spec => []LatePacketsSurvived
<1>1. Init => PatientInv
  <2>1. Init => PatienceCounts
    BY ParametersAssumption DEF Init, PatienceCounts, ParametersAssumption
  <2> QED
    BY <2>1, FiledInit DEF PatientInv
<1>2. PatientInv /\ [Next]_vars => PatientInv'
  BY PatienceStep
<1>3. PatientInv => LatePacketsSurvived
  <2> SUFFICES ASSUME PatientInv, NEW s \in Sides, pc[s] = "lost"
               PROVE  hitches >= Patience \/ \E t \in Sides : pc[t] = "left"
    BY DEF LatePacketsSurvived
  <2>1. hitches \in Nat
    BY DEF PatientInv, FiledInv, HashInv, IInv, TypeOK
  <2> QED
    BY <2>1, ParametersAssumption DEF PatientInv, PatienceCounts, ParametersAssumption
<1> QED
  BY <1>1, <1>2, <1>3, PTL DEF Spec
=============================================================================
