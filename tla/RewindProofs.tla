---------------------------- MODULE RewindProofs ----------------------------
(***************************************************************************)
(* Proofs about Rewind, for any number of slots, any interval and any      *)
(* movies, of a player who is not Hasty: nothing unwritten is restored,    *)
(* the ring, its timers and the pause frame implement RewindStack, and     *)
(* movies stay in step with the console.                                   *)
(***************************************************************************)
EXTENDS Rewind, SequenceTheorems, TLAPS

(* The k-th slot from the oldest, and the same without the remainder. *)
Idx(k) == (earliest + k) % States
Wrap(x) == IF x < States THEN x ELSE x - States

-----------------------------------------------------------------------------
(* Arithmetic of the ring. *)

LEMMA ModWrap ==
    ASSUME NEW x \in 0 .. 2 * States - 1
    PROVE  x % States = Wrap(x)
BY RewindAssumption, SMT DEF Wrap

LEMMA AfterWrap == ASSUME NEW i \in Slots PROVE After(i) = Wrap(i + 1) /\ After(i) \in Slots
<1>1. i + 1 \in 0 .. 2 * States - 1
  BY RewindAssumption DEF Slots
<1> QED
  BY <1>1, ModWrap, RewindAssumption DEF After, Wrap, Slots

LEMMA IdxWrap ==
    ASSUME earliest \in Slots, NEW k \in 0 .. States - 1
    PROVE  Idx(k) = Wrap(earliest + k) /\ Idx(k) \in Slots
<1>1. earliest + k \in 0 .. 2 * States - 1
  BY RewindAssumption DEF Slots
<1> QED
  BY <1>1, ModWrap, RewindAssumption DEF Idx, Wrap, Slots

(* The next snapshot goes where the window ends. *)
LEMMA RingShape ==
    ASSUME latest \in Slots, earliest \in Slots, passed \in BOOLEAN
    PROVE  Kept \in 0 .. States /\ latest = Wrap(earliest + Kept)
BY RewindAssumption DEF Kept, Wrap, Slots

(* A window of that length ends there, if a full one is marked as passed. *)
LEMMA ShapeIsKept ==
    ASSUME latest \in Slots, earliest \in Slots, passed \in BOOLEAN,
           NEW n \in 1 .. States, latest = Wrap(earliest + n), n = States => passed
    PROVE  Kept = n
BY RewindAssumption DEF Kept, Wrap, Slots

LEMMA SameRing ==
    ASSUME UNCHANGED <<latest, earliest, passed>>
    PROVE  Kept' = Kept /\ \A k : Idx(k)' = Idx(k)
BY DEF Kept, Idx

LEMMA EmptyRingKept == ASSUME EmptyRing PROVE Kept' = 0
BY DEF EmptyRing, Kept

(* A snapshot is added at the end; if the ring had come round, one is lost   *)
(* at the other end.                                                         *)
LEMMA BackupShape ==
    ASSUME TypeOK, Backup, NEW skip, skip = IF passed THEN 1 ELSE 0,
           NEW n, n = Kept + 1 - skip
    PROVE  /\ Kept' = n /\ n \in 1 .. States /\ Kept \in Nat /\ skip \in 0 .. 1
           /\ passed => Kept > 0
           /\ latest = Idx(n - 1)'
           /\ \A k \in 0 .. n - 2 : Idx(k)' = Idx(k + skip) /\ Idx(k)' # latest
<1>1. /\ latest \in Slots /\ earliest \in Slots /\ passed \in BOOLEAN
      /\ States \in Nat /\ States > 0
  BY RewindAssumption DEF TypeOK
<1>2. Kept \in 0 .. States /\ latest = Wrap(earliest + Kept)
  BY <1>1, RingShape
<1>3. latest' = Wrap(latest + 1) /\ latest' \in Slots
  BY <1>1, AfterWrap DEF Backup
<1>4. earliest' = Wrap(earliest + skip) /\ earliest' \in Slots
  <2>1. CASE passed
    BY <1>1, <2>1, AfterWrap DEF Backup
  <2>2. CASE ~passed
    BY <1>1, <2>2 DEF Backup, Wrap, Slots
  <2> QED
    BY <2>1, <2>2
<1>5. passed' = (latest' = earliest')
  BY DEF Backup
<1>6. (passed => Kept > 0) /\ (~passed => Kept < States)
  BY <1>1 DEF Kept, Slots
<1>7. n \in 1 .. States /\ skip \in 0 .. 1
  BY <1>1, <1>2, <1>6
<1>8. latest' = Wrap(earliest' + n)
  <2>1. CASE passed
    BY <1>1, <1>2, <1>3, <1>4, <1>7, <2>1 DEF Wrap, Slots
  <2>2. CASE ~passed
    BY <1>1, <1>2, <1>3, <1>4, <1>7, <2>2 DEF Wrap, Slots
  <2> QED
    BY <2>1, <2>2
<1>9. Kept' = n
  <2>1. n = States => latest' = earliest'
    BY <1>1, <1>4, <1>8 DEF Wrap, Slots
  <2>2. passed' \in BOOLEAN /\ (n = States => passed')
    BY <1>5, <2>1
  <2> QED
    BY <1>1, <1>3, <1>4, <1>7, <1>8, <2>2 DEF Kept, Wrap, Slots
<1>10. latest = Idx(n - 1)'
  <2>1. earliest' + (n - 1) \in 0 .. 2 * States - 1
    BY <1>1, <1>4, <1>7 DEF Slots
  <2>2. Idx(n - 1)' = Wrap(earliest' + (n - 1))
    BY <2>1, ModWrap DEF Idx
  <2> QED
    BY <1>1, <1>2, <1>4, <1>7, <2>2 DEF Wrap, Slots
<1>11. ASSUME NEW k \in 0 .. n - 2
       PROVE  Idx(k)' = Idx(k + skip) /\ Idx(k)' # latest
  <2>1. k \in 0 .. States - 1 /\ k + skip \in 0 .. States - 1 /\ k < n - 1 /\ k \in Nat
    BY <1>1, <1>7, <1>2
  <2>2. earliest' + k \in 0 .. 2 * States - 1
    BY <1>1, <1>4, <2>1 DEF Slots
  <2>3. Idx(k)' = Wrap(earliest' + k) /\ Idx(k + skip) = Wrap(earliest + (k + skip))
    BY <1>1, <2>1, <2>2, ModWrap, IdxWrap DEF Idx
  <2> QED
    BY <1>1, <1>2, <1>4, <1>6, <1>7, <2>1, <2>3 DEF Wrap, Slots
<1> QED
  BY <1>2, <1>6, <1>7, <1>9, <1>10, <1>11

(* A rewind lands on the newest snapshot, or the one before it, and makes it *)
(* the end of the window.                                                    *)
LEMMA RewindShape ==
    ASSUME TypeOK, Rewind, Kept > 0, NEW k,
           k = IF dbl <= Interval \/ Kept = 1 THEN Kept ELSE Kept - 1
    PROVE  /\ k \in 1 .. Kept /\ Kept \in 1 .. States
           /\ Target = Idx(k - 1) /\ Target \in Slots
           /\ Kept' = k /\ earliest' = earliest
<1>1. /\ latest \in Slots /\ earliest \in Slots /\ passed \in BOOLEAN
      /\ States \in Nat /\ States > 0 /\ dbl \in Nat /\ Interval \in Nat
  BY RewindAssumption DEF TypeOK
<1>2. Kept \in 1 .. States /\ latest = Wrap(earliest + Kept)
  BY <1>1, RingShape
<1>3. k \in 1 .. Kept
  <2>1. CASE dbl <= Interval \/ Kept = 1
    BY <1>2, <2>1
  <2>2. CASE ~(dbl <= Interval \/ Kept = 1)
    BY <1>1, <1>2, <2>2
  <2> QED
    BY <2>1, <2>2
<1>4. Target = Wrap(earliest + (k - 1))
  <2>1. After(earliest) = Wrap(earliest + 1)
    BY <1>1, AfterWrap
  <2>2. CASE Kept = 1
    BY <1>1, <1>2, <2>1, <2>2 DEF Target, Wrap, Slots
  <2>3. CASE Kept # 1
    <3>1. latest # After(earliest) /\ States > 1
      BY <1>1, <1>2, <2>1, <2>3 DEF Wrap, Slots
    <3>2. CASE dbl <= Interval
      BY <1>1, <1>2, <3>1, <3>2 DEF Target, OneBack, Wrap, Slots
    <3>3. CASE dbl > Interval
      <4>1. k = Kept - 1 /\ Target = TwoBack
        BY <1>1, <2>3, <3>1, <3>3 DEF Target
      <4> QED
        BY <1>1, <1>2, <2>3, <3>1, <4>1 DEF TwoBack, Wrap, Slots
    <3> QED
      BY <1>1, <3>2, <3>3
  <2> QED
    BY <2>2, <2>3
<1>5. Target = Idx(k - 1) /\ Target \in Slots
  <2>1. k - 1 \in 0 .. States - 1
    BY <1>1, <1>2, <1>3
  <2> QED
    BY <1>1, <1>4, <2>1, IdxWrap
<1>6. latest' = Wrap(earliest + k) /\ latest' \in Slots /\ UNCHANGED <<earliest, passed>>
  <2>1. latest' = Wrap(Target + 1) /\ latest' \in Slots
    BY <1>5, AfterWrap DEF Rewind, Resume
  <2>2. UNCHANGED <<earliest, passed>>
    BY DEF Rewind
  <2> QED
    BY <1>1, <1>2, <1>3, <1>4, <2>1, <2>2 DEF Wrap, Slots
<1>7. k = States => passed
  BY <1>1, <1>2, <1>3 DEF Kept, Slots
<1>8. Kept' = k
  BY <1>1, <1>2, <1>3, <1>6, <1>7 DEF Kept, Wrap, Slots
<1> QED
  BY <1>2, <1>3, <1>5, <1>6, <1>8

-----------------------------------------------------------------------------
(* The inductive invariant: where the loop may stand with a pause frame, a   *)
(* pause or an empty ring, and that what could be restored has been written. *)

Standing ==
    /\ Kept = 0 => timer = 1 /\ dbl = 1 /\ ~paused /\ pc \in {"vblank", "update"}
    /\ pc \in {"held", "heldkey"} => paused
    /\ mode = 1 => paused /\ pc \in {"vblank", "held"}
    /\ mode = 2 => paused /\ pc # "update"
    /\ mode = 3 => pc \in {"vblank", "frame"}
    /\ movie = "rec" => mode = 0
    /\ pc = "movie" => movie # "off"
    /\ key => born <= MaxBorn

RingWritten ==
    \A k \in 0 .. Kept - 1 :
        /\ slots[Idx(k)] # Unwritten
        /\ movie # "off" => mslots[Idx(k)] # None

Written == /\ NothingUnwritten
           /\ mode \in {2, 3} => pauseFrame # Unwritten
           /\ RingWritten

IInv == TypeOK /\ Standing /\ Written

LEMMA InvInit == ASSUME Init PROVE IInv
<1>1. Kept = 0
  BY DEF Init, Kept
<1>2. Unwritten \in Seq(Nat) /\ <<0>> \in Seq(Nat) /\ <<0>> # << >>
  BY DEF Unwritten
<1>3. TypeOK
  <2>1. Blank \in [Slots -> Seq(Nat)] /\ NoPositions \in [Slots -> Nat \cup {None}]
    BY <1>2 DEF Blank, NoPositions
  <2>2. 0 \in Slots /\ 0 \in 0 .. MaxBorn + 1 /\ 1 \in 1 .. Interval
    BY RewindAssumption DEF Slots
  <2>3. /\ pc \in {"vblank", "held", "heldkey", "update", "rewind", "movie", "frame"}
        /\ movie \in {"off", "play", "rec"} /\ mode \in 0 .. 3
    BY DEF Init
  <2>6. paused \in BOOLEAN /\ step \in BOOLEAN /\ key \in BOOLEAN /\ passed \in BOOLEAN
    BY Zenon DEF Init
  <2>4. now \in Seq(Nat) /\ pauseFrame \in Seq(Nat) /\ mpos \in Nat \cup {None}
    BY <1>2 DEF Init
  <2>5. timer \in 1 .. Interval /\ dbl \in {timer, timer + Interval}
    BY <2>2 DEF Init
  <2> QED
    BY <2>1, <2>2, <2>3, <2>4, <2>5, <2>6 DEF Init, TypeOK
<1>4. Standing
  BY <1>1, RewindAssumption DEF Init, Standing
<1>5. Written
  BY <1>1, <1>2 DEF Init, Written, NothingUnwritten, MoviePositionWritten, RingWritten, Unwritten
<1> QED
  BY <1>3, <1>4, <1>5 DEF IInv

(* What the ring holds is still written if neither it nor the movie changed. *)
LEMMA RingStays ==
    ASSUME RingWritten, UNCHANGED <<ringVars, mslots>>, movie' # "off" => movie # "off"
    PROVE  RingWritten' /\ Kept' = Kept
<1>1. Kept' = Kept /\ \A k : Idx(k)' = Idx(k)
  BY SameRing DEF ringVars
<1> QED
  BY <1>1 DEF RingWritten, ringVars

LEMMA InvKeys ==
    ASSUME IInv, ~Hasty, PressRewind \/ PressPause \/ PressStep
    PROVE  IInv'
<1>1. UNCHANGED <<pc, now, born, ringVars, timers, mode, pauseFrame, movie, mpos, mslots>>
  BY DEF PressRewind, PressPause, PressStep, pauseVars, movieVars
<1>2. Kept' = Kept /\ RingWritten'
  BY <1>1, RingStays DEF IInv, Written
<1>3. TypeOK'
  <2>1. paused' \in BOOLEAN /\ step' \in BOOLEAN /\ key' \in BOOLEAN
    <3>1. paused \in BOOLEAN /\ step \in BOOLEAN /\ key \in BOOLEAN
      BY DEF IInv, TypeOK
    <3> QED
      BY <3>1 DEF PressRewind, PressPause, PressStep, pauseVars
  <2> QED
    BY <1>1, <2>1 DEF IInv, TypeOK, ringVars, timers
<1>4. Standing'
  <2>1. CASE PressRewind
    BY <1>1, <1>2, <2>1, RewindAssumption DEF IInv, TypeOK, Standing, PressRewind, pauseVars, timers
  <2>2. CASE PressPause
    BY <1>1, <1>2, <2>2 DEF IInv, TypeOK, Standing, PressPause, timers
  <2>3. CASE PressStep
    BY <1>1, <1>2, <2>3 DEF IInv, TypeOK, Standing, PressStep, pauseVars, timers
  <2> QED
    BY <2>1, <2>2, <2>3
<1>5. Written'
  BY <1>1, <1>2 DEF IInv, Written, NothingUnwritten, MoviePositionWritten
<1> QED
  BY <1>3, <1>4, <1>5 DEF IInv

(* A game or a movie starts with an empty ring. *)
LEMMA InvBegin ==
    ASSUME IInv, ~Hasty, Restart \/ \E kind \in Movies : StartMovie(kind)
    PROVE  IInv'
<1>1. Begin /\ EmptyRing /\ Kept' = 0
  BY EmptyRingKept DEF Restart, StartMovie, Begin
<1>2. /\ pc' = "vblank" /\ mode' = 0 /\ paused' = FALSE
      /\ born < MaxBorn /\ born' = born + 1 /\ now' = <<born + 1>>
      /\ UNCHANGED <<step, key>>
  <2>1. ~paused'
    BY DEF Restart, StartMovie
  <2>2. paused' \in BOOLEAN
    BY DEF Restart, StartMovie, IInv, TypeOK
  <2> QED
    BY <1>1, <2>1, <2>2 DEF Begin
<1>3. /\ slots' \in [Slots -> Seq(Nat)] /\ pauseFrame' \in Seq(Nat)
      /\ movie' \in {"off", "play", "rec"} /\ mpos' \in Nat \cup {None}
      /\ movie' # "off" => mpos' # None
      /\ mslots' = NoPositions
  <2>1. Unwritten \in Seq(Nat)
    BY DEF Unwritten
  <2>2. CASE Restart
    BY <2>1, <2>2 DEF Restart, Blank
  <2>3. CASE \E kind \in Movies : StartMovie(kind)
    BY <2>3, RewindAssumption DEF StartMovie, IInv, TypeOK
  <2> QED
    BY <2>2, <2>3
<1>4. born' \in 0 .. MaxBorn + 1 /\ born' <= MaxBorn /\ now' \in Seq(Nat) /\ now' # << >>
  BY <1>2, RewindAssumption DEF IInv, TypeOK
<1>5. TypeOK'
  <2>1. NoPositions \in [Slots -> Nat \cup {None}]
    BY DEF NoPositions
  <2>2. 0 \in Slots /\ 1 \in 1 .. Interval
    BY RewindAssumption DEF Slots
  <2>3. timer' \in 1 .. Interval /\ dbl' \in {timer', timer' + Interval}
    BY <1>1, <2>2 DEF EmptyRing
  <2>4. latest' \in Slots /\ earliest' \in Slots /\ passed' \in BOOLEAN
    BY <1>1, <2>2 DEF EmptyRing
  <2>5. step' \in BOOLEAN /\ key' \in BOOLEAN /\ paused' \in BOOLEAN
    BY <1>2, Zenon DEF IInv, TypeOK
  <2>6. mode' \in 0 .. 3
    BY <1>2
  <2> QED
    BY <1>2, <1>3, <1>4, <2>1, <2>3, <2>4, <2>5, <2>6 DEF TypeOK
<1>6. Standing'
  BY <1>1, <1>2, <1>4 DEF EmptyRing, Standing
<1>7. Written'
  BY <1>1, <1>2, <1>3, <1>4 DEF Written, RingWritten, NothingUnwritten, MoviePositionWritten, Unwritten
<1> QED
  BY <1>5, <1>6, <1>7 DEF IInv

LEMMA InvStopMovie == ASSUME IInv, StopMovie PROVE IInv'
<1>1. /\ UNCHANGED <<pc, now, born, ringVars, timers, pauseVars, step, key>>
      /\ movie' = "off" /\ mpos' = None /\ mslots' = NoPositions /\ pc = "vblank"
  BY DEF StopMovie
<1>2. Kept' = Kept /\ \A k : Idx(k)' = Idx(k)
  BY <1>1, SameRing DEF ringVars
<1>3. TypeOK'
  BY <1>1 DEF IInv, TypeOK, ringVars, timers, pauseVars, NoPositions
<1>4. Standing'
  BY <1>1, <1>2 DEF IInv, Standing, timers, pauseVars
<1>5. Written'
  BY <1>1, <1>2 DEF IInv, Written, RingWritten, NothingUnwritten, MoviePositionWritten, ringVars, pauseVars
<1> QED
  BY <1>3, <1>4, <1>5 DEF IInv

LEMMA InvTakeOver == ASSUME IInv, ~Hasty, TakeOver PROVE IInv'
<1>1. /\ UNCHANGED <<pc, now, born, ringVars, timers, pauseVars, step, key, mpos, mslots>>
      /\ movie = "play" /\ movie' = "rec" /\ mode = 0 /\ pc = "vblank"
  BY DEF TakeOver
<1>2. Kept' = Kept /\ RingWritten'
  BY <1>1, RingStays DEF IInv, Written
<1>3. TypeOK'
  BY <1>1 DEF IInv, TypeOK, ringVars, timers, pauseVars
<1>4. Standing'
  BY <1>1, <1>2 DEF IInv, Standing, timers, pauseVars
<1>5. Written'
  BY <1>1, <1>2 DEF IInv, Written, NothingUnwritten, MoviePositionWritten, pauseVars
<1> QED
  BY <1>3, <1>4, <1>5 DEF IInv

LEMMA InvLoadState == ASSUME IInv, ~Hasty, LoadState PROVE IInv'
<1>1. /\ UNCHANGED <<pc, ringVars, timers, pauseFrame, step, key, movie, mpos, mslots>>
      /\ pc = "vblank" /\ movie = "off" /\ born < MaxBorn /\ born' = born + 1
      /\ now' = Append(Shown, born + 1)
      /\ paused' = (paused \/ PauseLoad) /\ (PauseLoad => Kept > 0)
      /\ mode' = IF paused' THEN 1 ELSE mode
  BY DEF LoadState, movieVars
<1>2. Kept' = Kept /\ RingWritten'
  BY <1>1, RingStays DEF IInv, Written
<1>3. Shown \in Seq(Nat) /\ born \in Nat /\ born' \in 0 .. MaxBorn + 1 /\ born' <= MaxBorn
  BY <1>1, RewindAssumption DEF IInv, TypeOK, Shown
<1>4. now' \in Seq(Nat) /\ now' # << >>
  BY <1>1, <1>3
<1>5. PauseLoad \in BOOLEAN /\ paused' \in BOOLEAN /\ mode' \in 0 .. 3
  BY <1>1, RewindAssumption DEF IInv, TypeOK
<1>6. TypeOK'
  BY <1>1, <1>3, <1>4, <1>5 DEF IInv, TypeOK, ringVars, timers
<1>7. Standing'
  <2>1. Kept = 0 => ~paused'
    BY <1>1, <1>5 DEF IInv, Standing
  <2>2. CASE paused'
    BY <1>1, <1>2, <1>3, <2>1, <2>2 DEF IInv, Standing, timers
  <2>3. CASE ~paused'
    BY <1>1, <1>2, <1>3, <2>1, <2>3 DEF IInv, Standing, timers
  <2> QED
    BY <2>2, <2>3
<1>8. mode' \in {2, 3} => pauseFrame' # Unwritten
  BY <1>1 DEF IInv, Written
<1>9. Written'
  BY <1>1, <1>2, <1>4, <1>8 DEF Written, NothingUnwritten, MoviePositionWritten, Unwritten
<1> QED
  BY <1>6, <1>7, <1>9 DEF IInv

LEMMA InvLeaveVblank == ASSUME IInv, LeaveVblank PROVE IInv'
<1>1. /\ UNCHANGED <<born, ringVars, timers, pauseFrame, paused, step, key, movie, mpos, mslots>>
      /\ pc = "vblank" /\ pc' = IF paused THEN "held" ELSE "update"
      /\ \/ mode = 3 /\ now' = pauseFrame /\ mode' = 0
         \/ mode # 3 /\ UNCHANGED <<now, mode>>
  BY DEF LeaveVblank, RestorePauseFrame, movieVars
<1>2. Kept' = Kept /\ RingWritten'
  BY <1>1, RingStays DEF IInv, Written
<1>3. TypeOK'
  BY <1>1 DEF IInv, TypeOK, ringVars, timers
<1>4. Standing'
  <2>1. CASE mode = 3
    BY <1>1, <1>2, <2>1 DEF IInv, Standing, timers
  <2>2. CASE mode # 3
    BY <1>1, <1>2, <2>2 DEF IInv, Standing, timers
  <2> QED
    BY <2>1, <2>2
<1>5. Written'
  BY <1>1, <1>2 DEF IInv, Written, NothingUnwritten, MoviePositionWritten
<1> QED
  BY <1>3, <1>4, <1>5 DEF IInv

LEMMA InvHeld == ASSUME IInv, Hold \/ LeaveHeld PROVE IInv'
<1>1. UNCHANGED <<now, born, ringVars, timers, paused, key, movie, mpos, mslots>>
  BY DEF Hold, LeaveHeld, movieVars
<1>2. Kept' = Kept /\ RingWritten'
  BY <1>1, RingStays DEF IInv, Written
<1>3. CASE Hold
  <2>1. TypeOK'
    BY <1>1, <1>3 DEF IInv, TypeOK, Hold, ringVars, timers
  <2>2. Standing'
    BY <1>1, <1>2, <1>3 DEF IInv, Standing, Hold, timers
  <2>3. Written'
    BY <1>1, <1>2, <1>3 DEF IInv, Written, NothingUnwritten, MoviePositionWritten, Hold
  <2> QED
    BY <2>1, <2>2, <2>3 DEF IInv
<1>4. CASE LeaveHeld
  <2>1. TypeOK'
    <3>1. /\ pc' \in {"vblank", "held", "heldkey", "update", "rewind", "movie", "frame"}
          /\ mode' \in 0 .. 3 /\ pauseFrame' = pauseFrame
      BY <1>4 DEF IInv, TypeOK, LeaveHeld
    <3>2. step' \in BOOLEAN
      BY <1>4, Zenon DEF IInv, TypeOK, LeaveHeld
    <3> QED
      BY <1>1, <3>1, <3>2 DEF IInv, TypeOK, ringVars, timers
  <2>2. Standing'
    BY <1>1, <1>2, <1>4 DEF IInv, TypeOK, Standing, LeaveHeld, timers
  <2>3. Written'
    BY <1>1, <1>2, <1>4 DEF IInv, Written, NothingUnwritten, MoviePositionWritten, LeaveHeld
  <2> QED
    BY <2>1, <2>2, <2>3 DEF IInv
<1> QED
  BY <1>3, <1>4

LEMMA InvTick == ASSUME IInv, Tick PROVE IInv'
<1>1. /\ UNCHANGED <<now, born, ringVars, mode, pauseFrame, paused, step, key, movie, mpos, mslots>>
      /\ pc = "update" /\ pc' = "rewind" /\ timer > 1 /\ timer' = timer - 1 /\ dbl' = dbl - 1
  BY DEF Tick, pauseVars, movieVars
<1>2. Kept' = Kept /\ RingWritten'
  BY <1>1, RingStays DEF IInv, Written
<1>3. timer' \in 1 .. Interval /\ dbl' \in {timer', timer' + Interval}
  BY <1>1, RewindAssumption DEF IInv, TypeOK
<1>4. TypeOK'
  BY <1>1, <1>3 DEF IInv, TypeOK, ringVars
<1>5. Standing'
  <2>1. Kept # 0
    BY <1>1 DEF IInv, TypeOK, Standing
  <2> QED
    BY <1>1, <1>2, <2>1 DEF IInv, Standing
<1>6. Written'
  BY <1>1, <1>2 DEF IInv, Written, NothingUnwritten, MoviePositionWritten
<1> QED
  BY <1>4, <1>5, <1>6 DEF IInv

LEMMA InvBackup == ASSUME IInv, Backup PROVE IInv'
<1>0. PICK skip : skip = IF passed THEN 1 ELSE 0
  OBVIOUS
<1>1. PICK n : n = Kept + 1 - skip
  OBVIOUS
<1>2. /\ Kept' = n /\ n \in 1 .. States /\ Kept \in Nat /\ skip \in 0 .. 1
      /\ latest = Idx(n - 1)'
      /\ \A k \in 0 .. n - 2 : Idx(k)' = Idx(k + skip) /\ Idx(k)' # latest
  BY <1>0, <1>1, BackupShape DEF IInv
<1>3. /\ pc = "update" /\ pc' = "rewind" /\ timer' = Interval
      /\ slots' = [slots EXCEPT ![latest] = now]
      /\ mslots' = IF movie = "off" THEN mslots ELSE [mslots EXCEPT ![latest] = mpos]
      /\ UNCHANGED <<now, born, mode, pauseFrame, paused, step, key, movie, mpos>>
  BY DEF Backup, pauseVars
<1>4. latest' \in Slots /\ earliest' \in Slots /\ passed' \in BOOLEAN
  BY AfterWrap DEF Backup, IInv, TypeOK
<1>5. timer' \in 1 .. Interval /\ dbl' \in {timer', timer' + Interval}
  <2>1. timer = 1 /\ dbl \in {1, 1 + Interval} /\ Interval \in Nat \ {0}
    BY RewindAssumption DEF Backup, IInv, TypeOK
  <2>2. dbl' \in {Interval, Interval + Interval}
    BY <2>1 DEF Backup, Reload
  <2> QED
    BY <1>3, <2>1, <2>2
<1>6. latest \in Slots /\ slots \in [Slots -> Seq(Nat)] /\ mslots \in [Slots -> Nat \cup {None}]
  BY DEF IInv, TypeOK
<1>7. slots' \in [Slots -> Seq(Nat)] /\ mslots' \in [Slots -> Nat \cup {None}]
  BY <1>3, <1>6 DEF IInv, TypeOK
<1>8. TypeOK'
  BY <1>3, <1>4, <1>5, <1>7 DEF IInv, TypeOK
<1>9. Standing'
  BY <1>2, <1>3 DEF IInv, Standing
<1>10. ASSUME NEW k \in 0 .. Kept' - 1
       PROVE  slots'[Idx(k)'] # Unwritten /\ (movie' # "off" => mslots'[Idx(k)'] # None)
  <2>1. CASE k = n - 1
    <3>1. Idx(k)' = latest
      BY <1>2, <2>1
    <3> QED
      BY <1>3, <1>6, <3>1 DEF IInv, Written, NothingUnwritten, MoviePositionWritten
  <2>2. CASE k # n - 1
    <3>1. k \in 0 .. n - 2 /\ k + skip \in 0 .. Kept - 1 /\ k + skip \in 0 .. States - 1
      <4>1. n \in Nat /\ States \in Nat /\ n <= States /\ k \in 0 .. n - 1
        BY <1>2, RewindAssumption
      <4>2. k \in 0 .. n - 2
        BY <2>2, <4>1
      <4>3. skip = 0 \/ skip = 1
        BY <1>2
      <4> QED
        BY <1>2, <1>1, <4>1, <4>2, <4>3
    <3>2. Idx(k)' = Idx(k + skip) /\ Idx(k + skip) # latest /\ Idx(k + skip) \in Slots
      BY <1>2, <3>1, IdxWrap DEF IInv, TypeOK
    <3>3. slots[Idx(k + skip)] # Unwritten /\ (movie # "off" => mslots[Idx(k + skip)] # None)
      BY <3>1 DEF IInv, Written, RingWritten
    <3> QED
      BY <1>3, <1>6, <3>2, <3>3
  <2> QED
    BY <2>1, <2>2
<1>11. Written'
  BY <1>3, <1>10 DEF IInv, Written, NothingUnwritten, MoviePositionWritten, RingWritten
<1> QED
  BY <1>8, <1>9, <1>11 DEF IInv

LEMMA InvRewind == ASSUME IInv, Rewind PROVE IInv'
<1>0. PICK k : k = IF dbl <= Interval \/ Kept = 1 THEN Kept ELSE Kept - 1
  OBVIOUS
<1> DEFINE stop == movie # "rec" /\ (PauseRewind \/ paused)
           take == stop \/ mode = 1
<1>1. /\ pc \in {"heldkey", "rewind"} /\ key /\ key' = FALSE
      /\ born' = born + 1 /\ now' = slots[Target]
      /\ mpos' = MovieBack
      /\ paused' = (paused \/ stop)
      /\ mode' = IF take THEN 2 ELSE mode
      /\ pauseFrame' = IF take THEN slots[Target] ELSE pauseFrame
      /\ latest' = After(Target) /\ timer' = Interval /\ dbl' = 2 * Interval
      /\ UNCHANGED <<pc, slots, earliest, passed, step, movie, mslots>>
  BY DEF Rewind, Resume
<1>2. Kept > 0 /\ mode \notin {1, 3} /\ (pc = "heldkey" => paused) /\ born <= MaxBorn
  <2>1. Kept # 0 /\ mode \notin {1, 3} /\ (pc = "heldkey" => paused) /\ born <= MaxBorn
    BY <1>1 DEF IInv, Standing
  <2>2. Kept \in Nat
    BY RingShape DEF IInv, TypeOK
  <2> QED
    BY <2>1, <2>2
<1>3. /\ k \in 1 .. Kept /\ Kept \in 1 .. States /\ Target = Idx(k - 1) /\ Target \in Slots
      /\ Kept' = k /\ earliest' = earliest
  BY <1>0, <1>2, RewindShape DEF IInv
<1>4. \A j : Idx(j)' = Idx(j)
  BY <1>3 DEF Idx
<1>5. k - 1 \in 0 .. Kept - 1 /\ \A j \in 0 .. k - 1 : j \in 0 .. Kept - 1
  BY <1>3
<1>6. slots[Target] # Unwritten /\ (movie # "off" => mslots[Target] # None)
  BY <1>3, <1>5 DEF IInv, Written, RingWritten
<1>7. /\ slots[Target] \in Seq(Nat) /\ mpos' \in Nat \cup {None} /\ pauseFrame' \in Seq(Nat)
      /\ movie' # "off" => mpos' # None
  BY <1>1, <1>3, <1>6 DEF IInv, TypeOK, MovieBack
<1>8. latest' \in Slots /\ born' \in 0 .. MaxBorn + 1
  BY <1>1, <1>2, <1>3, AfterWrap, RewindAssumption DEF IInv, TypeOK
<1>9. timer' \in 1 .. Interval /\ dbl' \in {timer', timer' + Interval}
  BY <1>1, RewindAssumption
<1>10. paused' \in BOOLEAN /\ key' \in BOOLEAN
  BY <1>1, Zenon
<1>11. take = stop /\ (mode' = 2 \/ mode' = mode) /\ (mode' = 2 => paused')
  <2>1. take = stop
    BY <1>2
  <2>2. CASE stop
    BY <1>1, <2>1, <2>2
  <2>3. CASE ~stop
    <3>1. mode' = mode /\ (paused => paused')
      BY <1>1, <2>1, <2>3
    <3>2. mode = 2 => paused
      BY DEF IInv, Standing
    <3> QED
      BY <2>1, <3>1, <3>2
  <2> QED
    BY <2>2, <2>3
<1>12. movie = "rec" => mode' = 0
  <2>1. movie = "rec" => ~stop
    OBVIOUS
  <2>2. ~stop => mode' = mode
    BY <1>1, <1>11
  <2>3. movie = "rec" => mode = 0
    BY DEF IInv, Standing
  <2> QED
    BY <2>1, <2>2, <2>3
<1>13. pauseFrame' = slots[Target] \/ (pauseFrame' = pauseFrame /\ mode' = mode)
  BY <1>1
<1>14. paused => paused'
  BY <1>1
<1> HIDE DEF stop, take
<1>15. TypeOK'
  <2>1. mode' \in 0 .. 3
    BY <1>11 DEF IInv, TypeOK
  <2>2. now' \in Seq(Nat)
    BY <1>1, <1>7
  <2> QED
    BY <1>1, <1>3, <1>7, <1>8, <1>9, <1>10, <2>1, <2>2 DEF IInv, TypeOK
<1>16. Standing'
  <2>1. Kept' # 0
    BY <1>3
  <2>2. mode' \notin {1, 3}
    BY <1>2, <1>11
  <2> QED
    BY <1>1, <1>2, <1>11, <1>12, <1>14, <2>1, <2>2 DEF IInv, Standing
<1>17. RingWritten'
  BY <1>1, <1>3, <1>4, <1>5 DEF IInv, Written, RingWritten
<1>18. Written'
  BY <1>1, <1>6, <1>7, <1>13, <1>17 DEF IInv, Written, NothingUnwritten, MoviePositionWritten
<1> QED
  BY <1>15, <1>16, <1>18 DEF IInv

LEMMA InvPass ==
    ASSUME IInv, LeaveRewind \/ ProcessMovies \/ Frame
    PROVE  IInv'
<1>1. UNCHANGED <<born, ringVars, timers, mode, pauseFrame, paused, step, key>>
  BY DEF LeaveRewind, ProcessMovies, Frame, pauseVars
<1>2. Kept' = Kept /\ \A j : Idx(j)' = Idx(j)
  BY <1>1, SameRing DEF ringVars
<1>3. pc \in {"rewind", "movie", "frame"} /\ pc' \in {"movie", "frame", "vblank"}
  BY DEF LeaveRewind, ProcessMovies, Frame
<1>4. /\ now' \in Seq(Nat) /\ now' # Unwritten
      /\ movie' \in {"off", "play", "rec"} /\ mpos' \in Nat \cup {None}
      /\ movie' # "off" => mpos' # None
      /\ mslots' \in [Slots -> Nat \cup {None}]
      /\ movie' # "off" => movie' = movie /\ mslots' = mslots
      /\ pc' = "movie" => movie' # "off"
  <2>1. /\ now \in Seq(Nat) /\ now # Unwritten /\ born \in Nat
        /\ movie \in {"off", "play", "rec"} /\ mpos \in Nat \cup {None}
        /\ movie # "off" => mpos # None
        /\ mslots \in [Slots -> Nat \cup {None}]
    BY DEF IInv, TypeOK, Written, NothingUnwritten, MoviePositionWritten
  <2>2. CASE LeaveRewind
    BY <2>1, <2>2 DEF LeaveRewind, movieVars
  <2>3. CASE ProcessMovies
    <3>1. movie # "off"
      BY <2>3 DEF IInv, Standing, ProcessMovies
    <3>2. NoPositions \in [Slots -> Nat \cup {None}]
      BY DEF NoPositions
    <3>3. mpos + 1 \in Nat /\ mpos + 1 # None
      BY <2>1, <3>1, RewindAssumption
    <3> QED
      BY <2>1, <2>3, <3>1, <3>2, <3>3 DEF ProcessMovies
  <2>4. CASE Frame
    <3>1. Append(now, born) \in Seq(Nat) /\ Append(now, born) # << >>
      BY <2>1
    <3> QED
      BY <2>1, <2>4, <3>1 DEF Frame, movieVars, Unwritten
  <2> QED
    BY <2>2, <2>3, <2>4
<1>5. TypeOK'
  BY <1>1, <1>3, <1>4 DEF IInv, TypeOK, ringVars, timers
<1>6. Standing'
  <2>1. (mode = 3 => pc = "frame") /\ (pc = "frame" => pc' = "vblank")
    BY <1>3 DEF IInv, Standing, LeaveRewind, ProcessMovies, Frame
  <2> QED
    BY <1>1, <1>2, <1>3, <1>4, <2>1 DEF IInv, Standing
<1>7. RingWritten'
  BY <1>1, <1>2, <1>4 DEF IInv, Written, RingWritten, ringVars
<1>8. Written'
  BY <1>1, <1>4, <1>7 DEF IInv, Written, NothingUnwritten, MoviePositionWritten
<1> QED
  BY <1>5, <1>6, <1>8 DEF IInv

LEMMA InvStutter == ASSUME IInv, UNCHANGED vars PROVE IInv'
<1>1. Kept' = Kept /\ RingWritten'
  BY RingStays DEF vars, ringVars, movieVars, IInv, Written
<1> QED
  BY <1>1 DEF vars, ringVars, timers, pauseVars, movieVars, IInv, TypeOK, Standing, Written,
              NothingUnwritten, MoviePositionWritten

LEMMA InvStep == ASSUME IInv, ~Hasty, [Next]_vars PROVE IInv'
BY InvKeys, InvBegin, InvStopMovie, InvTakeOver, InvLoadState, InvLeaveVblank, InvHeld, InvTick,
   InvBackup, InvRewind, InvPass, InvStutter DEF Next

LEMMA Invariance == ASSUME ~Hasty PROVE Spec => []IInv
<1>1. Init => IInv
  BY InvInit
<1>2. IInv /\ [Next]_vars => IInv'
  BY InvStep
<1> QED
  BY <1>1, <1>2, PTL DEF Spec

(* The state keeps its types: the timers never pass zero, and DblRewTimer is *)
(* always RewindTimer or an interval more.                                   *)
THEOREM RewindTypeCorrect == ASSUME ~Hasty PROVE Spec => []TypeOK
<1>1. IInv => TypeOK
  BY DEF IInv
<1> QED
  BY <1>1, Invariance, PTL

(* A player who pauses only once there is a snapshot, and lets a pause frame *)
(* be restored, is never given a buffer that was not written.                *)
THEOREM OnlyWrittenRestored == ASSUME ~Hasty PROVE Spec => []NothingUnwritten
<1>1. IInv => NothingUnwritten
  BY DEF IInv, Written
<1> QED
  BY <1>1, Invariance, PTL

-----------------------------------------------------------------------------
(* The refinement. *)

WindowShape ==
    /\ Window \in Seq(Seq(Nat)) /\ Len(Window) = Kept /\ Kept \in 0 .. States
    /\ \A i \in 1 .. Kept : Window[i] = slots[Idx(i - 1)]

LEMMA WindowProperties == TypeOK => WindowShape
<1> SUFFICES ASSUME TypeOK PROVE WindowShape
  OBVIOUS
<1>1. Kept \in 0 .. States /\ States \in Nat /\ earliest \in Slots
  BY RingShape, RewindAssumption DEF TypeOK
<1>2. ASSUME NEW i \in 1 .. Kept
      PROVE  /\ (earliest + i - 1) % States = Idx(i - 1)
             /\ slots[Idx(i - 1)] \in Seq(Nat)
  <2>1. earliest + i - 1 = earliest + (i - 1) /\ i - 1 \in 0 .. States - 1
    BY <1>1 DEF Slots
  <2>2. Idx(i - 1) \in Slots
    BY <1>1, <2>1, IdxWrap
  <2> QED
    BY <2>1, <2>2 DEF Idx, TypeOK
<1>3. \A i \in 1 .. Kept : Window[i] = slots[Idx(i - 1)]
  BY <1>2 DEF Window
<1>4. Window = [i \in 1 .. Kept |-> Window[i]]
  BY DEF Window
<1>5. \A i \in 1 .. Kept : Window[i] \in Seq(Nat)
  BY <1>2, <1>3
<1> HIDE DEF Window
<1> QED
  BY <1>1, <1>3, <1>4, <1>5 DEF WindowShape

(* The same of the next state. *)
LEMMA NextWindowProperties == TypeOK' => WindowShape'
BY WindowProperties, PTL

LEMMA WindowStays == ASSUME UNCHANGED ringVars PROVE Window' = Window
BY DEF Window, Kept, ringVars

LEMMA RefInit == ASSUME Init PROVE Stack!Init
<1>1. TypeOK /\ Kept = 0
  BY InvInit DEF IInv, Init, Kept
<1>2. Window \in Seq(Seq(Nat)) /\ Len(Window) = 0
  BY <1>1, WindowProperties DEF WindowShape
<1>3. Window = << >>
  BY <1>2, EmptySeq
<1>4. 0 \in 0 .. MaxBorn + 1 /\ Shown = <<0>> /\ (dbl <= Interval) = TRUE
  BY RewindAssumption DEF Init, Shown
<1> QED
  BY <1>3, <1>4 DEF Stack!Init, Stack!Fresh

(* Steps the player's timeline does not show. *)
LEMMA RefStutter ==
    ASSUME IInv, \/ PressRewind \/ PressPause \/ PressStep \/ StopMovie \/ TakeOver \/ LeaveVblank
                 \/ Hold \/ LeaveHeld \/ Tick \/ LeaveRewind \/ ProcessMovies
                 \/ UNCHANGED vars
    PROVE  UNCHANGED Stack!vars
<1>1. UNCHANGED ringVars
  BY DEF PressRewind, PressPause, PressStep, StopMovie, TakeOver, LeaveVblank, Hold, LeaveHeld, Tick,
         LeaveRewind, ProcessMovies, vars
<1>2. Window' = Window
  BY <1>1, WindowStays
<1>3. (dbl <= Interval)' = (dbl <= Interval)
  <2>1. CASE Tick
    <3>1. /\ timer \in Nat /\ Interval \in Nat /\ dbl \in {timer, timer + Interval}
          /\ timer <= Interval /\ timer > 1 /\ dbl' = dbl - 1
      BY <2>1, RewindAssumption DEF Tick, IInv, TypeOK
    <3>2. CASE dbl = timer
      BY <3>1, <3>2
    <3>3. CASE dbl = timer + Interval
      BY <3>1, <3>3
    <3> QED
      BY <3>1, <3>2, <3>3
  <2>2. CASE ~Tick
    BY <2>2 DEF PressRewind, PressPause, PressStep, StopMovie, TakeOver, LeaveVblank, Hold, LeaveHeld,
                LeaveRewind, ProcessMovies, vars, timers
  <2> QED
    BY <2>1, <2>2
<1>4. Shown' = Shown
  <2>1. CASE LeaveVblank
    BY <2>1 DEF LeaveVblank, RestorePauseFrame, Shown
  <2>2. CASE Hold
    BY <2>2 DEF Hold, Shown
  <2>3. CASE LeaveHeld
    BY <2>3 DEF LeaveHeld, Shown
  <2>4. CASE ~LeaveVblank /\ ~Hold /\ ~LeaveHeld
    <3>1. UNCHANGED <<now, mode, pauseFrame>>
      BY <2>4 DEF PressRewind, PressPause, PressStep, StopMovie, TakeOver, Tick, LeaveRewind,
                  ProcessMovies, vars, pauseVars
    <3> QED
      BY <3>1 DEF Shown
  <2> QED
    BY <2>1, <2>2, <2>3, <2>4
<1> QED
  BY <1>2, <1>3, <1>4 DEF Stack!vars

LEMMA RefStart ==
    ASSUME IInv, IInv', ~Hasty, Restart \/ \E kind \in Movies : StartMovie(kind)
    PROVE  Stack!Start
<1>1. Begin /\ EmptyRing /\ Kept' = 0
  BY EmptyRingKept DEF Restart, StartMovie, Begin
<1>2. Window' = << >>
  <2>1. Window' \in Seq(Seq(Nat)) /\ Len(Window') = 0
    BY <1>1, NextWindowProperties DEF IInv, WindowShape
  <2> QED
    BY <2>1, EmptySeq
<1>3. /\ born + 1 \in 0 .. MaxBorn + 1 /\ Shown' = <<born + 1>> /\ (dbl <= Interval)' = TRUE
  BY <1>1, RewindAssumption DEF Begin, EmptyRing, Shown, IInv, TypeOK
<1> QED
  BY <1>2, <1>3 DEF Stack!Start, Stack!Fresh

LEMMA RefRun ==
    ASSUME IInv, LoadState \/ Frame
    PROVE  Stack!Run \/ UNCHANGED Stack!vars
<1>1. UNCHANGED <<ringVars, timers>>
  BY DEF LoadState, Frame
<1>2. Window' = Window /\ (dbl <= Interval)' = (dbl <= Interval)
  BY <1>1, WindowStays DEF timers
<1>3. CASE LoadState
  <2>1. /\ born + 1 \in 0 .. MaxBorn + 1 /\ now' = Append(Shown, born + 1)
        /\ mode' = IF paused' THEN 1 ELSE mode
        /\ pauseFrame' = pauseFrame /\ (paused => paused')
    BY <1>3, RewindAssumption DEF LoadState, IInv, TypeOK
  <2>2. CASE paused'
    BY <1>2, <2>1, <2>2 DEF Stack!Run, Shown
  <2>3. CASE ~paused'
    <3>1. mode' = mode /\ mode \in {0, 3}
      BY <2>1, <2>3 DEF IInv, TypeOK, Standing
    <3>2. CASE mode = 0
      <4>1. Shown' = Append(Shown, born + 1)
        BY <2>1, <3>1, <3>2 DEF Shown
      <4> QED
        BY <1>2, <2>1, <4>1 DEF Stack!Run
    <3>3. CASE mode = 3
      <4>1. Shown' = Shown
        BY <2>1, <3>1, <3>3 DEF Shown
      <4> QED
        BY <1>2, <4>1 DEF Stack!vars
    <3> QED
      BY <3>1, <3>2, <3>3
  <2> QED
    BY <2>2, <2>3
<1>4. CASE Frame
  <2>1. /\ born \in 0 .. MaxBorn + 1 /\ now' = Append(now, born)
        /\ mode' = mode /\ pauseFrame' = pauseFrame
    BY <1>4 DEF Frame, pauseVars, IInv, TypeOK
  <2>2. CASE mode \in {2, 3}
    <3>1. Shown' = Shown
      BY <2>1, <2>2 DEF Shown
    <3> QED
      BY <1>2, <3>1 DEF Stack!vars
  <2>3. CASE mode \notin {2, 3}
    <3>1. Shown' = Append(Shown, born)
      BY <2>1, <2>3 DEF Shown
    <3> QED
      BY <1>2, <2>1, <3>1 DEF Stack!Run
  <2> QED
    BY <2>2, <2>3
<1> QED
  BY <1>3, <1>4

LEMMA RefSave == ASSUME IInv, IInv', Backup PROVE Stack!Save
<1>1. PICK skip : skip = IF passed THEN 1 ELSE 0
  OBVIOUS
<1>2. PICK n : n = Kept + 1 - skip
  OBVIOUS
<1>3. /\ Kept' = n /\ n \in 1 .. States /\ Kept \in Nat /\ skip \in 0 .. 1
      /\ passed => Kept > 0
      /\ latest = Idx(n - 1)'
      /\ \A k \in 0 .. n - 2 : Idx(k)' = Idx(k + skip) /\ Idx(k)' # latest
  BY <1>1, <1>2, BackupShape DEF IInv
<1>4. /\ Window \in Seq(Seq(Nat)) /\ Len(Window) = Kept /\ Kept \in 0 .. States
      /\ \A i \in 1 .. Kept : Window[i] = slots[Idx(i - 1)]
  BY WindowProperties DEF IInv, WindowShape
<1>5. /\ Window' \in Seq(Seq(Nat)) /\ Len(Window') = n
      /\ \A i \in 1 .. n : Window'[i] = slots'[Idx(i - 1)']
  BY <1>3, NextWindowProperties DEF IInv, WindowShape
<1>6. /\ slots' = [slots EXCEPT ![latest] = now] /\ latest \in Slots
      /\ slots \in [Slots -> Seq(Nat)] /\ now \in Seq(Nat)
  BY DEF Backup, IInv, TypeOK
<1>7. mode = 0 /\ Shown = now /\ Shown' = now
  <2>1. mode = 0
    BY DEF IInv, TypeOK, Standing, Backup
  <2> QED
    BY <2>1 DEF Shown, Backup, pauseVars
<1>8. (dbl <= Interval)' = TRUE
  <2>1. timer = 1 /\ dbl \in {1, 1 + Interval} /\ Interval \in Nat \ {0}
    BY RewindAssumption DEF Backup, IInv, TypeOK
  <2>2. dbl' = Reload
    BY DEF Backup
  <2>3. CASE dbl = 1
    BY <2>1, <2>2, <2>3 DEF Reload
  <2>4. CASE dbl = 1 + Interval
    BY <2>1, <2>2, <2>4 DEF Reload
  <2> QED
    BY <2>1, <2>3, <2>4
<1>9. Window'[n] = now
  BY <1>3, <1>5, <1>6
<1>10. ASSUME NEW i \in 1 .. n - 1
       PROVE  Window'[i] = Window[i + skip]
  <2>1. i \in 1 .. n /\ i - 1 \in 0 .. n - 2 /\ i - 1 + skip = i + skip - 1 /\ i + skip \in 1 .. Kept
    <3>1. skip = 0 \/ skip = 1
      BY <1>3
    <3> QED
      BY <1>2, <1>3, <3>1
  <2>2. Window'[i] = slots'[Idx(i - 1)']
    BY <1>5, <2>1
  <2>3. Idx(i - 1)' = Idx(i - 1 + skip) /\ Idx(i - 1)' # latest
    BY <1>3, <2>1
  <2>4. Window[i + skip] = slots[Idx(i - 1 + skip)]
    <3>1. PICK j : j = i + skip
      OBVIOUS
    <3>2. j \in 1 .. Kept /\ j - 1 = i - 1 + skip
      BY <1>3, <2>1, <3>1
    <3>3. Window[j] = slots[Idx(j - 1)]
      BY <1>4, <3>2
    <3> QED
      BY <3>1, <3>2, <3>3
  <2>5. Idx(i - 1 + skip) \in Slots
    <3>1. i - 1 + skip \in 0 .. States - 1
      BY <1>3, <1>4, <2>1, RewindAssumption
    <3> QED
      BY <3>1, IdxWrap DEF IInv, TypeOK
  <2> QED
    BY <1>6, <2>1, <2>2, <2>3, <2>4, <2>5
<1>11. CASE ~passed
  <2>1. skip = 0 /\ n = Kept + 1 /\ Len(Window) < States
    BY <1>1, <1>2, <1>3, <1>4, <1>11, RewindAssumption
  <2>2. Window' = Append(Window, now)
    <3>1. Append(Window, now) \in Seq(Seq(Nat)) /\ Len(Append(Window, now)) = n
      <4>1. Window \in Seq(Seq(Nat)) /\ now \in Seq(Nat) /\ Len(Window) + 1 = n
        BY <1>4, <1>6, <2>1
      <4> HIDE DEF Window
      <4> QED
        BY <4>1, AppendProperties
    <3>2. ASSUME NEW i \in 1 .. n
          PROVE  Window'[i] = Append(Window, now)[i]
      <4>1. CASE i = n
        BY <1>4, <1>9, <2>1, <4>1
      <4>2. CASE i # n
        <5>1. i \in 1 .. n - 1 /\ i \in 1 .. Len(Window) /\ i + skip = i
          BY <1>3, <1>4, <2>1, <4>2
        <5>2. Window'[i] = Window[i]
          BY <1>10, <5>1
        <5> QED
          BY <1>4, <5>1, <5>2
      <4> QED
        BY <4>1, <4>2
    <3> QED
      BY <1>5, <3>1, <3>2, SeqEqual
  <2> QED
    BY <1>7, <1>8, <2>1, <2>2 DEF Stack!Save
<1>12. CASE passed
  <2>1. skip = 1 /\ n = Kept /\ Kept > 0 /\ Window # << >>
    <3>1. skip = 1 /\ n = Kept /\ Kept > 0
      BY <1>1, <1>2, <1>3, <1>12
    <3>2. Len(Window) # 0
      BY <1>4, <3>1
    <3> QED
      BY <3>1, <3>2, EmptySeq
  <2>2. /\ Tail(Window) \in Seq(Seq(Nat)) /\ Len(Tail(Window)) = n - 1
        /\ \A i \in 1 .. n - 1 : Tail(Window)[i] = Window[i + 1]
    BY <1>4, <2>1, HeadTailProperties
  <2>3. Window' = Append(Tail(Window), now)
    <3>1. Append(Tail(Window), now) \in Seq(Seq(Nat)) /\ Len(Append(Tail(Window), now)) = n
      BY <1>3, <1>6, <2>2
    <3>2. ASSUME NEW i \in 1 .. n
          PROVE  Window'[i] = Append(Tail(Window), now)[i]
      <4>1. CASE i = n
        BY <1>3, <1>9, <2>2, <4>1
      <4>2. CASE i # n
        <5>1. i \in 1 .. n - 1 /\ i \in 1 .. Len(Tail(Window)) /\ i + skip = i + 1
          BY <1>3, <2>1, <2>2, <4>2
        <5>2. Window'[i] = Tail(Window)[i]
          BY <1>10, <2>2, <5>1
        <5> QED
          BY <2>2, <5>1, <5>2
      <4> QED
        BY <4>1, <4>2
    <3> QED
      BY <1>5, <3>1, <3>2, SeqEqual
  <2> QED
    BY <1>7, <1>8, <2>1, <2>3 DEF Stack!Save
<1> QED
  BY <1>11, <1>12

LEMMA RefRewind == ASSUME IInv, IInv', Rewind PROVE Stack!Rewind
<1>1. PICK k : k = IF dbl <= Interval \/ Kept = 1 THEN Kept ELSE Kept - 1
  OBVIOUS
<1>2. Kept > 0 /\ mode \in {0, 2} /\ (mode = 2 => paused) /\ (movie = "rec" => mode = 0)
  <2>1. Kept # 0 /\ mode \notin {1, 3} /\ mode \in 0 .. 3 /\ Kept \in 0 .. States
    BY RingShape DEF Rewind, IInv, TypeOK, Standing
  <2>2. (mode = 2 => paused) /\ (movie = "rec" => mode = 0)
    BY DEF IInv, Standing
  <2> QED
    BY <2>1, <2>2, RewindAssumption
<1>3. /\ k \in 1 .. Kept /\ Kept \in 1 .. States
      /\ Target = Idx(k - 1) /\ Kept' = k /\ earliest' = earliest
  BY <1>1, <1>2, RewindShape DEF IInv
<1>4. /\ Window \in Seq(Seq(Nat)) /\ Len(Window) = Kept
      /\ \A i \in 1 .. Kept : Window[i] = slots[Idx(i - 1)]
  BY WindowProperties DEF IInv, WindowShape
<1>5. /\ Window' \in Seq(Seq(Nat)) /\ Len(Window') = k
      /\ \A i \in 1 .. k : Window'[i] = slots[Idx(i - 1)]
  <2>1. /\ Window' \in Seq(Seq(Nat)) /\ Len(Window') = Kept'
        /\ \A i \in 1 .. Kept' : Window'[i] = slots'[Idx(i - 1)']
    BY NextWindowProperties DEF IInv, WindowShape
  <2>2. slots' = slots /\ \A i : Idx(i)' = Idx(i)
    BY <1>3 DEF Rewind, Idx
  <2> QED
    BY <1>3, <2>1, <2>2
<1>6. Shown' = Window[k]
  <2>1. now' = slots[Target] /\ slots[Target] = Window[k]
    BY <1>3, <1>4 DEF Rewind
  <2>2. CASE movie # "rec" /\ (PauseRewind \/ paused)
    <3>1. mode' = 2 /\ pauseFrame' = slots[Target]
      BY <2>2 DEF Rewind
    <3> QED
      BY <2>1, <3>1 DEF Shown
  <2>3. CASE ~(movie # "rec" /\ (PauseRewind \/ paused))
    <3>1. mode' = mode /\ mode = 0
      BY <1>2, <2>3 DEF Rewind
    <3> QED
      BY <2>1, <3>1 DEF Shown
  <2> QED
    BY <2>2, <2>3
<1>7. Window' = SubSeq(Window, 1, k)
  <2>1. /\ SubSeq(Window, 1, k) \in Seq(Seq(Nat)) /\ Len(SubSeq(Window, 1, k)) = k
        /\ \A i \in 1 .. k : SubSeq(Window, 1, k)[i] = Window[i]
    BY <1>3, <1>4
  <2>2. ASSUME NEW i \in 1 .. k
        PROVE  Window'[i] = SubSeq(Window, 1, k)[i]
    <3>1. i \in 1 .. Kept
      BY <1>3
    <3>2. Window'[i] = slots[Idx(i - 1)] /\ Window[i] = slots[Idx(i - 1)]
      BY <1>4, <1>5, <3>1
    <3>3. SubSeq(Window, 1, k)[i] = Window[i]
      BY <2>1
    <3> QED
      BY <3>2, <3>3
  <2> QED
    BY <1>5, <2>1, <2>2, SeqEqual
<1>8. (dbl <= Interval)' = FALSE
  BY RewindAssumption DEF Rewind
<1>9. Window # << >>
  BY <1>3, <1>4, EmptySeq
<1>10. k = IF dbl <= Interval \/ Len(Window) = 1 THEN Len(Window) ELSE Len(Window) - 1
  BY <1>1, <1>4
<1> QED
  BY <1>6, <1>7, <1>8, <1>9, <1>10 DEF Stack!Rewind, Stack!GoBack

LEMMA RefStep == ASSUME IInv, IInv', ~Hasty, [Next]_vars PROVE [Stack!Next]_(Stack!vars)
<1>1. CASE Restart \/ \E kind \in Movies : StartMovie(kind)
  BY <1>1, RefStart DEF Stack!Next
<1>2. CASE LoadState \/ Frame
  BY <1>2, RefRun DEF Stack!Next
<1>3. CASE Backup
  BY <1>3, RefSave DEF Stack!Next
<1>4. CASE Rewind
  BY <1>4, RefRewind DEF Stack!Next
<1>5. CASE \/ PressRewind \/ PressPause \/ PressStep \/ StopMovie \/ TakeOver \/ LeaveVblank
           \/ Hold \/ LeaveHeld \/ Tick \/ LeaveRewind \/ ProcessMovies
           \/ UNCHANGED vars
  BY <1>5, RefStutter
<1> QED
  BY <1>1, <1>2, <1>3, <1>4, <1>5 DEF Next

(* The ring of any size, its two timers and the pause frame do what a stack  *)
(* of snapshots of the player's timeline does: a rewind goes back to the     *)
(* newest, or one further if it is asked for again before the next is taken. *)
THEOREM RewindImplementsStack == ASSUME ~Hasty PROVE Spec => RewindsAsAStack
<1>1. Init => Stack!Init
  BY RefInit
<1>2. IInv /\ IInv' /\ [Next]_vars => [Stack!Next]_(Stack!vars)
  BY RefStep
<1> QED
  BY <1>1, <1>2, Invariance, PTL DEF Spec, RewindsAsAStack, Stack!Spec

StackFacts == INSTANCE RewindStackProofs
    WITH Events <- 0 .. MaxBorn + 1, now <- Shown, stack <- Window, fresh <- dbl <= Interval

(* Hence a rewind leads only to moments of the player's own past, whatever   *)
(* was saved, lost at the far end of the ring, paused at or rewound before.  *)
THEOREM SnapshotsArePast == ASSUME ~Hasty PROVE Spec => []SnapshotsOnTimeline
<1>1. Stack!Init => StackFacts!Init
  BY DEF Stack!Init, Stack!Fresh, StackFacts!Init, StackFacts!Fresh
<1>2. [Stack!Next]_(Stack!vars) => [StackFacts!Next]_(StackFacts!vars)
  BY DEF Stack!Next, Stack!vars, Stack!Start, Stack!Fresh, Stack!Run, Stack!Save, Stack!Rewind, Stack!GoBack,
         StackFacts!Next, StackFacts!vars, StackFacts!Start, StackFacts!Fresh, StackFacts!Run,
         StackFacts!Save, StackFacts!Rewind, StackFacts!GoBack
<1>3. Stack!Spec => StackFacts!Spec
  BY <1>1, <1>2, PTL DEF Stack!Spec, StackFacts!Spec
<1>4. StackFacts!Spec => [](StackFacts!TypeOK /\ StackFacts!OnTimeline)
  <2>1. States \in Nat \ {0}
    BY RewindAssumption
  <2> QED
    BY <2>1, StackFacts!StackKeepsTimeline, PTL
<1>5. StackFacts!OnTimeline => SnapshotsOnTimeline
  BY DEF SnapshotsOnTimeline, Stack!OnTimeline, Stack!PastOf, StackFacts!OnTimeline, StackFacts!PastOf
<1> QED
  BY <1>3, <1>4, <1>5, RewindImplementsStack, PTL DEF RewindsAsAStack

-----------------------------------------------------------------------------
(* Without the option to pause after a rewind, movies stay in step with the *)
(* console they are played to or recorded from, of a player not Hasty.      *)

(* A snapshot carries the number of inputs its console has had in the movie, *)
(* its first frame not counted; the console itself is ahead of that by the   *)
(* input ProcessMovies has already dealt with.                               *)
SlotInStep(i) == mslots[i] + 1 = Len(slots[i])

RingInStep == movie # "off" => \A k \in 0 .. Kept - 1 : SlotInStep(Idx(k))

ConsoleInStep ==
    movie # "off" => IF mode = 0 /\ pc = "frame" THEN mpos = Len(now) ELSE mpos + 1 = Len(Shown)

(* A rewind that pauses only happens on the paused path. *)
PausesWhenHeld ==
    /\ paused /\ pc \in {"update", "rewind"} => ~key
    /\ mode = 2 => pc = "heldkey"

InStep == RingInStep /\ ConsoleInStep /\ PausesWhenHeld

LEMMA InStepInit == ASSUME Init PROVE InStep
BY DEF Init, InStep, RingInStep, ConsoleInStep, PausesWhenHeld

LEMMA RingInStepStays ==
    ASSUME RingInStep, UNCHANGED <<ringVars, mslots>>, movie' # "off" => movie # "off"
    PROVE  RingInStep'
<1>1. Kept' = Kept /\ \A k : Idx(k)' = Idx(k)
  BY SameRing DEF ringVars
<1> QED
  BY <1>1 DEF RingInStep, SlotInStep, ringVars

LEMMA InStepKeys ==
    ASSUME IInv, InStep, PressRewind \/ PressPause \/ PressStep \/ TakeOver \/ LeaveVblank
    PROVE  InStep'
<1>1. /\ UNCHANGED <<ringVars, mpos, mslots, pauseFrame>> /\ pc = "vblank"
      /\ movie' # "off" => movie # "off"
  BY DEF PressRewind, PressPause, PressStep, TakeOver, LeaveVblank, pauseVars, movieVars
<1>2. RingInStep'
  BY <1>1, RingInStepStays DEF InStep
<1>3. CASE LeaveVblank
  <2>1. Shown' = Shown /\ pc' # "frame" /\ mode' # 2
    BY <1>1, <1>3 DEF LeaveVblank, RestorePauseFrame, Shown, InStep, PausesWhenHeld
  <2>2. pc' \in {"update", "rewind"} => ~paused'
    BY <1>3 DEF LeaveVblank
  <2> QED
    BY <1>1, <1>2, <2>1, <2>2 DEF InStep, ConsoleInStep, PausesWhenHeld
<1>4. CASE ~LeaveVblank
  <2>1. UNCHANGED <<pc, now, mode>>
    BY <1>4 DEF PressRewind, PressPause, PressStep, TakeOver, pauseVars, movieVars
  <2>2. Shown' = Shown
    BY <1>1, <2>1 DEF Shown
  <2> QED
    BY <1>1, <1>2, <2>1, <2>2 DEF InStep, ConsoleInStep, PausesWhenHeld
<1> QED
  BY <1>3, <1>4

LEMMA InStepBegin ==
    ASSUME IInv, InStep, ~Hasty, Restart \/ \E kind \in Movies : StartMovie(kind)
    PROVE  InStep'
<1>1. Begin /\ Kept' = 0
  BY EmptyRingKept DEF Restart, StartMovie, Begin
<1>2. /\ pc' = "vblank" /\ mode' = 0 /\ born \in Nat /\ now' = <<born + 1>>
      /\ movie' # "off" => mpos' = 0
  <2>1. pc' = "vblank" /\ mode' = 0 /\ now' = <<born + 1>>
    BY <1>1 DEF Begin
  <2>2. born \in Nat
    BY RewindAssumption DEF IInv, TypeOK
  <2>3. movie' # "off" => mpos' = 0
    BY DEF Restart, StartMovie
  <2> QED
    BY <2>1, <2>2, <2>3
<1>3. Len(Shown') = 1
  BY <1>2 DEF Shown
<1> QED
  BY <1>1, <1>2, <1>3 DEF InStep, RingInStep, ConsoleInStep, PausesWhenHeld

LEMMA InStepNoMovie ==
    ASSUME IInv, InStep, StopMovie \/ LoadState
    PROVE  InStep'
<1>1. movie' = "off" /\ pc' = pc /\ pc = "vblank" /\ (mode' = mode \/ mode' = 1)
  BY DEF StopMovie, LoadState, movieVars, pauseVars
<1> QED
  BY <1>1 DEF InStep, RingInStep, ConsoleInStep, PausesWhenHeld

LEMMA InStepHeld == ASSUME IInv, InStep, Hold \/ LeaveHeld PROVE InStep'
<1>1. UNCHANGED <<now, ringVars, mpos, mslots, movie, paused, key>> /\ pc \in {"held", "heldkey"}
  BY DEF Hold, LeaveHeld, movieVars
<1>2. RingInStep'
  BY <1>1, RingInStepStays DEF InStep
<1>3. Shown' = Shown
  BY DEF Hold, LeaveHeld, Shown
<1>4. /\ pc' = "frame" => mode' = 3
      /\ pc' \in {"update", "rewind"} => ~key
      /\ mode' = 2 => pc' = "heldkey"
  BY DEF Hold, LeaveHeld
<1> QED
  BY <1>1, <1>2, <1>3, <1>4 DEF InStep, ConsoleInStep, PausesWhenHeld

LEMMA InStepPass ==
    ASSUME IInv, InStep, Tick \/ LeaveRewind \/ ProcessMovies \/ Frame
    PROVE  InStep'
<1>1. /\ UNCHANGED <<latest, earliest, passed, slots, mode, pauseFrame, paused, key>>
      /\ pc \in {"update", "rewind", "movie", "frame"}
      /\ movie' # "off" => movie' = movie /\ mslots' = mslots
  BY DEF Tick, LeaveRewind, ProcessMovies, Frame, ringVars, pauseVars, movieVars
<1>2. RingInStep'
  <2>1. Kept' = Kept /\ \A k : Idx(k)' = Idx(k)
    BY <1>1, SameRing
  <2> QED
    BY <1>1, <2>1 DEF InStep, RingInStep, SlotInStep
<1>3. PausesWhenHeld'
  <2>1. mode # 2
    BY <1>1 DEF InStep, PausesWhenHeld
  <2>2. pc' \in {"update", "rewind"} => pc \in {"update", "rewind"}
    BY DEF Tick, LeaveRewind, ProcessMovies, Frame
  <2> QED
    BY <1>1, <2>1, <2>2 DEF InStep, PausesWhenHeld
<1>4. ConsoleInStep'
  <2>1. CASE Tick \/ LeaveRewind
    <3>1. UNCHANGED <<now, mpos, movie>> /\ pc \in {"update", "rewind"} /\ (movie # "off" => pc' # "frame")
      BY <2>1 DEF Tick, LeaveRewind, movieVars
    <3>2. Shown' = Shown
      BY <1>1, <3>1 DEF Shown
    <3> QED
      BY <3>1, <3>2 DEF InStep, ConsoleInStep
  <2>2. CASE ProcessMovies
    <3>1. mode = 0
      BY <2>2 DEF ProcessMovies, IInv, TypeOK, Standing, InStep, PausesWhenHeld
    <3>2. pc = "movie" /\ pc' = "frame" /\ now' = now /\ (movie' # "off" => mpos' = mpos + 1)
      BY <2>2 DEF ProcessMovies
    <3> QED
      BY <1>1, <3>1, <3>2 DEF InStep, ConsoleInStep, Shown
  <2>3. CASE Frame
    <3>1. /\ pc = "frame" /\ pc' = "vblank" /\ now' = Append(now, born) /\ now \in Seq(Nat)
          /\ UNCHANGED <<mpos, movie, mode, pauseFrame>>
      BY <2>3 DEF Frame, pauseVars, movieVars, IInv, TypeOK
    <3>2. Len(now') = Len(now) + 1
      BY <3>1
    <3>3. mode \in {0, 3}
      BY <3>1 DEF IInv, TypeOK, Standing, InStep, PausesWhenHeld
    <3>4. CASE mode = 0
      BY <3>1, <3>2, <3>4 DEF InStep, ConsoleInStep, Shown
    <3>5. CASE mode = 3
      BY <3>1, <3>5 DEF InStep, ConsoleInStep, Shown
    <3> QED
      BY <3>3, <3>4, <3>5
  <2> QED
    BY <2>1, <2>2, <2>3
<1> QED
  BY <1>2, <1>3, <1>4 DEF InStep

LEMMA InStepBackup == ASSUME IInv, InStep, Backup PROVE InStep'
<1>1. PICK skip : skip = IF passed THEN 1 ELSE 0
  OBVIOUS
<1>2. PICK n : n = Kept + 1 - skip
  OBVIOUS
<1>3. /\ Kept' = n /\ n \in 1 .. States /\ Kept \in Nat /\ skip \in 0 .. 1
      /\ latest = Idx(n - 1)'
      /\ \A k \in 0 .. n - 2 : Idx(k)' = Idx(k + skip) /\ Idx(k)' # latest
  BY <1>1, <1>2, BackupShape DEF IInv
<1>4. /\ pc = "update" /\ pc' = "rewind" /\ slots' = [slots EXCEPT ![latest] = now]
      /\ movie # "off" => mslots' = [mslots EXCEPT ![latest] = mpos]
      /\ UNCHANGED <<now, mode, pauseFrame, paused, key, movie, mpos>>
  BY DEF Backup, pauseVars
<1>5. latest \in Slots /\ slots \in [Slots -> Seq(Nat)] /\ mslots \in [Slots -> Nat \cup {None}]
  BY DEF IInv, TypeOK
<1>6. mode = 0
  BY <1>4 DEF IInv, TypeOK, Standing, InStep, PausesWhenHeld
<1>7. movie # "off" => mpos + 1 = Len(now)
  BY <1>6, <1>4 DEF InStep, ConsoleInStep, Shown
<1>8. ASSUME movie # "off", NEW k \in 0 .. Kept' - 1
      PROVE  mslots'[Idx(k)'] + 1 = Len(slots'[Idx(k)'])
  <2>1. CASE k = n - 1
    <3>1. Idx(k)' = latest
      BY <1>3, <2>1
    <3> QED
      BY <1>4, <1>5, <1>7, <1>8, <3>1
  <2>2. CASE k # n - 1
    <3>1. k \in 0 .. n - 2 /\ k + skip \in 0 .. Kept - 1 /\ k + skip \in 0 .. States - 1
      <4>1. n \in Nat /\ States \in Nat /\ n <= States /\ k \in 0 .. n - 1
        BY <1>3, RewindAssumption
      <4>2. k \in 0 .. n - 2
        BY <2>2, <4>1
      <4>3. skip = 0 \/ skip = 1
        BY <1>3
      <4> QED
        BY <1>2, <1>3, <4>1, <4>2, <4>3
    <3>2. Idx(k)' = Idx(k + skip) /\ Idx(k + skip) # latest /\ Idx(k + skip) \in Slots
      BY <1>3, <3>1, IdxWrap DEF IInv, TypeOK
    <3>3. mslots[Idx(k + skip)] + 1 = Len(slots[Idx(k + skip)])
      BY <1>8, <3>1 DEF InStep, RingInStep, SlotInStep
    <3> QED
      BY <1>4, <1>5, <1>8, <3>2, <3>3
  <2> QED
    BY <2>1, <2>2
<1>9. RingInStep'
  BY <1>4, <1>8 DEF RingInStep, SlotInStep
<1>10. ConsoleInStep' /\ PausesWhenHeld'
  BY <1>4, <1>6, <1>7 DEF ConsoleInStep, PausesWhenHeld, Shown, InStep
<1> QED
  BY <1>9, <1>10 DEF InStep

LEMMA InStepRewind == ASSUME IInv, InStep, ~PauseRewind, Rewind PROVE InStep'
<1>1. PICK k : k = IF dbl <= Interval \/ Kept = 1 THEN Kept ELSE Kept - 1
  OBVIOUS
<1>2. Kept > 0 /\ mode \in {0, 2} /\ pc \in {"heldkey", "rewind"} /\ (movie = "rec" => mode = 0)
      /\ (pc = "rewind" => ~paused)
  <2>1. Kept # 0 /\ mode \notin {1, 3} /\ mode \in 0 .. 3 /\ Kept \in 0 .. States
        /\ (movie = "rec" => mode = 0)
    BY RingShape DEF Rewind, IInv, TypeOK, Standing
  <2>2. pc = "rewind" => ~paused
    BY DEF Rewind, InStep, PausesWhenHeld
  <2>3. pc \in {"heldkey", "rewind"}
    BY DEF Rewind
  <2> QED
    BY <2>1, <2>2, <2>3, RewindAssumption
<1>3. /\ k \in 1 .. Kept /\ Kept \in 1 .. States /\ Target = Idx(k - 1)
      /\ Kept' = k /\ earliest' = earliest
  BY <1>1, <1>2, RewindShape DEF IInv
<1>4. \A i : Idx(i)' = Idx(i)
  BY <1>3 DEF Idx
<1>5. UNCHANGED <<pc, slots, movie, mslots>> /\ key' = FALSE /\ now' = slots[Target] /\ mpos' = MovieBack
  BY DEF Rewind
<1>6. movie # "off" => mpos' + 1 = Len(slots[Target])
  <2>1. k - 1 \in 0 .. Kept - 1
    BY <1>3
  <2> QED
    BY <1>3, <1>5, <2>1 DEF InStep, RingInStep, SlotInStep, MovieBack
<1>7. (mode' = 2 => pc' = "heldkey") /\ (movie # "off" => Shown' = slots[Target])
  <2>1. CASE movie # "rec" /\ paused
    <3>1. mode' = 2 /\ pauseFrame' = slots[Target] /\ pc = "heldkey"
      BY <1>2, <2>1 DEF Rewind
    <3> QED
      BY <1>5, <3>1 DEF Shown
  <2>2. CASE ~(movie # "rec" /\ paused)
    <3>1. mode' = mode
      BY <1>2, <2>2 DEF Rewind
    <3>2. mode = 0
      <4>1. mode = 2 => paused
        BY DEF IInv, Standing
      <4> QED
        BY <1>2, <2>2, <4>1
    <3> QED
      BY <1>5, <3>1, <3>2 DEF Shown
  <2> QED
    BY <2>1, <2>2
<1>8. RingInStep'
  <2>1. \A i \in 0 .. k - 1 : i \in 0 .. Kept - 1
    BY <1>3
  <2> QED
    BY <1>3, <1>4, <1>5, <2>1 DEF InStep, RingInStep, SlotInStep
<1>9. ConsoleInStep' /\ PausesWhenHeld'
  BY <1>2, <1>5, <1>6, <1>7 DEF ConsoleInStep, PausesWhenHeld
<1> QED
  BY <1>8, <1>9 DEF InStep

LEMMA InStepStep == ASSUME IInv, InStep, ~Hasty, ~PauseRewind, [Next]_vars PROVE InStep'
<1>1. CASE UNCHANGED vars
  <2>1. RingInStep'
    BY <1>1, RingInStepStays DEF InStep, vars, ringVars, movieVars
  <2> QED
    BY <1>1, <2>1 DEF InStep, ConsoleInStep, PausesWhenHeld, Shown, vars, pauseVars, movieVars
<1> QED
  BY <1>1, InStepKeys, InStepBegin, InStepNoMovie, InStepHeld, InStepPass, InStepBackup, InStepRewind
  DEF Next

(* For every ring, interval, movie and pause, if rewinding does not itself   *)
(* pause the console: the input a movie plays or records next is the one of  *)
(* the frame about to be emulated, however often the player rewinds.         *)
THEOREM MovieStaysInStep == ASSUME ~Hasty, ~PauseRewind PROVE Spec => []MovieInStep
<1>1. Init => InStep
  BY InStepInit
<1>2. IInv /\ InStep /\ [Next]_vars => InStep'
  BY InStepStep
<1>3. IInv /\ InStep => MovieInStep
  BY DEF IInv, TypeOK, Standing, InStep, ConsoleInStep, PausesWhenHeld, MovieInStep, Shown
<1> QED
  BY <1>1, <1>2, <1>3, Invariance, PTL DEF Spec
=============================================================================
