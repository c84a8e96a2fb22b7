---------------------------- MODULE AudioProofs ----------------------------
(***************************************************************************)
(* The account of samples, the two back ends that keep to it with no ring  *)
(* of their own, and PipeWire's ring: for any rates, sizes, device, server *)
(* and scheduling.                                                         *)
(***************************************************************************)
EXTENDS AudioHandoff, AudioSdl, AudioRing, SequenceTheorems, TLAPS

(* The account: what the paid frames are worth is what was handed out, and  *)
(* less than a sample that is carried on.                                   *)
ClockInv ==
    /\ paid \in Nat /\ owed \in Nat /\ balance \in Nat
    /\ balance >= HI /\ balance < HI + LO
    /\ owed * LO + balance = paid * HI + HI

LEMMA Distribute == \A a, b, c \in Nat : (a + b) * c = a * c + b * c /\ a * c \in Nat
  OBVIOUS

LEMMA Quotient ==
    ASSUME NEW n \in Int, NEW d \in Int, n >= 0, d > 0
    PROVE  /\ n \div d \in Nat /\ n % d \in Nat /\ n % d < d
           /\ n = (n \div d) * d + (n % d)
<1>1. n = (n \div d) * d + (n % d)
  OBVIOUS
<1>2. n \div d \in Nat /\ n % d \in Nat /\ n % d < d
  OBVIOUS
<1> QED
  BY <1>1, <1>2

LEMMA ClockStarts == ClockInit => ClockInv
  BY ClockAssumption DEF ClockInit, ClockInv

LEMMA PayKeeps == ClockInv /\ Pay => ClockInv' /\ Due \in Nat
<1> SUFFICES ASSUME ClockInv, Pay PROVE ClockInv' /\ Due \in Nat
  OBVIOUS
<1> DEFINE q == balance \div LO
           r == balance % LO
<1>1. /\ HI \in Nat /\ LO \in Nat \ {0} /\ paid \in Nat /\ owed \in Nat /\ balance \in Nat
      /\ balance' = r + HI /\ paid' = paid + 1 /\ owed' = owed + q
  BY ClockAssumption DEF ClockInv, Pay, Due
<1>2. q \in Nat /\ r \in Nat /\ r < LO /\ balance = q * LO + r
  BY <1>1, Quotient
<1> HIDE DEF q, r
<1>3. owed' * LO = owed * LO + q * LO /\ paid' * HI = paid * HI + 1 * HI
      /\ owed * LO \in Nat /\ q * LO \in Nat /\ paid * HI \in Nat
  BY <1>1, <1>2, Distribute
<1>4. 1 * HI = HI
  BY <1>1
<1>5. owed * LO + balance = paid * HI + HI
  BY DEF ClockInv
<1>6. owed' * LO + balance' = paid' * HI + HI
  BY <1>1, <1>2, <1>3, <1>4, <1>5
<1>7. balance' \in Nat /\ balance' >= HI /\ balance' < HI + LO
  BY <1>1, <1>2
<1>8. paid' \in Nat /\ owed' \in Nat
  BY <1>1, <1>2
<1> QED
  BY <1>2, <1>6, <1>7, <1>8 DEF ClockInv, Due, q

LEMMA ClockTells == ClockInv => NoDrift
<1> SUFFICES ASSUME ClockInv PROVE NoDrift
  OBVIOUS
<1>1. HI \in Nat /\ LO \in Nat \ {0} /\ owed \in Nat /\ paid \in Nat
  BY ClockAssumption DEF ClockInv
<1>2. (owed + 1) * LO = owed * LO + 1 * LO /\ owed * LO \in Nat /\ paid * HI \in Nat /\ 1 * LO = LO
  BY <1>1, Distribute
<1> QED
  BY <1>1, <1>2 DEF ClockInv, NoDrift

-----------------------------------------------------------------------------
(* libao.  Samples are in the thread's hands only between its taking them   *)
(* and the end of their rendering.                                          *)
HandInv ==
    /\ ClockInv
    /\ samples_waiting \in Nat /\ samples \in Nat /\ rendered \in Nat /\ refused \in Nat
    /\ thread \notin {"play", "mix"} => samples = 0
    /\ EverySampleOnce

LEMMA HandStarts == HandInit => HandInv
  BY ClockStarts DEF HandInit, ClockInit, HandInv, EverySampleOnce

LEMMA WriteKeeps == ASSUME HandInv, SoundWrite_ao PROVE HandInv'
<1>1. CASE Request
  <2>1. ClockInv' /\ Due \in Nat /\ owed' = owed + Due
    BY <1>1, PayKeeps DEF Request, HandInv, Pay
  <2>2. samples_waiting = 0 /\ samples_waiting' = Due /\ UNCHANGED <<samples, rendered, refused>>
    BY <1>1 DEF Request
  <2>3. thread' \notin {"play", "mix"} => thread \notin {"play", "mix"}
    BY <1>1 DEF Request, Woken
  <2>4. owed \in Nat
    BY DEF HandInv, ClockInv
  <2> QED
    BY <2>1, <2>2, <2>3, <2>4 DEF HandInv, EverySampleOnce
<1>2. CASE NoDevice \/ NotTakenYet \/ Busy
  <2>1. UNCHANGED <<samples_waiting, samples, thread, refused, rendered, balance, paid, owed>>
    BY <1>2 DEF NoDevice, NotTakenYet, Busy, SkipFrame, hand
  <2> QED
    BY <2>1 DEF HandInv, ClockInv, EverySampleOnce
<1> QED
  BY <1>1, <1>2 DEF SoundWrite_ao

LEMMA ThreadKeeps == ASSUME HandInv, SoundThread_ao \/ ThreadStirs PROVE HandInv'
<1>1. CASE ThreadTakes
  BY <1>1 DEF ThreadTakes, Goes, clock, HandInv, ClockInv, EverySampleOnce
<1>2. CASE ThreadPlays
  <2>1. UNCHANGED <<samples_waiting, rendered, clock>> /\ thread = "play"
    BY <1>2 DEF ThreadPlays, Goes
  <2>2. \/ thread' = "mix" /\ UNCHANGED <<samples, refused>>
        \/ thread' = "top" /\ samples' = 0 /\ refused' = refused + samples
    BY <1>2 DEF ThreadPlays, Goes
  <2>3. CASE thread' = "mix" /\ UNCHANGED <<samples, refused>>
    BY <2>1, <2>3 DEF clock, HandInv, ClockInv, EverySampleOnce
  <2>4. CASE thread' = "top" /\ samples' = 0 /\ refused' = refused + samples
    BY <2>1, <2>4 DEF clock, HandInv, ClockInv, EverySampleOnce
  <2> QED
    BY <2>2, <2>3, <2>4
<1>3. CASE ThreadMixes
  BY <1>3 DEF ThreadMixes, Goes, clock, HandInv, ClockInv, EverySampleOnce
<1>4. CASE ThreadTop \/ ThreadWaits \/ ThreadSleeps \/ ThreadWakes \/ ThreadStirs
  <2>1. /\ UNCHANGED <<samples_waiting, samples, rendered, refused, clock>>
        /\ thread \notin {"play", "mix"}
    BY <1>4 DEF ThreadTop, ThreadWaits, ThreadSleeps, ThreadWakes, ThreadStirs, Goes
  <2> QED
    BY <2>1 DEF clock, HandInv, ClockInv, EverySampleOnce
<1> QED
  BY <1>1, <1>2, <1>3, <1>4 DEF SoundThread_ao

LEMMA DeviceKeeps == ASSUME HandInv, CloseDevice \/ OpenDevice \/ Terminate \/ Abandon \/ Join PROVE HandInv'
<1>1. UNCHANGED <<samples_waiting, samples, rendered, refused, clock>> /\ thread' \in {thread, Woken}
  BY DEF CloseDevice, OpenDevice, Terminate, Abandon, Join
<1>2. thread' \notin {"play", "mix"} => thread \notin {"play", "mix"}
  BY <1>1 DEF Woken
<1> QED
  BY <1>1, <1>2 DEF clock, HandInv, ClockInv, EverySampleOnce

LEMMA HandNextKeeps == HandInv /\ [HandNext]_handVars => HandInv'
<1>1. HandInv /\ UNCHANGED handVars => HandInv'
  BY DEF handVars, hand, clock, HandInv, ClockInv, EverySampleOnce
<1> QED
  BY <1>1, WriteKeeps, ThreadKeeps, DeviceKeeps DEF HandNext

(* For any rate, and however the two threads are scheduled, closed devices  *)
(* and shut-downs included: every sample the account was charged for is     *)
(* waiting, taken, rendered or refused (SoundWrite_ao and SoundThread_ao).  *)
THEOREM SamplesOnce == HandSpec => []EverySampleOnce
<1>1. HandInv => EverySampleOnce
  BY DEF HandInv
<1> QED
  BY <1>1, HandStarts, HandNextKeeps, PTL DEF HandSpec

(* libao's account never drifts from the frames it was paid for.            *)
THEOREM HandKeepsAccount == HandSpec => []NoDrift
<1>1. HandInv => NoDrift
  BY ClockTells DEF HandInv
<1> QED
  BY <1>1, HandStarts, HandNextKeeps, PTL DEF HandSpec

-----------------------------------------------------------------------------
(* SDL. *)
SdlInv ==
    /\ ClockInv
    /\ queued \in Nat /\ queued <= sdl_audio_buffer_len + Frame

LEMMA DueFits == ClockInv => Due <= Frame
<1> SUFFICES ASSUME ClockInv PROVE Due <= Frame
  OBVIOUS
<1>1. /\ HI \in Nat /\ LO \in Nat \ {0} /\ Frame \in Nat /\ balance \in Nat
      /\ balance < HI + LO /\ HI <= Frame * LO
  BY ClockAssumption, SdlAssumption DEF ClockInv
<1>2. Due \in Nat /\ Due * LO <= balance
  BY <1>1, Quotient DEF Due
<1>3. ASSUME Due >= Frame + 1 PROVE FALSE
  <2>1. PICK k \in Nat : Due = (Frame + 1) + k
    <3>1. Due - (Frame + 1) \in Nat
      BY <1>1, <1>2, <1>3
    <3> QED
      BY <1>1, <1>2, <3>1
  <2>2. Due * LO = (Frame + 1) * LO + k * LO /\ k * LO \in Nat
        /\ (Frame + 1) * LO = Frame * LO + 1 * LO /\ Frame * LO \in Nat /\ 1 * LO = LO
    BY <1>1, <2>1, Distribute
  <2>3. Due * LO >= Frame * LO + LO
    BY <1>1, <2>2
  <2> QED
    BY <1>1, <1>2, <2>2, <2>3
<1> QED
  BY <1>1, <1>2, <1>3

LEMMA SdlNextKeeps == SdlInv /\ [SdlNext]_sdlVars => SdlInv'
<1> SUFFICES ASSUME SdlInv, [SdlNext]_sdlVars PROVE SdlInv'
  OBVIOUS
<1>0. Period \in Nat /\ Frame \in Nat /\ queued \in Nat
  BY SdlAssumption DEF SdlInv
<1>1. CASE SoundWrite_sdl
  <2>1. ClockInv' /\ Due \in Nat /\ Due <= Frame
    BY <1>1, PayKeeps, DueFits DEF SoundWrite_sdl, SdlInv
  <2> QED
    BY <1>0, <1>1, <2>1 DEF SoundWrite_sdl, SdlInv, sdl_audio_buffer_len, sdl_audio_target
<1>2. CASE DevicePlays
  BY <1>0, <1>2 DEF DevicePlays, SdlInv, ClockInv, clock, sdl_audio_buffer_len, sdl_audio_target
<1>3. CASE UNCHANGED sdlVars
  BY <1>3 DEF sdlVars, clock, SdlInv, ClockInv, sdl_audio_buffer_len, sdl_audio_target
<1> QED
  BY <1>1, <1>2, <1>3 DEF SdlNext

(* For any rate and any device, however slow: what the game sounds is heard *)
(* within the queue's length and a frame, and no rounding adds up to drift  *)
(* (SoundWrite_sdl).                                                        *)
THEOREM SoundStaysInStep == SdlSpec => []SoundKeepsStep
<1>1. SdlInit => SdlInv
  BY ClockStarts, SdlAssumption DEF SdlInit, SdlInv, sdl_audio_buffer_len, sdl_audio_target
<1>2. SdlInv => SoundKeepsStep
  BY ClockTells, SdlAssumption DEF SdlInv, SoundKeepsStep, LagBounded, sdl_audio_buffer_len, sdl_audio_target
<1> QED
  BY <1>1, <1>2, SdlNextKeeps, PTL DEF SdlSpec

-----------------------------------------------------------------------------
(* The ring between the emulator and the PipeWire server. *)
(* Numbers modulo d: a wrap at most, and two near each other. *)
LEMMA WrapOnce ==
    ASSUME NEW d \in Nat \ {0}, NEW x \in 0 .. 2 * d - 1
    PROVE  x % d = IF x < d THEN x ELSE x - d
BY SMT

LEMMA WrapSum ==
    ASSUME NEW d \in Nat \ {0}, NEW a \in 0 .. d - 1, NEW b \in 0 .. d
    PROVE  (a + b) % d = IF a + b < d THEN a + b ELSE a + b - d
BY SMT

LEMMA WrapBack ==
    ASSUME NEW d \in Nat \ {0}, NEW x \in Int, -d < x, x < 0
    PROVE  x % d = x + d
BY SMT

(* How far t is behind h where both count modulo d. *)
LEMMA LagIs ==
    ASSUME NEW d \in Nat \ {0}, NEW h \in 0 .. d - 1, NEW t \in 0 .. d - 1
    PROVE  (h - t) % d = IF t <= h THEN h - t ELSE h - t + d
<1>1. PICK x : x = h - t
  OBVIOUS
<1>2. CASE t <= h
  <2>1. x \in 0 .. 2 * d - 1 /\ x < d
    BY <1>1, <1>2
  <2>2. x % d = x
    BY <2>1, WrapOnce
  <2> QED
    BY <1>1, <1>2, <2>2
<1>3. CASE ~ (t <= h)
  <2>1. x \in Int /\ -d < x /\ x < 0
    BY <1>1, <1>3
  <2>2. x % d = x + d
    BY <2>1, WrapBack
  <2> QED
    BY <1>1, <1>3, <2>2
<1> QED
  BY <1>2, <1>3

LEMMA Remainder ==
    ASSUME NEW d \in Nat \ {0}, NEW n \in Nat
    PROVE  n % d \in 0 .. d - 1
BY SMT

LEMMA NearMod ==
    ASSUME NEW d \in Nat \ {0}, NEW m \in Nat, NEW n \in Nat, n - m < d, m - n < d
    PROVE  ((n % d) - (m % d) + d) % d = IF m <= n THEN n - m ELSE n - m + d
<1> DEFINE a == m % d
           b == n % d
           k == (n \div d) - (m \div d)
<1>1. k \in Int /\ n - m = (b - a) + d * k
  OBVIOUS
<1>2. a \in 0 .. d - 1 /\ b \in 0 .. d - 1
  BY Remainder
<1> HIDE DEF a, b, k
<1>3. d * k \in Int /\ (k >= 2 => d * k >= 2 * d) /\ (k <= -2 => d * k <= -2 * d)
      /\ (k = 1 => d * k = d) /\ (k = 0 => d * k = 0) /\ (k = -1 => d * k = - d)
  BY <1>1
<1>4. k \in -1 .. 1
  BY <1>1, <1>2, <1>3
<1>5. b - a + d \in 0 .. 2 * d - 1
  BY <1>2
<1>6. (b - a + d) % d = IF b - a + d < d THEN b - a + d ELSE b - a
  <2> DEFINE x == b - a + d
  <2>1. x \in 0 .. 2 * d - 1
    BY <1>5
  <2> HIDE DEF x
  <2>2. x % d = IF x < d THEN x ELSE x - d
    BY <2>1, WrapOnce
  <2>3. x - d = b - a
    BY <1>2 DEF x
  <2> QED
    BY <2>2, <2>3 DEF x
<1>7. n - m = b - a \/ n - m = b - a + d \/ n - m = b - a - d
  BY <1>1, <1>2, <1>3, <1>4
<1>8. (b - a + d) % d = IF m <= n THEN n - m ELSE n - m + d
  BY <1>2, <1>6, <1>7
<1> QED
  BY <1>8 DEF a, b

(* Two numbers less than d apart do not meet on a ring of d places. *)
LEMMA FarMod ==
    ASSUME NEW d \in Nat \ {0}, NEW m \in Nat, NEW n \in Nat, m < n, n - m < d
    PROVE  m % d # n % d
<1> SUFFICES ASSUME m % d = n % d PROVE FALSE
  OBVIOUS
<1> DEFINE k == (n \div d) - (m \div d)
<1>1. k \in Int /\ n - m = d * k
  OBVIOUS
<1> HIDE DEF k
<1>2. k <= 0 => d * k <= 0
  BY <1>1
<1>3. k >= 1 => d * k >= d
  BY <1>1
<1> QED
  BY <1>1, <1>2, <1>3

Held == Samples \cup {Noise}

(* The ring is there before anybody uses it, and never holds more than it    *)
(* has places.                                                               *)
RingInv ==
    /\ RingTypeOK
    /\ Fill <= size
    /\ size < MinFrames =>
          /\ size = 0 /\ ~ready /\ emu.at = "idle" /\ srv.at \in {"idle", "allocate"}
          /\ head = 0 /\ tail = 0

LEMMA Sizes ==
    ASSUME RingInv
    PROVE  /\ Wrap \in Nat \ {0} /\ size \in Nat /\ size < Wrap /\ MaxFrames \in Nat
           /\ head \in 0 .. Wrap - 1 /\ tail \in 0 .. Wrap - 1
           /\ Fill = IF tail <= head THEN head - tail ELSE head - tail + Wrap
           /\ Fill \in 0 .. size
           /\ MinFrames \in Nat \ {0}
           /\ ring \in [1 .. size -> Held]
<1>1. /\ Wrap \in Nat \ {0} /\ size \in Nat /\ size < Wrap /\ MaxFrames \in Nat /\ MinFrames \in Nat \ {0}
      /\ head \in 0 .. Wrap - 1 /\ tail \in 0 .. Wrap - 1
      /\ ring \in [1 .. size -> Held]
  BY RingAssumption DEF RingInv, RingTypeOK, Held, RingAssumption
<1>2. Fill = IF tail <= head THEN head - tail ELSE head - tail + Wrap
  BY <1>1, LagIs DEF Fill
<1>3. Fill \in 0 .. size
  BY <1>1, <1>2 DEF RingInv
<1> QED
  BY <1>1, <1>2, <1>3

LEMMA PlaceIn ==
    ASSUME size \in Nat \ {0}, NEW c \in Nat
    PROVE  Place(c) \in 1 .. size
<1>1. c % size \in 0 .. size - 1
  BY Remainder
<1> QED
  BY <1>1 DEF Place

(* The counter of the i-th sample queued. *)
LEMMA CounterIs ==
    ASSUME RingInv, NEW i \in 1 .. Fill, NEW x, x = tail + i - 1
    PROVE  /\ x \in Nat /\ size \in Nat \ {0}
           /\ x % Wrap = IF x < Wrap THEN x ELSE x - Wrap
           /\ x % Wrap \in Nat
           /\ Queued[i] = ring[Place(x % Wrap)]
           /\ Queued[i] \in Held
<1>1. /\ Wrap \in Nat \ {0} /\ size \in Nat /\ tail \in 0 .. Wrap - 1
      /\ Fill \in 0 .. size /\ size < Wrap /\ ring \in [1 .. size -> Held]
  BY Sizes
<1>3. x \in 0 .. 2 * Wrap - 1 /\ size \in Nat \ {0}
  BY <1>1
<1>4. x % Wrap = IF x < Wrap THEN x ELSE x - Wrap
  BY <1>1, <1>3, WrapOnce
<1>5. x % Wrap \in Nat
  <2>1. (IF x < Wrap THEN x ELSE x - Wrap) \in Nat
    BY <1>1, <1>3
  <2> QED
    BY <1>4, <2>1
<1>6. Queued[i] = ring[Place(x % Wrap)]
  BY DEF Queued
<1>7. Place(x % Wrap) \in 1 .. size
  BY <1>3, <1>5, PlaceIn
<1>8. Queued[i] \in Held
  BY <1>1, <1>6, <1>7
<1> QED
  BY <1>3, <1>4, <1>5, <1>6, <1>8

LEMMA QueuedIs ==
    ASSUME RingInv
    PROVE  Queued \in [1 .. Fill -> Held] /\ Queued \in Seq(Held) /\ Len(Queued) = Fill
<1>1. Fill \in Nat
  BY Sizes
<1>2. ASSUME NEW i \in 1 .. Fill PROVE Queued[i] \in Held
  <2>1. PICK x : x = tail + i - 1
    OBVIOUS
  <2> QED
    BY <2>1, CounterIs
<1>3. Queued \in [1 .. Fill -> Held]
  <2>1. Queued = [i \in 1 .. Fill |-> ring[Place((tail + i - 1) % Wrap)]]
    BY DEF Queued
  <2>2. Queued = [i \in 1 .. Fill |-> Queued[i]]
    BY <2>1, Zenon
  <2> QED
    BY <1>2, <2>2
<1> QED
  BY <1>1, <1>3

(* The samples since the count started anew stand at their own counters. *)
LEMMA NewestAt ==
    ASSUME RingInv, NEW k \in Nat, k <= head, k <= Fill,
           NEW i \in 1 .. Fill, i > Fill - k, NEW c, c = head - Fill + i - 1
    PROVE  c \in Nat /\ Queued[i] = ring[Place(c)]
<1>1. /\ Wrap \in Nat \ {0} /\ size \in Nat /\ size < Wrap
      /\ head \in 0 .. Wrap - 1 /\ tail \in 0 .. Wrap - 1
      /\ Fill = IF tail <= head THEN head - tail ELSE head - tail + Wrap
      /\ Fill \in 0 .. size
  BY Sizes
<1>2. PICK x : x = tail + i - 1
  OBVIOUS
<1>3. x % Wrap = IF x < Wrap THEN x ELSE x - Wrap
  BY <1>2, CounterIs
<1>4. (IF x < Wrap THEN x ELSE x - Wrap) = c
  BY <1>1, <1>2
<1>5. Queued[i] = ring[Place(x % Wrap)]
  BY <1>2, CounterIs
<1> QED
  BY <1>1, <1>3, <1>4, <1>5

(* Without a wrap in between, all of them do. *)
LEMMA StraightAt ==
    ASSUME RingInv, tail <= head, NEW i \in 1 .. Fill, NEW c, c = tail + i - 1
    PROVE  c \in Nat /\ Queued[i] = ring[Place(c)]
<1>1. /\ Wrap \in Nat \ {0} /\ head \in 0 .. Wrap - 1 /\ tail \in 0 .. Wrap - 1
      /\ Fill = head - tail
  BY Sizes
<1>2. c < Wrap /\ c \in Nat
  BY <1>1
<1>3. c % Wrap = c /\ Queued[i] = ring[Place(c % Wrap)]
  BY <1>2, CounterIs
<1> QED
  BY <1>2, <1>3

(* What each operation on the store does to it. *)
LEMMA FreeKeeps ==
    ASSUME RingInv, NEW n \in 0 .. Fill, Free(n)
    PROVE  /\ size' = size /\ head' = head
           /\ tail' = IF tail + n < Wrap THEN tail + n ELSE tail + n - Wrap
           /\ tail' \in 0 .. Wrap - 1
           /\ ring' \in [1 .. size -> Held]
           /\ Fill' = Fill - n
<1>1. /\ Wrap \in Nat \ {0} /\ size \in Nat /\ size < Wrap
      /\ head \in 0 .. Wrap - 1 /\ tail \in 0 .. Wrap - 1
      /\ Fill = IF tail <= head THEN head - tail ELSE head - tail + Wrap
      /\ Fill \in 0 .. size /\ ring \in [1 .. size -> Held]
  BY Sizes
<1>2. size' = size /\ head' = head /\ tail' = (tail + n) % Wrap
  BY DEF Free
<1>3. n \in 0 .. Wrap
  BY <1>1
<1>4. tail' = IF tail + n < Wrap THEN tail + n ELSE tail + n - Wrap
  BY <1>1, <1>2, <1>3, WrapSum
<1>5. tail' \in 0 .. Wrap - 1
  BY <1>1, <1>3, <1>4
<1>6. Fill' = Fill - n
  <2>1. Fill' = (head - tail') % Wrap
    BY <1>2 DEF Fill
  <2>2. (head - tail') % Wrap = IF tail' <= head THEN head - tail' ELSE head - tail' + Wrap
    BY <1>1, <1>5, LagIs
  <2> QED
    BY <1>1, <1>4, <1>5, <2>1, <2>2
<1>7. ring' \in [1 .. size -> Held]
  BY <1>1 DEF Free, Held
<1> QED
  BY <1>2, <1>4, <1>5, <1>6, <1>7

LEMMA BlockKeeps ==
    ASSUME RingInv, NEW block \in Seq(Samples), Len(block) \in 1 .. size - 1, WriteBlock(block)
    PROVE  /\ size' = size
           /\ head' = IF head + Len(block) < Wrap THEN head + Len(block) ELSE head + Len(block) - Wrap
           /\ head' = (head + Len(block)) % Wrap
           /\ head' \in 0 .. Wrap - 1 /\ tail' \in 0 .. Wrap - 1
           /\ ring' \in [1 .. size -> Held]
           /\ Fill' = Smaller(Fill + Len(block), size)
<1> DEFINE n == Len(block)
           lost == Larger(0, n - (size - Fill))
           offset == [i \in 1 .. size |-> (i - Place(head) + size) % size]
<1>1. /\ Wrap \in Nat \ {0} /\ size \in Nat /\ size < Wrap
      /\ head \in 0 .. Wrap - 1 /\ tail \in 0 .. Wrap - 1
      /\ Fill = IF tail <= head THEN head - tail ELSE head - tail + Wrap
      /\ Fill \in 0 .. size /\ ring \in [1 .. size -> Held]
  BY Sizes
<1>2. n \in 1 .. size - 1 /\ size \in Nat \ {0}
  BY <1>1
<1>3. /\ size' = size /\ head' = (head + n) % Wrap /\ tail' = (tail + lost) % Wrap
      /\ ring' = [i \in 1 .. size |-> IF offset[i] < n THEN block[offset[i] + 1] ELSE ring[i]]
  BY DEF WriteBlock
<1> HIDE DEF n
<1>4. lost \in 0 .. n /\ Fill + n - lost = Smaller(Fill + n, size)
  <2>1. lost = IF 0 > n - (size - Fill) THEN 0 ELSE n - (size - Fill)
    BY DEF Larger
  <2> HIDE DEF lost
  <2>2. Smaller(Fill + n, size) = IF Fill + n < size THEN Fill + n ELSE size
    BY DEF Smaller
  <2> QED
    BY <1>1, <1>2, <2>1, <2>2
<1> HIDE DEF lost
<1>5. head' = IF head + n < Wrap THEN head + n ELSE head + n - Wrap
  <2>1. n \in 0 .. Wrap
    BY <1>1, <1>2, <1>4
  <2> QED
    BY <1>1, <1>3, <2>1, WrapSum
<1>6. tail' = IF tail + lost < Wrap THEN tail + lost ELSE tail + lost - Wrap
  <2>1. lost \in 0 .. Wrap
    BY <1>1, <1>2, <1>4
  <2> QED
    BY <1>1, <1>3, <2>1, WrapSum
<1>7. head' \in 0 .. Wrap - 1 /\ tail' \in 0 .. Wrap - 1
  BY <1>1, <1>2, <1>4, <1>5, <1>6
<1>8. Fill' = Fill + n - lost
  <2>1. Fill' = (head' - tail') % Wrap
    BY DEF Fill
  <2>2. (head' - tail') % Wrap = IF tail' <= head' THEN head' - tail' ELSE head' - tail' + Wrap
    BY <1>1, <1>7, LagIs
  <2>3. 0 <= Fill + n - lost /\ Fill + n - lost <= size
    BY <1>1, <1>2, <1>4 DEF Smaller
  <2> QED
    BY <1>1, <1>2, <1>4, <1>5, <1>6, <1>7, <2>1, <2>2, <2>3
<1>9. ring' \in [1 .. size -> Held]
  <2>1. ASSUME NEW i \in 1 .. size, offset[i] < n PROVE block[offset[i] + 1] \in Held
    <3>1. Place(head) \in 1 .. size
      BY <1>1, <1>2, PlaceIn
    <3>2. PICK x : x = i - Place(head) + size
      OBVIOUS
    <3>3. x \in Nat
      BY <1>1, <3>1, <3>2
    <3>4. x % size \in 0 .. size - 1 /\ offset[i] = x % size
      BY <1>2, <3>2, <3>3, Remainder
    <3> HIDE DEF offset
    <3>5. offset[i] + 1 \in 1 .. n
      BY <1>1, <1>2, <2>1, <3>4
    <3>6. block[offset[i] + 1] \in Samples
      BY <3>5, ElementOfSeq DEF n
    <3> QED
      BY <3>6 DEF Held
  <2> HIDE DEF offset
  <2>2. \A i \in 1 .. size : (IF offset[i] < n THEN block[offset[i] + 1] ELSE ring[i]) \in Held
    BY <1>1, <2>1
  <2> QED
    BY <1>3, <2>2
<1> QED
  BY <1>3, <1>4, <1>5, <1>7, <1>8, <1>9 DEF n

LEMMA ResizeKeeps ==
    ASSUME RingInv, NEW want \in Nat, Resize(want)
    PROVE  \/ UNCHANGED store
           \/ /\ size' \in Nat /\ size' > size /\ size' <= MaxFrames
              /\ tail' = 0 /\ head' = Fill /\ Fill' = Fill
              /\ ring' \in [1 .. size' -> Held]
              /\ \A i \in 1 .. Fill : ring'[i] = ring[Place(tail + i - 1)]
<1> DEFINE to == Smaller(want, MaxFrames)
<1>1. /\ Wrap \in Nat \ {0} /\ size \in Nat /\ size < Wrap /\ MaxFrames \in Nat
      /\ head \in 0 .. Wrap - 1 /\ tail \in 0 .. Wrap - 1
      /\ Fill \in 0 .. size /\ ring \in [1 .. size -> Held]
  BY Sizes
<1>2. to \in Nat /\ to <= MaxFrames
  BY <1>1 DEF Smaller
<1>3. CASE to <= size
  BY <1>3 DEF Resize
<1>4. CASE ~ (to <= size)
  <2>1. /\ ring' = Run(tail, Fill) \o Blank(to - Fill) /\ size' = to /\ tail' = 0 /\ head' = Fill
    BY <1>4 DEF Resize
  <2>2. \A i \in 1 .. Fill : Run(tail, Fill)[i] = ring[Place(tail + i - 1)]
    BY DEF Run
  <2>3. ASSUME NEW i \in 1 .. Fill PROVE ring[Place(tail + i - 1)] \in Held
    <3>1. PICK c : c = tail + i - 1
      OBVIOUS
    <3>2. c \in Nat /\ size \in Nat \ {0}
      BY <1>1, <3>1
    <3>3. Place(c) \in 1 .. size
      BY <3>2, PlaceIn
    <3> QED
      BY <1>1, <3>1, <3>3
  <2>4. Run(tail, Fill) \in [1 .. Fill -> Held]
    BY <2>3 DEF Run
  <2> HIDE DEF to
  <2>5. to - Fill \in Nat
    BY <1>1, <1>2, <1>4
  <2>6. Blank(to - Fill) \in [1 .. to - Fill -> Held]
    BY <2>5 DEF Blank, Held
  <2>7. /\ Run(tail, Fill) \in Seq(Held) /\ Len(Run(tail, Fill)) = Fill
        /\ Blank(to - Fill) \in Seq(Held) /\ Len(Blank(to - Fill)) = to - Fill
    <3>1. PICK m : m = to - Fill
      OBVIOUS
    <3>2. m \in Nat /\ Blank(m) \in [1 .. m -> Held] /\ Fill \in Nat
      BY <1>1, <2>5, <2>6, <3>1
    <3>3. Blank(m) \in Seq(Held) /\ Len(Blank(m)) = m
      BY <3>2
    <3> QED
      BY <2>4, <3>1, <3>2, <3>3
  <2>8. /\ ring' \in Seq(Held) /\ Len(ring') = Fill + (to - Fill)
        /\ \A i \in 1 .. Fill + (to - Fill) :
              ring'[i] = IF i <= Fill THEN Run(tail, Fill)[i] ELSE Blank(to - Fill)[i - Fill]
    BY <2>1, <2>7, ConcatProperties
  <2>9. Fill + (to - Fill) = to
    BY <1>1, <1>2
  <2>10. ring' \in [1 .. to -> Held]
    BY <2>8, <2>9, LenProperties
  <2>11. \A i \in 1 .. Fill : i \in 1 .. to /\ i <= Fill
    BY <1>1, <1>2, <1>4
  <2>12. \A i \in 1 .. Fill : ring'[i] = ring[Place(tail + i - 1)]
    BY <2>2, <2>8, <2>9, <2>11
  <2>13. Fill' = Fill
    <3>1. Fill' = (Fill - 0) % Wrap
      BY <2>1 DEF Fill
    <3>2. Fill \in 0 .. Wrap - 1 /\ 0 \in 0 .. Wrap - 1
      BY <1>1
    <3>3. (Fill - 0) % Wrap = Fill
      BY <1>1, <3>2, LagIs
    <3> QED
      BY <3>1, <3>3
  <2> QED
    BY <1>1, <1>2, <1>4, <2>1, <2>10, <2>12, <2>13
<1> QED
  BY <1>3, <1>4

(* The ring's invariant holds at first. *)
LEMMA RingStarts == RingInit => RingInv
<1> SUFFICES ASSUME RingInit PROVE RingInv
  OBVIOUS
<1>1. Wrap \in Nat \ {0} /\ MaxFrames \in Nat /\ 0 \in 0 .. Wrap - 1 /\ FormatLimit \in Nat
  BY RingAssumption DEF RingAssumption
<1>2. ring \in [1 .. size -> Samples \union {Noise}]
  BY DEF RingInit
<1>3. RingTypeOK
  <2>1. emu.at = "idle" /\ emu.n = 0 /\ srv.at = "idle" /\ srv.n = 0
    BY DEF RingInit
  <2>2. size \in 0 .. MaxFrames /\ formats \in 0 .. FormatLimit
    BY <1>1 DEF RingInit
  <2>3. /\ head \in 0 .. Wrap - 1 /\ tail \in 0 .. Wrap - 1 /\ target \in Nat
        /\ quantum \in Quanta \union {0}
        /\ calibrated \in BOOLEAN /\ ready \in BOOLEAN /\ streaming \in BOOLEAN /\ priming \in BOOLEAN
    BY <1>1 DEF RingInit
  <2> QED
    BY <1>2, <2>1, <2>2, <2>3 DEF RingTypeOK
<1>4. Fill = 0
  <2>1. Fill = (0 - 0) % Wrap
    BY DEF RingInit, Fill
  <2>2. (0 - 0) % Wrap = 0
    BY <1>1, LagIs
  <2> QED
    BY <2>1, <2>2
<1> QED
  BY <1>3, <1>4 DEF RingInit, RingInv

(* Every number in hand is a number. *)
LEMMA Numbers ==
    ASSUME RingInv
    PROVE  /\ target \in Nat /\ quantum \in Nat /\ Third \in Nat
           /\ StartTarget \in Nat /\ MaxTarget \in Nat /\ MinFrames \in Nat /\ MaxFrames \in Nat
           /\ Headroom \in Nat /\ FormatLimit \in Nat /\ size \in Nat
           /\ MinFrames \div 3 \in Nat /\ Headroom * quantum \in Nat
<1>1. /\ target \in Nat /\ quantum \in Nat /\ StartTarget \in Nat /\ MaxTarget \in Nat
      /\ MinFrames \in Nat /\ MaxFrames \in Nat /\ Headroom \in Nat /\ FormatLimit \in Nat /\ size \in Nat
  BY RingAssumption DEF RingAssumption, RingInv, RingTypeOK
<1>2. Third \in Nat /\ MinFrames \div 3 \in Nat
  BY <1>1 DEF Third
<1>3. Headroom * quantum \in Nat
  BY <1>1
<1> QED
  BY <1>1, <1>2, <1>3

LEMMA StoreKept == UNCHANGED store => Fill' = Fill /\ UNCHANGED <<ring, size, head, tail>>
  BY DEF store, Fill

LEMMA EmuKeeps == ASSUME RingInv, EmuStep PROVE RingInv'
<1> USE DEF RingInv, RingTypeOK, EmuGoes, Aim, stream
<1>1. /\ target \in Nat /\ quantum \in Nat /\ Third \in Nat
      /\ StartTarget \in Nat /\ MaxTarget \in Nat /\ MinFrames \in Nat /\ size \in Nat
  BY Numbers
<1>2. CASE BeginFrame
  BY <1>1, <1>2, StoreKept DEF BeginFrame
<1>3. CASE Calibrate
  <2>1. emu' = [at |-> IF target = 0 THEN "write" ELSE "drop", n |-> target]
        \/ \E m \in Nat : emu' = [at |-> "settle", n |-> m]
    <3>1. ASSUME NEW n \in StartTarget .. MaxTarget
          PROVE  Smaller(Smaller(n + 2 * quantum, MaxTarget), Third) \in Nat
      BY <1>1 DEF Smaller
    <3> QED
      BY <1>3, <3>1 DEF Calibrate
  <2>2. emu'.at \in {"write", "drop", "settle"} /\ emu'.n \in Nat
    BY <1>1, <2>1
  <2> QED
    BY <1>1, <1>3, <2>2, StoreKept DEF Calibrate
<1>4. CASE Settle
  BY <1>1, <1>4, StoreKept DEF Settle
<1>5. CASE DropBacklog
  <2>1. CASE Fill > 3 * emu.n
    <3>1. Free(Fill - emu.n) /\ Fill \in Nat /\ emu.n \in Nat
      BY <1>5, <2>1, Sizes DEF DropBacklog
    <3>2. Fill - emu.n \in 0 .. Fill
      BY <2>1, <3>1
    <3>3. PICK n : n = Fill - emu.n
      OBVIOUS
    <3>4. /\ size' = size /\ head' = head /\ tail' \in 0 .. Wrap - 1
          /\ ring' \in [1 .. size -> Held] /\ Fill' = Fill - n
      BY <3>1, <3>2, <3>3, FreeKeeps
    <3>5. Fill' <= size'
      BY <3>1, <3>2, <3>3, <3>4, Sizes
    <3>6. ~ (size < MinFrames)
      BY <1>5 DEF DropBacklog
    <3> QED
      BY <1>5, <3>4, <3>5, <3>6 DEF DropBacklog, Held
  <2>2. CASE ~ (Fill > 3 * emu.n)
    BY <1>5, <2>2, StoreKept DEF DropBacklog
  <2> QED
    BY <2>1, <2>2
<1>6. CASE WriteFrame
  <2>1. PICK n \in BlockSizes : \E block \in Blocks(n) : WriteBlock(block)
    BY <1>6 DEF WriteFrame
  <2>2. PICK block \in Blocks(n) : WriteBlock(block)
    BY <2>1
  <2>3. ~ (size < MinFrames) /\ n \in Nat \ {0} /\ n < MinFrames
    BY <1>6, RingAssumption DEF WriteFrame, RingAssumption
  <2>4. block \in Seq(Samples) /\ Len(block) = n
    BY <2>2, <2>3 DEF Blocks, Samples
  <2>5. Len(block) \in 1 .. size - 1
    BY <1>1, <2>3, <2>4
  <2>6. /\ size' = size /\ head' \in 0 .. Wrap - 1 /\ tail' \in 0 .. Wrap - 1
        /\ ring' \in [1 .. size -> Held] /\ Fill' = Smaller(Fill + Len(block), size)
    BY <2>2, <2>4, <2>5, BlockKeeps
  <2>7. Fill' <= size'
    BY <1>1, <2>4, <2>6, Sizes DEF Smaller
  <2> QED
    BY <1>6, <2>3, <2>6, <2>7 DEF WriteFrame, Held
<1> QED
  BY <1>2, <1>3, <1>4, <1>5, <1>6 DEF EmuStep

LEMMA ResizeInv ==
    ASSUME RingInv, NEW want \in Nat, Resize(want), ~ (size < MinFrames)
    PROVE  /\ size' \in 0 .. MaxFrames /\ ring' \in [1 .. size' -> Samples \union {Noise}]
           /\ head' \in 0 .. Wrap - 1 /\ tail' \in 0 .. Wrap - 1
           /\ Fill' <= size' /\ ~ (size' < MinFrames)
<1>1. /\ Wrap \in Nat \ {0} /\ size \in Nat /\ size < Wrap /\ MaxFrames \in Nat /\ MinFrames \in Nat
      /\ head \in 0 .. Wrap - 1 /\ tail \in 0 .. Wrap - 1 /\ Fill \in 0 .. size
  BY Sizes
<1>2. CASE UNCHANGED store
  BY <1>1, <1>2, StoreKept DEF RingInv, RingTypeOK
<1>3. CASE /\ size' \in Nat /\ size' > size /\ size' <= MaxFrames
           /\ tail' = 0 /\ head' = Fill /\ Fill' = Fill
           /\ ring' \in [1 .. size' -> Held]
  BY <1>1, <1>3 DEF Held
<1> QED
  BY <1>2, <1>3, ResizeKeeps

LEMMA SrvKeeps == ASSUME RingInv, SrvCallback PROVE RingInv'
<1> USE DEF RingInv, RingTypeOK, SrvGoes, stream
<1>1. /\ target \in Nat /\ quantum \in Nat /\ Third \in Nat
      /\ StartTarget \in Nat /\ MaxTarget \in Nat /\ MinFrames \in Nat /\ MaxFrames \in Nat /\ size \in Nat
      /\ Headroom * quantum \in Nat
  BY Numbers
<1>2. CASE SizeRing
  <2>1. Larger(Headroom * quantum, MinFrames) \in Nat
    BY <1>1 DEF Larger
  <2>2. Resize(Larger(Headroom * quantum, MinFrames)) /\ ~ (size < MinFrames)
    BY <1>2 DEF SizeRing
  <2>3. /\ size' \in 0 .. MaxFrames /\ ring' \in [1 .. size' -> Samples \union {Noise}]
        /\ head' \in 0 .. Wrap - 1 /\ tail' \in 0 .. Wrap - 1
        /\ Fill' <= size' /\ ~ (size' < MinFrames)
    BY <2>1, <2>2, ResizeInv
  <2> QED
    BY <1>2, <2>3 DEF SizeRing
<1>3. CASE CapTarget
  <2>1. target' \in Nat
    BY <1>1, <1>3 DEF CapTarget, Smaller
  <2> QED
    BY <1>3, <2>1, StoreKept DEF CapTarget
<1>4. CASE Render
  <2>1. priming' \in BOOLEAN /\ srv'.at \in {"read", "idle"} /\ srv'.n \in Nat
    BY <1>4 DEF Render
  <2> QED
    BY <1>4, <2>1, StoreKept DEF Render
<1>5. CASE Mute
  BY <1>5, StoreKept DEF Mute
<1>6. CASE Read
  <2>1. /\ Free(Smaller(srv.n, Fill)) /\ srv.n \in Nat /\ Fill \in 0 .. size /\ size \in Nat
    BY <1>6, Sizes DEF Read, ReadBlock
  <2>2. PICK n : n = Smaller(srv.n, Fill)
    OBVIOUS
  <2>3. n \in 0 .. Fill
    BY <2>1, <2>2 DEF Smaller
  <2>4. /\ size' = size /\ head' = head /\ tail' \in 0 .. Wrap - 1
        /\ ring' \in [1 .. size -> Held] /\ Fill' = Fill - n
    BY <2>1, <2>2, <2>3, FreeKeeps
  <2>5. Fill' <= size'
    BY <2>1, <2>3, <2>4
  <2>6. ~ (size < MinFrames)
    BY <1>6 DEF Read
  <2> QED
    BY <1>6, <2>4, <2>5, <2>6 DEF Read, Held
<1>7. CASE Underrun
  <2>1. target' \in Nat
    BY <1>1, <1>7 DEF Underrun
  <2> QED
    BY <1>7, <2>1, StoreKept DEF Underrun
<1>8. CASE Grow
  <2>1. 2 * size \in Nat /\ Resize(2 * size) /\ ~ (size < MinFrames)
    BY <1>1, <1>8 DEF Grow
  <2>2. /\ size' \in 0 .. MaxFrames /\ ring' \in [1 .. size' -> Samples \union {Noise}]
        /\ head' \in 0 .. Wrap - 1 /\ tail' \in 0 .. Wrap - 1
        /\ Fill' <= size' /\ ~ (size' < MinFrames)
    BY <2>1, ResizeInv
  <2> QED
    BY <1>8, <2>2 DEF Grow
<1>9. CASE Allocate
  <2>1. Wrap \in Nat \ {0} /\ MinFrames \in 0 .. MaxFrames /\ 0 \in 0 .. Wrap - 1
    BY RingAssumption DEF RingAssumption
  <2>2. Fill' = 0
    <3>1. Fill' = (0 - 0) % Wrap
      BY <1>9 DEF Allocate, Fill
    <3>2. (0 - 0) % Wrap = 0
      BY <2>1, LagIs
    <3> QED
      BY <3>1, <3>2
  <2>3. ring' \in [1 .. size' -> Samples \union {Noise}]
    BY <1>9 DEF Allocate, Blank
  <2> QED
    BY <1>1, <1>9, <2>1, <2>2, <2>3 DEF Allocate
<1>10. CASE FormatReady
  BY <1>10, StoreKept DEF FormatReady
<1> QED
  BY <1>2, <1>3, <1>4, <1>5, <1>6, <1>7, <1>8, <1>9, <1>10 DEF SrvCallback

LEMMA RingNextKeeps == RingInv /\ [RingNext]_ringVars => RingInv'
<1> SUFFICES ASSUME RingInv, [RingNext]_ringVars PROVE RingInv'
  OBVIOUS
<1>1. /\ target \in Nat /\ StartTarget \in Nat /\ MinFrames \div 3 \in Nat /\ FormatLimit \in Nat
      /\ Quanta \subseteq Nat
  BY Numbers, RingAssumption DEF RingAssumption
<1>2. ASSUME NEW n \in Quanta, Process(n) PROVE RingInv'
  <2>1. target' \in Nat /\ quantum' \in Quanta \union {0} /\ srv'.at \in {"size", "render"} /\ srv'.n \in Nat
    BY <1>1, <1>2 DEF Process, Larger, SrvGoes, RingInv, RingTypeOK
  <2> QED
    BY <1>2, <2>1, StoreKept DEF Process, RingInv, RingTypeOK, stream
<1>3. CASE ParamChanged
  <2>1. target' \in Nat
    BY <1>1, <1>3 DEF ParamChanged, Smaller
  <2>2. formats' \in 0 .. FormatLimit
    BY <1>1, <1>3 DEF ParamChanged, RingInv, RingTypeOK
  <2> QED
    BY <1>3, <2>1, <2>2, StoreKept DEF ParamChanged, RingInv, RingTypeOK, SrvGoes
<1>4. CASE StateChanged
  BY <1>4, StoreKept DEF StateChanged, RingInv, RingTypeOK
<1>5. CASE UNCHANGED ringVars
  BY <1>5 DEF ringVars, RingInv, RingTypeOK, Fill
<1> QED
  BY <1>2, <1>3, <1>4, <1>5, EmuKeeps, SrvKeeps DEF RingNext, Asked

LEMMA QueueHere ==
    RingInv => Fill \in Nat /\ Queued \in [1 .. Fill -> Held] /\ Queued \in Seq(Held) /\ Len(Queued) = Fill
  BY QueuedIs, Sizes

LEMMA NewestHere ==
    RingInv => \A i \in 1 .. Fill, c \in Int :
                  i > Fill - head /\ c = head - Fill + i - 1 => c \in Nat /\ Queued[i] = ring[Place(c)]
<1> SUFFICES ASSUME RingInv, NEW i \in 1 .. Fill, NEW c \in Int, i > Fill - head, c = head - Fill + i - 1
             PROVE  c \in Nat /\ Queued[i] = ring[Place(c)]
  OBVIOUS
<1>1. PICK k : k = Smaller(head, Fill)
  OBVIOUS
<1>2. head \in Nat /\ Fill \in Nat
  BY Sizes
<1>3. k \in Nat /\ k <= head /\ k <= Fill /\ i > Fill - k
  BY <1>1, <1>2 DEF Smaller
<1> QED
  BY <1>3, NewestAt

LEMMA CounterHere ==
    RingInv => \A i \in 1 .. Fill, x \in Int :
                  x = tail + i - 1 =>
                    /\ x % Wrap = IF x < Wrap THEN x ELSE x - Wrap
                    /\ Queued[i] = ring[Place(x % Wrap)]
  BY CounterIs

LEMMA QueueNext ==
    RingInv' => Fill' \in Nat /\ Queued' \in [1 .. Fill' -> Held] /\ Queued' \in Seq(Held) /\ Len(Queued') = Fill'
<1>1. (RingInv => Fill \in Nat /\ Queued \in [1 .. Fill -> Held] /\ Queued \in Seq(Held) /\ Len(Queued) = Fill)'
  BY QueueHere, PTL
<1> QED
  BY <1>1 DEF Held, Samples

LEMMA NewestNext ==
    RingInv' => \A i \in 1 .. Fill', c \in Int :
                  i > Fill' - head' /\ c = head' - Fill' + i - 1 => c \in Nat /\ Queued'[i] = ring'[Place(c)']
<1>1. (RingInv => \A i \in 1 .. Fill, c \in Int :
                  i > Fill - head /\ c = head - Fill + i - 1 => c \in Nat /\ Queued[i] = ring[Place(c)])'
  BY NewestHere, PTL
<1> QED
  BY <1>1

LEMMA CounterNext ==
    RingInv' => \A i \in 1 .. Fill', x \in Int :
                  x = tail' + i - 1 =>
                    /\ x % Wrap = IF x < Wrap THEN x ELSE x - Wrap
                    /\ Queued'[i] = ring'[Place(x % Wrap)']
<1>1. (RingInv => \A i \in 1 .. Fill, x \in Int :
                  x = tail + i - 1 =>
                    /\ x % Wrap = IF x < Wrap THEN x ELSE x - Wrap
                    /\ Queued[i] = ring[Place(x % Wrap)])'
  BY CounterHere, PTL
<1> QED
  BY <1>1

(* The promise of SoundQueue, for sequences whose newest elements agree. *)
LEMMA LeftHas ==
    ASSUME NEW n \in Nat, NEW t \in [1 .. n -> Held], NEW s \in Seq(Held), NEW k \in Nat,
           NEW m, m = Sound!Least(k, n), m <= Len(s),
           \A j \in 1 .. m : t[n - m + j] = s[Len(s) - m + j]
    PROVE  t \in Sound!Left(n, s, k)
<1>1. m \in 0 .. n /\ m <= n /\ Len(s) \in Nat
  BY DEF Sound!Least
<1>2. t \in Seq(Held) /\ Len(t) = n
  OBVIOUS
<1>3. ASSUME NEW q \in Seq(Held), m <= Len(q)
      PROVE  /\ Sound!Newest(m, q) \in Seq(Held) /\ Len(Sound!Newest(m, q)) = m
             /\ \A j \in 1 .. m : Sound!Newest(m, q)[j] = q[Len(q) - m + j]
  <2>1. PICK a : a = Len(q) - m + 1
    OBVIOUS
  <2>2. a \in Int /\ Len(q) \in Int /\ Len(q) - a + 1 = m /\ a >= 1
    BY <1>1, <1>3, <2>1
  <2>3. \A i \in a .. Len(q) : q[i] \in Held
    <3> SUFFICES ASSUME NEW i \in a .. Len(q) PROVE q[i] \in Held
      OBVIOUS
    <3>1. i \in 1 .. Len(q)
      BY <2>2
    <3> QED
      BY <3>1, ElementOfSeq
  <2>4. /\ SubSeq(q, a, Len(q)) \in Seq(Held)
        /\ Len(SubSeq(q, a, Len(q))) = IF a <= Len(q) THEN Len(q) - a + 1 ELSE 0
        /\ \A i \in 1 .. Len(q) - a + 1 : SubSeq(q, a, Len(q))[i] = q[a + i - 1]
    BY <2>2, <2>3, SubSeqProperties
  <2>5. Sound!Newest(m, q) = SubSeq(q, a, Len(q))
    BY <2>1 DEF Sound!Newest
  <2>6. (IF a <= Len(q) THEN Len(q) - a + 1 ELSE 0) = m
    BY <1>1, <2>2
  <2>7. \A j \in 1 .. m : a + j - 1 = Len(q) - m + j
    BY <1>1, <2>1, <2>2
  <2> QED
    BY <2>2, <2>4, <2>5, <2>6, <2>7
<1>4. Sound!Newest(m, t) = Sound!Newest(m, s)
  <2>1. /\ Sound!Newest(m, t) \in Seq(Held) /\ Len(Sound!Newest(m, t)) = m
        /\ \A j \in 1 .. m : Sound!Newest(m, t)[j] = t[Len(t) - m + j]
    BY <1>1, <1>2, <1>3
  <2>2. /\ Sound!Newest(m, s) \in Seq(Held) /\ Len(Sound!Newest(m, s)) = m
        /\ \A j \in 1 .. m : Sound!Newest(m, s)[j] = s[Len(s) - m + j]
    BY <1>3
  <2>3. \A j \in 1 .. m : Sound!Newest(m, t)[j] = Sound!Newest(m, s)[j]
    BY <1>2, <2>1, <2>2
  <2> QED
    BY <2>1, <2>2, <2>3, SeqEqual
<1> QED
  BY <1>4 DEF Sound!Left, Held

(* Taking samples out leaves the rest of the queue. *)
LEMMA FreeLeaves ==
    ASSUME RingInv, RingInv', NEW n \in 0 .. Fill, Free(n)
    PROVE  Queued' = SubSeq(Queued, n + 1, Fill)
<1>1. /\ Wrap \in Nat \ {0} /\ size \in Nat /\ size < Wrap
      /\ head \in 0 .. Wrap - 1 /\ tail \in 0 .. Wrap - 1
      /\ Fill = IF tail <= head THEN head - tail ELSE head - tail + Wrap
      /\ Fill \in 0 .. size /\ ring \in [1 .. size -> Held]
  BY Sizes
<1>2. /\ size' = size /\ head' = head
      /\ tail' = IF tail + n < Wrap THEN tail + n ELSE tail + n - Wrap
      /\ Fill' = Fill - n
  BY FreeKeeps
<1>3. /\ Queued \in Seq(Held) /\ Len(Queued) = Fill
      /\ Queued' \in Seq(Held) /\ Len(Queued') = Fill - n
  BY <1>2, QueueHere, QueueNext
<1>4. /\ SubSeq(Queued, n + 1, Fill) \in Seq(Held)
      /\ Len(SubSeq(Queued, n + 1, Fill)) = Fill - n
      /\ \A i \in 1 .. Fill - n : SubSeq(Queued, n + 1, Fill)[i] = Queued[n + i]
  <2>1. PICK a : a = n + 1
    OBVIOUS
  <2>2. a \in Int /\ Fill \in Int /\ Fill - a + 1 = Fill - n /\ a >= 1
    BY <1>1, <2>1
  <2>3. \A i \in a .. Fill : Queued[i] \in Held
    <3> SUFFICES ASSUME NEW i \in a .. Fill PROVE Queued[i] \in Held
      OBVIOUS
    <3>1. i \in 1 .. Len(Queued)
      BY <1>3, <2>2
    <3> QED
      BY <1>3, <3>1, ElementOfSeq
  <2>4. /\ SubSeq(Queued, a, Fill) \in Seq(Held)
        /\ Len(SubSeq(Queued, a, Fill)) = IF a <= Fill THEN Fill - a + 1 ELSE 0
        /\ \A i \in 1 .. Fill - a + 1 : SubSeq(Queued, a, Fill)[i] = Queued[a + i - 1]
    BY <2>2, <2>3, SubSeqProperties
  <2>5. (IF a <= Fill THEN Fill - a + 1 ELSE 0) = Fill - n
    BY <1>1, <2>1, <2>2
  <2>6. \A i \in 1 .. Fill - n : a + i - 1 = n + i
    BY <1>1, <2>1
  <2> QED
    BY <2>1, <2>2, <2>4, <2>5, <2>6
<1>5. ASSUME NEW i \in 1 .. Fill - n PROVE Queued'[i] = Queued[n + i]
  <2>1. PICK x : x = tail + n + i - 1
    OBVIOUS
  <2>2. x \in Int /\ n + i \in 1 .. Fill /\ x = tail + (n + i) - 1
    BY <1>1, <2>1
  <2>3. /\ x % Wrap = IF x < Wrap THEN x ELSE x - Wrap
        /\ Queued[n + i] = ring[Place(x % Wrap)]
    BY <2>2, CounterHere
  <2>4. PICK y : y = tail' + i - 1
    OBVIOUS
  <2>5. y \in Int /\ i \in 1 .. Fill'
    BY <1>1, <1>2, <2>4
  <2>6. /\ y % Wrap = IF y < Wrap THEN y ELSE y - Wrap
        /\ Queued'[i] = ring'[Place(y % Wrap)']
    BY <2>4, <2>5, CounterNext
  <2>7. (IF x < Wrap THEN x ELSE x - Wrap) = (IF y < Wrap THEN y ELSE y - Wrap)
    BY <1>1, <1>2, <2>1, <2>4
  <2>8. PICK c : c = x % Wrap
    OBVIOUS
  <2>9. Place(c)' = Place(c)
    BY <1>2 DEF Place
  <2>10. Queued'[i] = ring'[Place(c)] /\ Queued[n + i] = ring[Place(c)]
    BY <2>3, <2>6, <2>7, <2>8, <2>9
  <2>11. CASE tail > head
    BY <2>10, <2>11 DEF Free
  <2>12. CASE ~ (tail > head)
    <3>1. c = x /\ c \in Nat /\ size \in Nat \ {0}
      BY <1>1, <2>1, <2>2, <2>3, <2>8, <2>12
    <3>2. ASSUME NEW k \in 0 .. n - 1 PROVE Place(tail + k) # Place(c)
      <4>1. PICK b : b = tail + k
        OBVIOUS
      <4>2. b \in Nat /\ b < c /\ c - b < size
        BY <1>1, <2>1, <2>12, <3>1, <4>1
      <4>3. b % size # c % size
        BY <3>1, <4>2, FarMod
      <4>4. b % size \in 0 .. size - 1 /\ c % size \in 0 .. size - 1
        BY <3>1, <4>2, Remainder
      <4> QED
        BY <4>1, <4>3, <4>4 DEF Place
    <3>3. Place(c) \in 1 .. size
      BY <3>1, PlaceIn
    <3>4. ring' = [j \in 1 .. size |->
                       IF \E k \in 0 .. n - 1 : Place(tail + k) = j THEN Noise ELSE ring[j]]
      BY <2>12 DEF Free
    <3> QED
      BY <2>10, <3>2, <3>3, <3>4
  <2> QED
    BY <2>11, <2>12
<1> QED
  BY <1>3, <1>4, <1>5, SeqEqual

LEMMA SettledIs ==
    ASSUME RingInv
    PROVE  /\ Sound!Settled = Smaller(head, Fill)
           /\ Sound!Whole <=> tail <= head
<1>1. /\ Wrap \in Nat \ {0} /\ size \in Nat /\ size < Wrap
      /\ head \in 0 .. Wrap - 1 /\ tail \in 0 .. Wrap - 1
      /\ Fill = IF tail <= head THEN head - tail ELSE head - tail + Wrap
      /\ Len(Queued) = Fill
  BY Sizes, QueueHere
<1>2. Sound!Settled = Smaller(head, Fill)
  BY <1>1 DEF Sound!Settled, Sound!Least, Smaller
<1>3. Smaller(head, Fill) = Fill <=> tail <= head
  BY <1>1 DEF Smaller
<1> QED
  BY <1>1, <1>2, <1>3 DEF Sound!Whole

(* DropBacklog, where there is one. *)
LEMMA DropSkips ==
    ASSUME RingInv, RingInv', NEW n \in 0 .. Fill, Free(Fill - n), out' = out
    PROVE  Sound!Next
<1>1. Fill \in Nat /\ Len(Queued) = Fill
  BY QueueHere
<1>2. PICK m : m = Fill - n
  OBVIOUS
<1>3. m \in 0 .. Fill /\ m + 1 = Fill - n + 1 /\ Free(m)
  BY <1>1, <1>2
<1>4. Queued' = SubSeq(Queued, m + 1, Fill)
  BY <1>3, FreeLeaves
<1>5. Queued' = Sound!Newest(n, Queued)
  BY <1>1, <1>3, <1>4 DEF Sound!Newest
<1>6. Sound!Skip(n) /\ n \in 0 .. Len(Queued)
  BY <1>1, <1>5 DEF Sound!Skip, Free
<1> QED
  BY <1>6 DEF Sound!Next

LEMMA ReadTakes ==
    ASSUME RingInv, RingInv', NEW n \in 0 .. Fill, Free(n), out' = Run(tail, n)
    PROVE  Sound!Next
<1>1. /\ Wrap \in Nat \ {0} /\ size \in Nat /\ Fill \in 0 .. size /\ ring \in [1 .. size -> Held]
      /\ tail \in 0 .. Wrap - 1 /\ Queued \in Seq(Held) /\ Len(Queued) = Fill /\ n \in Nat
  BY Sizes, QueueHere
<1>2. ASSUME NEW i \in 1 .. n
      PROVE  /\ out'[i] \in Held /\ out'[i] = ring[Place(tail + i - 1)]
             /\ tail <= head => out'[i] = Queued[i]
  <2>1. PICK c : c = tail + i - 1
    OBVIOUS
  <2>2. c \in Nat /\ size \in Nat \ {0} /\ i \in 1 .. Fill
    BY <1>1, <2>1
  <2>3. Place(c) \in 1 .. size
    BY <2>2, PlaceIn
  <2>4. out'[i] = ring[Place(c)]
    BY <2>1 DEF Run
  <2>5. tail <= head => Queued[i] = ring[Place(c)]
    BY <2>1, <2>2, StraightAt
  <2> QED
    BY <1>1, <2>1, <2>3, <2>4, <2>5
<1>3. out' \in [1 .. n -> Held]
  BY <1>2 DEF Run
<1>4. PICK s : s = SubSeq(Queued, 1, n)
  OBVIOUS
<1>5. s \in Seq(Held) /\ Len(s) = n /\ \A i \in 1 .. n : s[i] = Queued[i]
  <2>1. \A i \in 1 .. n : Queued[i] \in Held
    <3> SUFFICES ASSUME NEW i \in 1 .. n PROVE Queued[i] \in Held
      OBVIOUS
    <3>1. i \in 1 .. Len(Queued)
      BY <1>1
    <3> QED
      BY <1>1, <3>1, ElementOfSeq
  <2>2. /\ SubSeq(Queued, 1, n) \in Seq(Held)
        /\ Len(SubSeq(Queued, 1, n)) = IF 1 <= n THEN n - 1 + 1 ELSE 0
        /\ \A i \in 1 .. n - 1 + 1 : SubSeq(Queued, 1, n)[i] = Queued[1 + i - 1]
    BY <1>1, <2>1, SubSeqProperties
  <2> QED
    BY <1>1, <1>4, <2>2
<1>6. PICK k : k = IF Sound!Whole THEN n ELSE 0
  OBVIOUS
<1>7. k \in Nat /\ Sound!Least(k, n) = k /\ k <= Len(s) /\ ((k = n /\ tail <= head) \/ k = 0)
  BY <1>1, <1>5, <1>6, SettledIs DEF Sound!Least
<1>8. \A j \in 1 .. k : out'[n - k + j] = s[Len(s) - k + j]
  BY <1>2, <1>5, <1>7
<1>9. out' \in Sound!Left(n, s, k)
  BY <1>1, <1>3, <1>5, <1>7, <1>8, LeftHas
<1>10. Queued' = SubSeq(Queued, n + 1, Len(Queued))
  BY <1>1, FreeLeaves
<1>11. Sound!Take(n)
  BY <1>4, <1>6, <1>9, <1>10 DEF Sound!Take, Free
<1> QED
  BY <1>1, <1>11 DEF Sound!Next

LEMMA ResizeMoves ==
    ASSUME RingInv, RingInv', NEW want \in Nat, Resize(want), out' = out
    PROVE  Sound!Next \/ UNCHANGED store
<1> SUFFICES ASSUME /\ size' \in Nat /\ size' > size /\ size' <= MaxFrames
                    /\ tail' = 0 /\ head' = Fill /\ Fill' = Fill
                    /\ \A i \in 1 .. Fill : ring'[i] = ring[Place(tail + i - 1)]
             PROVE  Sound!Next
  BY ResizeKeeps
<1>1. /\ Wrap \in Nat \ {0} /\ size \in Nat /\ Fill \in 0 .. size /\ size' < Wrap
      /\ tail \in 0 .. Wrap - 1 /\ Queued \in Seq(Held) /\ Len(Queued) = Fill
      /\ Queued' \in [1 .. Fill -> Held] /\ Fill \in Nat
  <2>1. size' < Wrap
    BY RingAssumption DEF RingAssumption
  <2> QED
    BY <2>1, Sizes, QueueHere, QueueNext
<1>2. ASSUME NEW i \in 1 .. Fill, tail <= head PROVE Queued'[i] = Queued[i]
  <2>1. PICK x : x = i - 1
    OBVIOUS
  <2>2. x \in Nat /\ x < Wrap /\ x < size' /\ i \in 1 .. Fill' /\ x = tail' + i - 1 /\ size' \in Nat \ {0}
    BY <1>1, <2>1
  <2>3. /\ x % Wrap = IF x < Wrap THEN x ELSE x - Wrap
        /\ Queued'[i] = ring'[Place(x % Wrap)']
    BY <2>2, CounterNext
  <2>4. x % Wrap = x
    BY <2>2, <2>3
  <2>5. Place(x)' = i
    <3>1. x % size' = x
      BY <2>2, WrapOnce
    <3>2. x + 1 = i
      BY <1>1, <2>1
    <3>3. Place(x)' = (x % size') + 1
      BY DEF Place
    <3> QED
      BY <3>1, <3>2, <3>3
  <2>6. PICK c : c = tail + i - 1
    OBVIOUS
  <2>7. Queued[i] = ring[Place(c)]
    BY <1>2, <2>6, StraightAt
  <2> QED
    BY <2>3, <2>4, <2>5, <2>6, <2>7
<1>3. PICK k : k = IF Sound!Whole THEN Len(Queued) ELSE 0
  OBVIOUS
<1>4. /\ k \in Nat /\ Sound!Least(k, Fill) = k /\ k <= Len(Queued)
      /\ ((k = Fill /\ tail <= head) \/ k = 0)
  BY <1>1, <1>3, SettledIs DEF Sound!Least
<1>5. \A j \in 1 .. k : Queued'[Fill - k + j] = Queued[Len(Queued) - k + j]
  BY <1>1, <1>2, <1>4
<1>6. Queued' \in Sound!Left(Fill, Queued, k)
  BY <1>1, <1>4, <1>5, LeftHas
<1>7. Sound!Move
  BY <1>1, <1>3, <1>6 DEF Sound!Move
<1> QED
  BY <1>7 DEF Sound!Next

(* What a written block leaves at the place of counter c. *)
LEMMA WriteAt ==
    ASSUME RingInv, NEW block \in Seq(Samples), Len(block) \in 1 .. size - 1, WriteBlock(block),
           NEW c \in Nat, c < head + Len(block), head - c <= size - Len(block)
    PROVE  ring'[Place(c)] = IF c >= head THEN block[c - head + 1] ELSE ring[Place(c)]
<1> DEFINE n == Len(block)
           offset == [i \in 1 .. size |-> (i - Place(head) + size) % size]
<1>1. /\ size \in Nat \ {0} /\ head \in Nat /\ n \in 1 .. size - 1
      /\ c - head < size /\ head - c < size
  BY Sizes
<1>2. ring' = [i \in 1 .. size |-> IF offset[i] < n THEN block[offset[i] + 1] ELSE ring[i]]
  BY DEF WriteBlock
<1>3. Place(c) \in 1 .. size
  BY <1>1, PlaceIn
<1>4. offset[Place(c)] = IF head <= c THEN c - head ELSE c - head + size
  <2>1. ((c % size) - (head % size) + size) % size = IF head <= c THEN c - head ELSE c - head + size
    BY <1>1, NearMod
  <2>2. c % size \in 0 .. size - 1 /\ head % size \in 0 .. size - 1
    BY <1>1, Remainder
  <2>3. Place(c) - Place(head) + size = (c % size) - (head % size) + size
    BY <1>1, <2>2 DEF Place
  <2>4. offset[Place(c)] = (Place(c) - Place(head) + size) % size
    BY <1>3
  <2> QED
    BY <2>1, <2>3, <2>4
<1> HIDE DEF offset, n
<1>5. ring'[Place(c)] = IF offset[Place(c)] < n THEN block[offset[Place(c)] + 1] ELSE ring[Place(c)]
  BY <1>2, <1>3
<1>6. CASE head <= c
  <2>1. offset[Place(c)] = c - head /\ c - head < n /\ c >= head
    BY <1>1, <1>4, <1>6 DEF n
  <2> QED
    BY <1>5, <2>1
<1>7. CASE ~ (head <= c)
  <2>1. offset[Place(c)] = c - head + size /\ ~ (c - head + size < n) /\ ~ (c >= head)
    BY <1>1, <1>4, <1>7 DEF n
  <2> QED
    BY <1>5, <2>1
<1> QED
  BY <1>6, <1>7

(* The newest samples after a write: those of the block, and the newest of   *)
(* the queue.                                                                *)
LEMMA WriteTail ==
    ASSUME RingInv, RingInv', NEW block \in Seq(Samples), Len(block) \in 1 .. size - 1,
           WriteBlock(block), head + Len(block) < Wrap,
           NEW m \in Nat, m <= head + Len(block), m <= Fill + Len(block), m <= Fill',
           NEW j \in 1 .. m
    PROVE  Queued'[Fill' - m + j] = (Queued \o block)[Fill + Len(block) - m + j]
<1>1. PICK n, f, g : n = Len(block) /\ f = Fill /\ g = Fill'
  OBVIOUS
<1>2. /\ size \in Nat \ {0} /\ head \in Nat /\ n \in 1 .. size - 1 /\ n \in Nat
      /\ f \in 0 .. size /\ g \in Nat /\ Queued \in Seq(Held) /\ Len(Queued) = f
      /\ head + n < Wrap /\ m <= head + n /\ m <= f + n /\ m <= g
      /\ j \in Nat /\ 1 <= j /\ j <= m
  BY <1>1, Sizes, QueueHere, QueueNext
<1>3. size' = size /\ head' = head + n /\ g = Smaller(f + n, size)
  BY <1>1, <1>2, BlockKeeps
<1>4. g <= size
  BY <1>2, <1>3 DEF Smaller
<1>5. PICK c : c = head + n - m + j - 1
  OBVIOUS
<1>6. PICK i : i = g - m + j
  OBVIOUS
<1>7. PICK e : e = f + n - m + j
  OBVIOUS
<1>8. c \in Nat /\ c < head + n /\ head - c <= size - n
  BY <1>2, <1>4, <1>5
<1>9. i \in 1 .. g /\ i > g - head' /\ c = head' - g + i - 1
  <2>1. i \in 1 .. g
    BY <1>2, <1>6
  <2>2. i > g - (head + n)
    BY <1>2, <1>6
  <2>3. c = (head + n) - g + i - 1
    BY <1>2, <1>5, <1>6
  <2>4. head' = head + n
    BY <1>3
  <2> QED
    BY <2>1, <2>2, <2>3, <2>4
<1>10. Queued'[i] = ring'[Place(c)]
  <2>1. Queued'[i] = ring'[Place(c)']
    BY <1>1, <1>8, <1>9, NewestNext
  <2>2. Place(c)' = Place(c)
    BY <1>3 DEF Place
  <2> QED
    BY <2>1, <2>2
<1>11. ring'[Place(c)] = IF c >= head THEN block[c - head + 1] ELSE ring[Place(c)]
  BY <1>1, <1>8, WriteAt
<1>12. e \in 1 .. f + n /\ (e <= f <=> ~ (c >= head)) /\ e - f = c - head + 1
  BY <1>2, <1>5, <1>7
<1>13. (Queued \o block)[e] = IF e <= f THEN Queued[e] ELSE block[e - f]
  <2>1. block \in Seq(Held)
    <3>1. Samples \subseteq Held
      BY DEF Held
    <3>2. \A x \in 1 .. Len(block) : block[x] \in Samples
      BY ElementOfSeq
    <3> QED
      BY <3>1, <3>2
  <2>2. /\ Len(Queued) \in Nat /\ Len(block) \in Nat
        /\ \A x \in 1 .. Len(Queued) + Len(block) :
              (Queued \o block)[x] = IF x <= Len(Queued) THEN Queued[x] ELSE block[x - Len(Queued)]
    BY <1>2, <2>1, ConcatProperties
  <2> QED
    BY <1>1, <1>2, <1>12, <2>2
<1>14. ~ (c >= head) => Queued[e] = ring[Place(c)]
  <2>1. ~ (c >= head) => e \in 1 .. f /\ e > f - head /\ c = head - f + e - 1
    BY <1>2, <1>5, <1>7, <1>12
  <2> QED
    BY <1>1, <1>8, <2>1, NewestHere
<1>15. Queued'[i] = (Queued \o block)[e]
  BY <1>10, <1>11, <1>12, <1>13, <1>14
<1> QED
  BY <1>1, <1>6, <1>7, <1>15

LEMMA WritePuts ==
    ASSUME RingInv, RingInv', NEW block \in Seq(Samples), Len(block) \in 1 .. size - 1,
           WriteBlock(block), out' = out
    PROVE  Sound!Put(block)
<1> DEFINE n == Len(block)
           s == Queued \o block
           k == IF head + n >= Wrap THEN 0 ELSE Sound!Settled + n
           m == Sound!Least(k, Fill')
<1>1. /\ Wrap \in Nat \ {0} /\ size \in Nat \ {0} /\ size < Wrap /\ head \in 0 .. Wrap - 1
      /\ Fill \in 0 .. size /\ n \in 1 .. size - 1
      /\ Queued \in Seq(Held) /\ Len(Queued) = Fill
      /\ Fill' \in Nat /\ Queued' \in [1 .. Fill' -> Held]
  BY Sizes, QueueHere, QueueNext
<1>2. /\ size' = size /\ head' = (head + n) % Wrap /\ Fill' = Smaller(Fill + n, size)
      /\ head + n < Wrap => head' = head + n
  BY BlockKeeps
<1>3. Fill' \in n .. Fill + n /\ Fill' <= size
  BY <1>1, <1>2 DEF Smaller
<1>4. Sound!Settled \in Nat /\ Sound!Settled <= head /\ Sound!Settled <= Fill
  BY <1>1, SettledIs DEF Smaller
<1>5. k \in Nat /\ (k = 0 \/ (head + n < Wrap /\ k <= head + n /\ k <= Fill + n))
  BY <1>1, <1>4
<1>6. block \in Seq(Held)
  <2>1. Samples \subseteq Held
    BY DEF Held
  <2>2. \A i \in 1 .. Len(block) : block[i] \in Samples
    BY ElementOfSeq
  <2> QED
    BY <2>1, <2>2
<1>7. /\ s \in Seq(Held) /\ Len(s) = Fill + n
      /\ \A i \in 1 .. Fill + n : s[i] = IF i <= Fill THEN Queued[i] ELSE block[i - Fill]
  BY <1>1, <1>6, ConcatProperties
<1> HIDE DEF s, k
<1>8. m \in Nat /\ m <= k /\ m <= Fill'
  BY <1>1, <1>5 DEF Sound!Least
<1> HIDE DEF m, n
<1>9. ASSUME NEW j \in 1 .. m PROVE Queued'[Fill' - m + j] = s[Len(s) - m + j]
  <2>1. head + Len(block) < Wrap /\ m <= head + Len(block) /\ m <= Fill + Len(block)
    BY <1>1, <1>5, <1>8 DEF n
  <2>2. m \in Nat /\ m <= Fill'
    BY <1>8
  <2>3. Queued'[Fill' - m + j] = (Queued \o block)[Fill + Len(block) - m + j]
    BY <2>1, <2>2, WriteTail
  <2>4. Len(s) = Fill + Len(block)
    BY <1>7 DEF n
  <2>5. Queued \o block = s
    BY DEF s
  <2>6. PICK e : e = Fill + Len(block) - m + j
    OBVIOUS
  <2>7. Len(s) - m + j = e
    BY <1>1, <2>2, <2>4, <2>6 DEF n
  <2>8. Queued'[Fill' - m + j] = s[e]
    BY <2>3, <2>5, <2>6, Zenon
  <2> QED
    BY <2>7, <2>8
<1>10. m <= Len(s)
  BY <1>1, <1>3, <1>7, <1>8
<1>11. Queued' \in Sound!Left(Fill', s, k)
  BY <1>1, <1>5, <1>7, <1>9, <1>10, LeftHas DEF m
<1>12. Fill' \in Len(block) .. Len(Queued) + Len(block)
  BY <1>1, <1>3 DEF n
<1> QED
  BY <1>2, <1>11, <1>12 DEF Sound!Put, s, k, n

(* Every step of the ring is one of the queue's. *)
LEMMA RingNextMoves == RingInv /\ RingInv' /\ [RingNext]_ringVars => [Sound!Next]_(Sound!vars)
<1> SUFFICES ASSUME RingInv, RingInv', [RingNext]_ringVars, ~ Sound!Next
             PROVE  UNCHANGED <<Queued, out, head>>
  BY DEF Sound!vars
<1>1. ASSUME UNCHANGED store, out' = out PROVE UNCHANGED <<Queued, out, head>>
  BY <1>1 DEF store, Queued, Fill, Place
<1>2. ASSUME BeginFrame \/ Calibrate \/ Settle \/ ParamChanged \/ FormatReady \/ StateChanged
               \/ CapTarget \/ Render \/ Mute \/ Underrun
      PROVE  UNCHANGED store /\ out' = out
  BY <1>2 DEF BeginFrame, Calibrate, Settle, ParamChanged, FormatReady, StateChanged,
              CapTarget, Render, Mute, Underrun
<1>3. CASE DropBacklog
  <2>1. out' = out /\ emu.n \in Nat /\ Fill \in Nat
    BY <1>3, QueueHere DEF DropBacklog, RingInv, RingTypeOK
  <2>2. CASE Fill > 3 * emu.n
    <3>1. emu.n \in 0 .. Fill /\ Free(Fill - emu.n)
      BY <1>3, <2>1, <2>2 DEF DropBacklog
    <3> QED
      BY <2>1, <3>1, DropSkips
  <2>3. CASE ~ (Fill > 3 * emu.n)
    BY <1>1, <1>3, <2>1, <2>3 DEF DropBacklog
  <2> QED
    BY <2>2, <2>3
<1>4. CASE WriteFrame
  <2>1. PICK n \in BlockSizes : \E block \in Blocks(n) : WriteBlock(block)
    BY <1>4 DEF WriteFrame
  <2>2. PICK block \in Blocks(n) : WriteBlock(block)
    BY <2>1
  <2>3. ~ (size < MinFrames) /\ n \in Nat \ {0} /\ n < MinFrames /\ size \in Nat /\ MinFrames \in Nat
        /\ out' = out
    BY <1>4, RingAssumption, Numbers DEF WriteFrame, RingAssumption, RingInv
  <2>4. block \in [1 .. n -> Samples]
    BY <2>2, <2>3 DEF Blocks, Samples
  <2>5. block \in Seq(Samples) /\ Len(block) = n /\ Len(block) \in 1 .. size - 1
    BY <2>3, <2>4
  <2>6. Sound!Put(block)
    BY <2>2, <2>3, <2>5, WritePuts
  <2> QED
    BY <2>4, <2>6 DEF Sound!Next
<1>5. CASE SizeRing
  <2>1. Larger(Headroom * quantum, MinFrames) \in Nat /\ out' = out
    BY <1>5, Numbers DEF Larger, SizeRing
  <2>2. Resize(Larger(Headroom * quantum, MinFrames))
    BY <1>5 DEF SizeRing
  <2> QED
    BY <1>1, <2>1, <2>2, ResizeMoves
<1>6. CASE Read
  <2>1. /\ Free(Smaller(srv.n, Fill)) /\ out' = Run(tail, Smaller(srv.n, Fill))
        /\ srv.n \in Nat /\ Fill \in Nat
    BY <1>6, QueueHere DEF Read, ReadBlock, RingInv, RingTypeOK
  <2>2. Smaller(srv.n, Fill) \in 0 .. Fill
    BY <2>1 DEF Smaller
  <2> QED
    BY <2>1, <2>2, ReadTakes
<1>7. CASE Grow
  <2>1. 2 * size \in Nat /\ Resize(2 * size) /\ out' = out
    BY <1>7, Numbers DEF Grow
  <2> QED
    BY <1>1, <2>1, ResizeMoves
<1>8. CASE Allocate
  <2>1. head' = 0 /\ tail' = 0 /\ out' = out /\ Wrap \in Nat \ {0}
    BY <1>8, Sizes DEF Allocate
  <2>2. Fill' = 0
    <3>1. Fill' = (0 - 0) % Wrap
      BY <2>1 DEF Fill
    <3>2. (0 - 0) % Wrap = 0
      BY <2>1, LagIs
    <3> QED
      BY <3>1, <3>2
  <2>3. Queued' = << >>
    BY <2>2, QueueNext
  <2> QED
    BY <2>1, <2>3 DEF Sound!Clear, Sound!Next
<1>9. ASSUME NEW n \in Quanta, Process(n) PROVE UNCHANGED <<Queued, out, head>>
  <2>1. UNCHANGED store /\ out' = << >>
    BY <1>9 DEF Process
  <2>2. UNCHANGED <<Queued, head>>
    BY <2>1 DEF store, Queued, Fill, Place
  <2> QED
    BY <2>1, <2>2 DEF Sound!NewBuffer, Sound!Next
<1>10. CASE UNCHANGED ringVars
  BY <1>1, <1>10 DEF ringVars, store
<1> QED
  BY <1>1, <1>2, <1>3, <1>4, <1>5, <1>6, <1>7, <1>8, <1>9, <1>10
     DEF RingNext, EmuStep, SrvCallback, Asked

LEMMA QueueStarts == RingInit => Sound!Init
<1> SUFFICES ASSUME RingInit PROVE Sound!Init
  OBVIOUS
<1>1. head = 0 /\ tail = 0 /\ out = << >> /\ RingInv
  BY RingStarts DEF RingInit
<1>2. Fill = 0
  BY <1>1, Sizes
<1>3. Queued = << >>
  BY <1>1, <1>2, QueueHere
<1> QED
  BY <1>1, <1>3 DEF Sound!Init

(* Whatever is rendered, asked for and negotiated, and whichever thread goes *)
(* first, the ring's size, its counters and both threads' numbers stay what  *)
(* they should be (pw_ring_write, pw_ring_read and pw_ring_resize).          *)
THEOREM RingTypeCorrect == RingSpec => []RingTypeOK
<1>1. RingInv => RingTypeOK
  BY DEF RingInv
<1> QED
  BY <1>1, RingStarts, RingNextKeeps, PTL DEF RingSpec

(* The ring is the queue of SoundQueue: the server is played the samples in  *)
(* the order they were rendered in, each once and without noise, for every   *)
(* size of ring, block and quantum and every place the counters can be in.   *)
(* What is queued when they wrap is excepted, and nothing else is.           *)
THEOREM RingKeepsOrder == RingSpec => SamplesInOrder
  BY RingStarts, RingNextKeeps, QueueStarts, RingNextMoves, PTL DEF RingSpec, SamplesInOrder, Sound!Spec
=============================================================================
