----------------------------- MODULE AudioRing -----------------------------
(***************************************************************************)
(* The ring between the emulator and the PipeWire server (unix/audio.c).   *)
(* The emulator renders a block a frame and writes it into the ring; the   *)
(* server's thread runs the stream's callbacks, one at a time, and reads   *)
(* from the ring in its process callback.  Both steer the ring: how many   *)
(* samples it should hold (pw_target_frames) and how many it can           *)
(* (pw_ring_size).  A mutex makes each write, read and resize one step;    *)
(* what is read or set outside of it is a step of its own.                 *)
(*                                                                         *)
(* A sample stands for a frame of them, so a stride is 1.  The resampler   *)
(* between the mixer and the ring only decides how large a block is.       *)
(***************************************************************************)
EXTENDS Integers, Sequences

CONSTANTS
    Plain, Mark,    \* what a sample is told by, at most one of those in the ring
    Noise,          \* what is in a place no sample was written to
    BlockSizes,     \* sizes of a resampled block
    Quanta,         \* how much the server asks for at a time
    MinFrames,      \* pw_ring_min_frames: the ring a format starts with
    MaxFrames,      \* pw_ring_max_frames: the ring may grow to this
    StartTarget,    \* what pw_target_ms makes of the negotiated rate
    MaxTarget,      \* what PW_TARGET_MAX_MS makes of it
    Headroom,       \* the ring should hold this many quanta (8)
    Wrap,           \* pw_ring_head and pw_ring_tail count modulo this (2^32)
    FormatLimit     \* bound: formats negotiated in one behaviour

ASSUME RingAssumption ==
    /\ BlockSizes \subseteq Nat \ {0} /\ Quanta \subseteq Nat \ {0}
    /\ MinFrames \in Nat \ {0} /\ MaxFrames \in Nat /\ MinFrames <= MaxFrames
    /\ StartTarget \in Nat \ {0} /\ MaxTarget \in Nat /\ StartTarget <= MaxTarget
    /\ MaxTarget <= MinFrames
    /\ Headroom \in Nat \ {0} /\ FormatLimit \in Nat
    /\ Wrap \in Nat /\ MaxFrames < Wrap
    /\ \A b \in BlockSizes : b < MinFrames
    /\ Plain # Mark /\ Noise \notin {Plain, Mark}

VARIABLES
    ring, size, head, tail,     \* pw_ring, pw_ring_size, pw_ring_head, _tail
    target,         \* pw_target_frames
    quantum,        \* pw_observed_quantum_frames
    calibrated,     \* pw_calibrated
    ready,          \* pw_format_ready
    streaming,      \* pw_stream_streaming
    priming,        \* pw_priming
    out,            \* what the callback put in the server's buffer before the silence
    emu,            \* the emulator thread: where it is, and the number it holds
    srv,            \* the server thread: the same
    formats         \* formats negotiated so far

store == <<ring, size, head, tail>>
stream == <<ready, streaming, formats>>
ringVars == <<ring, size, head, tail, target, quantum, calibrated, ready,
              streaming, priming, out, emu, srv, formats>>

RingInit ==
    /\ ring = << >> /\ size = 0 /\ head = 0 /\ tail = 0
    /\ target = 0 /\ quantum = 0
    /\ calibrated = FALSE /\ ready = FALSE /\ streaming = FALSE /\ priming = TRUE
    /\ out = << >>
    /\ emu = [at |-> "idle", n |-> 0] /\ srv = [at |-> "idle", n |-> 0]
    /\ formats = 0

Samples == {Plain, Mark}

Smaller(m, n) == IF m < n THEN m ELSE n
Larger(m, n) == IF m > n THEN m ELSE n

(* pw_ring_fill_locked: the counters' difference is right across their wrap. *)
Fill == (head - tail) % Wrap

(* The samples in the ring, oldest first, and where a counter's place is. *)
Place(c) == (c % size) + 1
Queued == [i \in 1 .. Fill |-> ring[Place((tail + i - 1) % Wrap)]]

Third == size \div 3

(* A block the mixer and the resampler rendered: if the sample that is told  *)
(* from the others can be any of them, so can the order they are in.         *)
Blocks(n) ==
    {[i \in 1 .. n |-> IF i = k THEN Mark ELSE Plain] :
         k \in IF \E i \in 1 .. size : ring[i] = Mark THEN {0} ELSE 0 .. n}

(* memcpy out of a ring in two parts: a run of n places that starts where    *)
(* counter c is.                                                             *)
Run(c, n) == [i \in 1 .. n |-> ring[Place(c + i - 1)]]

Blank(n) == [i \in 1 .. n |-> Noise]

(* The n oldest samples are done with.  Their places are blanked, for nobody *)
(* reads them again, unless a counter wraps inside the queue.                *)
Free(n) ==
    /\ tail' = (tail + n) % Wrap
    /\ ring' = IF tail > head THEN ring
               ELSE [i \in 1 .. size |->
                       IF \E k \in 0 .. n - 1 : Place(tail + k) = i THEN Noise ELSE ring[i]]
    /\ UNCHANGED <<size, head>>

(* pw_ring_write.  A block that does not fit costs the oldest samples. *)
WriteBlock(block) ==
    LET n == Len(block)
        lost == Larger(0, n - (size - Fill))
        at == Place(head)
        offset == [i \in 1 .. size |-> (i - at + size) % size]
    IN  /\ ring' = [i \in 1 .. size |-> IF offset[i] < n THEN block[offset[i] + 1]
                                                          ELSE ring[i]]
        /\ tail' = (tail + lost) % Wrap
        /\ head' = (head + n) % Wrap
        /\ UNCHANGED size

(* pw_ring_read *)
ReadBlock(n) ==
    LET got == Smaller(n, Fill)
    IN  out' = Run(tail, got) /\ Free(got)

(* Variant: the old ring is copied as it lies. *)
ResizeAsItLies(want) ==
    LET to == Smaller(want, MaxFrames)
    IN  IF to <= size THEN UNCHANGED store
        ELSE /\ ring' = ring \o Blank(to - size)
             /\ size' = to
             /\ tail' = 0
             /\ head' = Fill

(* pw_ring_resize: the ring only grows, and what it holds is moved along. *)
Resize(want) ==
    LET to == Smaller(want, MaxFrames)
    IN  IF to <= size THEN UNCHANGED store
        ELSE /\ ring' = Run(tail, Fill) \o Blank(to - Fill)
             /\ size' = to
             /\ tail' = 0
             /\ head' = Fill

-----------------------------------------------------------------------------
(* The emulator's thread: SoundWrite_pipewire, once a frame.                 *)
EmuGoes(p, n) == emu' = [at |-> p, n |-> n]

(* pw_rs_update_dynamic reads the target before it takes the lock. *)
Aim(goal) == EmuGoes(IF goal = 0 THEN "write" ELSE "drop", goal)

(* pw_produce: a stream that is not up gets nothing. *)
BeginFrame ==
    /\ emu.at = "idle" /\ ready /\ streaming
    /\ IF calibrated THEN Aim(target) ELSE EmuGoes("calibrate", 0)
    /\ UNCHANGED <<store, target, quantum, calibrated, stream, priming, out, srv>>

(* pw_calibrate: it is too early, or the longest gap was that of n frames.   *)
Calibrate ==
    /\ emu.at = "calibrate"
    /\ \/ Aim(target)
       \/ \E n \in StartTarget .. MaxTarget :
             EmuGoes("settle", Smaller(Smaller(n + 2 * quantum, MaxTarget), Third))
    /\ UNCHANGED <<store, target, quantum, calibrated, stream, priming, out, srv>>

Settle ==
    /\ emu.at = "settle"
    /\ target' = emu.n
    /\ calibrated' = TRUE
    /\ Aim(emu.n)
    /\ UNCHANGED <<store, quantum, stream, priming, out, srv>>

DropBacklog ==
    /\ emu.at = "drop"
    /\ IF Fill > 3 * emu.n THEN Free(Fill - emu.n) ELSE UNCHANGED store
    /\ EmuGoes("write", 0)
    /\ UNCHANGED <<target, quantum, calibrated, stream, priming, out, srv>>

WriteFrame ==
    /\ emu.at = "write"
    /\ \E n \in BlockSizes : \E block \in Blocks(n) : WriteBlock(block)
    /\ EmuGoes("idle", 0)
    /\ UNCHANGED <<target, quantum, calibrated, stream, priming, out, srv>>

EmuStep == BeginFrame \/ Calibrate \/ Settle \/ DropBacklog \/ WriteFrame

-----------------------------------------------------------------------------
(* The server's thread: the callbacks, one at a time.                        *)
SrvGoes(p, n) == srv' = [at |-> p, n |-> n]

(* PipeWireParamChanged: a format is negotiated. *)
ParamChanged ==
    /\ srv.at = "idle" /\ formats < FormatLimit
    /\ formats' = formats + 1
    /\ target' = Smaller(StartTarget, MinFrames \div 3)
    /\ SrvGoes("allocate", 0)
    /\ UNCHANGED <<store, quantum, calibrated, ready, streaming, priming, out, emu>>

Allocate ==
    /\ srv.at = "allocate"
    /\ ring' = Blank(MinFrames) /\ size' = MinFrames /\ head' = 0 /\ tail' = 0
    /\ SrvGoes("format", 0)
    /\ UNCHANGED <<target, quantum, calibrated, stream, priming, out, emu>>

FormatReady ==
    /\ srv.at = "format"
    /\ ready' = TRUE
    /\ SrvGoes("idle", 0)
    /\ UNCHANGED <<store, target, quantum, calibrated, streaming, formats, priming, out, emu>>

(* PipeWireStateChanged: the server starts or suspends a stream whose format *)
(* is known.                                                                 *)
StateChanged ==
    /\ srv.at = "idle" /\ ready
    /\ streaming' = ~streaming
    /\ UNCHANGED <<store, target, quantum, calibrated, ready, formats, priming, out, emu, srv>>

(* PipeWireProcess is asked for n samples.  pw_smart_size_ring, when that is *)
(* more than ever before: raise the target, grow the ring, cap the target.   *)
Process(n) ==
    /\ srv.at = "idle" /\ ready /\ streaming
    /\ IF n > quantum
         THEN /\ quantum' = n
              /\ target' = Larger(target, 2 * n)
              /\ SrvGoes("size", n)
         ELSE /\ SrvGoes("render", n)
              /\ UNCHANGED <<target, quantum>>
    /\ out' = << >>
    /\ UNCHANGED <<store, calibrated, stream, priming, emu>>

SizeRing ==
    /\ srv.at = "size"
    /\ Resize(Larger(Headroom * quantum, MinFrames))
    /\ SrvGoes("cap", srv.n)
    /\ UNCHANGED <<target, quantum, calibrated, stream, priming, out, emu>>

CapTarget ==
    /\ srv.at = "cap"
    /\ target' = Smaller(target, Third)
    /\ SrvGoes("render", srv.n)
    /\ UNCHANGED <<store, quantum, calibrated, stream, priming, out, emu>>

(* Silence until the target is met, and before the calibration is over.      *)
Render ==
    /\ srv.at = "render"
    /\ LET met == Fill >= target
           play == calibrated /\ (priming => met)
       IN  /\ priming' = (priming /\ ~(calibrated /\ met))
           /\ IF play THEN SrvGoes("read", srv.n) ELSE SrvGoes("idle", 0)
    /\ UNCHANGED <<store, target, quantum, calibrated, stream, out, emu>>

(* The menu is open, the game is paused or the sound is off: silence, too.   *)
Mute ==
    /\ srv.at = "render"
    /\ SrvGoes("idle", 0)
    /\ UNCHANGED <<store, target, quantum, calibrated, stream, priming, out, emu>>

Read ==
    /\ srv.at = "read"
    /\ ReadBlock(srv.n)
    /\ SrvGoes(IF Fill < srv.n THEN "underrun" ELSE "idle", 0)
    /\ UNCHANGED <<target, quantum, calibrated, stream, priming, emu>>

(* Variant: the target is raised after every underrun. *)
UnderrunUncapped ==
    /\ srv.at = "underrun"
    /\ target' = target + quantum
    /\ priming' = TRUE
    /\ SrvGoes("grow", 0)
    /\ UNCHANGED <<store, quantum, calibrated, stream, out, emu>>

(* The ring ran dry: hold more, start over, and grow. *)
Underrun ==
    /\ srv.at = "underrun"
    /\ target' = IF target < MaxTarget /\ target + quantum <= Third
                   THEN target + quantum ELSE target
    /\ priming' = TRUE
    /\ SrvGoes("grow", 0)
    /\ UNCHANGED <<store, quantum, calibrated, stream, out, emu>>

Grow ==
    /\ srv.at = "grow"
    /\ Resize(2 * size)
    /\ SrvGoes("idle", 0)
    /\ UNCHANGED <<target, quantum, calibrated, stream, priming, out, emu>>

SrvCallback == SizeRing \/ CapTarget \/ Render \/ Mute \/ Read \/ Underrun \/ Grow
                 \/ Allocate \/ FormatReady

Asked == \E n \in Quanta : Process(n)

RingNext == EmuStep \/ SrvCallback \/ Asked \/ ParamChanged \/ StateChanged

(* The emulator goes on drawing frames, a callback ends, and a stream that   *)
(* is streaming asks again.                                                  *)
RingSpec == /\ RingInit /\ [][RingNext]_ringVars
            /\ WF_ringVars(EmuStep) /\ WF_ringVars(SrvCallback) /\ WF_ringVars(Asked)

-----------------------------------------------------------------------------
RingTypeOK ==
    /\ size \in 0 .. MaxFrames /\ ring \in [1 .. size -> Samples \union {Noise}]
    /\ head \in 0 .. Wrap - 1 /\ tail \in 0 .. Wrap - 1
    /\ target \in Nat /\ quantum \in Quanta \union {0}
    /\ calibrated \in BOOLEAN /\ ready \in BOOLEAN /\ streaming \in BOOLEAN
    /\ priming \in BOOLEAN
    /\ emu.at \in {"idle", "calibrate", "settle", "drop", "write"}
    /\ emu.n \in Nat
    /\ srv.at \in {"idle", "allocate", "format", "size", "cap", "render", "read",
                   "underrun", "grow"}
    /\ srv.n \in Nat
    /\ formats \in 0 .. FormatLimit

(* The server is played the queue of rendered samples, in order and without  *)
(* noise, whichever thread's step comes in between (pw_ring_write and        *)
(* pw_ring_read, audio.c:591); the exception is what is queued when the byte *)
(* counters wrap, for a ring's size is no power of two.                      *)
Sound == INSTANCE SoundQueue WITH queue <- Queued, count <- head, Laps <- Wrap
SamplesInOrder == Sound!Spec

(* A stream that is left to play, in a game that is not paused for good,     *)
(* gets through its priming: the emulator's dropping of a backlog never      *)
(* keeps the ring below the level the server waits for.                      *)
PrimingEnds == (<>[](streaming /\ calibrated) /\ []<><<Render>>_ringVars)
                   => (priming ~> ~priming)
=============================================================================
