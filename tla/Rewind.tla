------------------------------- MODULE Rewind -------------------------------
(***************************************************************************)
(* Rewinding: zstate.c's ring of snapshots and pause frame, cpu/c_rewind.c *)
(* which runs it, the part of cpu/c_execloop.c after the vblank that calls *)
(* both, and what zmovie.c saves and restores with a snapshot.             *)
(*                                                                         *)
(* One pass of the loop goes from "vblank", where keys are looked at and   *)
(* the menu can be opened, through the paused path ("held", "heldkey") or  *)
(* UpdateRewindC ("update", "rewind") and ProcessMovies ("movie") to the   *)
(* frame that is then emulated ("frame").                                  *)
(*                                                                         *)
(* A console is the sequence of what happened to it since it was started,  *)
(* and each event carries the number of rewinds and starts before it, so   *)
(* that two histories are equal only if nothing tells them apart.          *)
(***************************************************************************)
EXTENDS Naturals, Sequences

CONSTANTS
    States,      \* AllocatedRewindStates: the slots of the ring
    Interval,    \* ActualRewindFrames: frames between two snapshots
    PauseRewind, \* GUI option: pause after a rewind
    PauseLoad,   \* GUI option: pause after loading a state
    Movies,      \* the kinds of movie that may be started: "play", "rec"
    MovieLen,    \* frames in a movie that is played
    Hasty,       \* TRUE: the player may pause before the first snapshot, and
                 \*   unpause or start something while a pause frame is pending
    MaxFrames,   \* bound: the longest history of a console
    MaxBorn,     \* bound: starts, loads and rewinds
    None         \* no movie position

ASSUME RewindAssumption ==
    /\ States \in Nat \ {0} /\ Interval \in Nat \ {0}
    /\ {PauseRewind, PauseLoad, Hasty} \subseteq BOOLEAN
    /\ Movies \subseteq {"play", "rec"}
    /\ {MovieLen, MaxFrames, MaxBorn} \subseteq Nat
    /\ None \notin Nat

VARIABLES
    pc,          \* where the loop stands
    now,         \* the console
    born,        \* starts, loads and rewinds so far
    slots,       \* StateBackup
    latest,      \* LatestRewindPos: where the next snapshot goes
    earliest,    \* EarliestRewindPos
    passed,      \* RewindPosPassed
    timer,       \* RewindTimer
    dbl,         \* DblRewTimer
    mode,        \* PauseFrameMode
    pauseFrame,  \* SpecialPauseBackup
    paused,      \* EMUPause
    step,        \* INCRFrame
    key,         \* whether the rewind key is pressed and not yet acted on
    movie,       \* MovieProcessing: "off", "play" or "rec"
    mpos,        \* frames of the movie played or recorded
    mslots       \* zmv_rewind_buffer: the movie position of each slot

ringVars == <<slots, latest, earliest, passed>>
timers == <<timer, dbl>>
pauseVars == <<mode, pauseFrame, paused>>
movieVars == <<movie, mpos, mslots>>
vars == <<pc, now, born, ringVars, timers, pauseVars, step, key, movieVars>>

Slots == 0 .. States - 1
After(i) == (i + 1) % States

Unwritten == << >>                      \* a buffer nobody has written
Blank == [i \in Slots |-> Unwritten]
NoPositions == [i \in Slots |-> None]

(* How many slots hold a snapshot. *)
Kept == IF latest = earliest THEN IF passed THEN States ELSE 0
        ELSE IF latest > earliest THEN latest - earliest
        ELSE latest + States - earliest

Init == /\ pc = "vblank" /\ now = <<0>> /\ born = 0
        /\ slots = Blank
        /\ latest = 0 /\ earliest = 0 /\ passed = FALSE
        /\ timer = 1 /\ dbl = 1
        /\ mode = 0 /\ pauseFrame = Unwritten /\ paused = FALSE
        /\ step = FALSE /\ key = FALSE
        /\ movie = "off" /\ mpos = None /\ mslots = NoPositions

-----------------------------------------------------------------------------
(* The keys and the menu, seen at the vblank. *)

PressRewind ==
    /\ pc = "vblank" /\ ~key /\ born < MaxBorn
    /\ key' = TRUE
    /\ UNCHANGED <<pc, now, born, ringVars, timers, pauseVars, step, movieVars>>

PressPause ==
    /\ pc = "vblank"
    /\ Hasty \/ IF paused THEN mode \notin {1, 2} ELSE Kept > 0
    /\ paused' = ~paused
    /\ UNCHANGED <<pc, now, born, ringVars, timers, mode, pauseFrame, step, key, movieVars>>

PressStep ==
    /\ pc = "vblank"
    /\ step' = ~step
    /\ UNCHANGED <<pc, now, born, ringVars, timers, pauseVars, key, movieVars>>

(* InitRewindVarsForMovie: the ring is emptied, its slots are not.  A variant: *)
(* nothing is.                                                                 *)
KeepRing == UNCHANGED <<latest, earliest, passed, timers>>
EmptyRing == /\ latest' = 0 /\ earliest' = 0 /\ passed' = FALSE
             /\ timer' = 1 /\ dbl' = 1

Begin == /\ pc = "vblank" /\ born < MaxBorn
         /\ Hasty \/ mode = 0
         /\ born' = born + 1 /\ now' = <<born + 1>>
         /\ EmptyRing
         /\ UNCHANGED <<pc, mode, step, key>>

(* A game is loaded or, keeping the pause, reset: InitRewindVars reallocates *)
(* the slots and the pause frame.                                            *)
Restart == /\ Begin
           /\ paused' \in {FALSE, paused}
           /\ Hasty \/ ~paused'
           /\ slots' = Blank /\ pauseFrame' = Unwritten
           /\ movie' = "off" /\ mpos' = None /\ mslots' = NoPositions

(* MoviePlay loads the movie's first state, MovieRecord makes the present    *)
(* one the movie's first.                                                    *)
StartMovie(kind) ==
    /\ movie = "off" /\ Begin
    /\ Hasty \/ ~paused
    /\ movie' = kind /\ mpos' = 0 /\ mslots' = NoPositions
    /\ UNCHANGED <<slots, pauseFrame, paused>>

(* MovieStop; MovieRecord during playback goes on recording where it is. *)
StopMovie ==
    /\ pc = "vblank" /\ movie # "off"
    /\ movie' = "off" /\ mpos' = None /\ mslots' = NoPositions
    /\ UNCHANGED <<pc, now, born, ringVars, timers, pauseVars, step, key>>

TakeOver ==
    /\ pc = "vblank" /\ movie = "play" /\ "rec" \in Movies
    /\ Hasty \/ mode = 0
    /\ movie' = "rec"
    /\ UNCHANGED <<pc, now, born, ringVars, timers, pauseVars, step, key, mpos, mslots>>

(* The console as the player has it: a pending pause frame is what the frame *)
(* being shown will be undone to.                                            *)
Shown == IF mode \in {2, 3} THEN pauseFrame ELSE now

(* stateloader, no movie running: one more thing that happens to the console. *)
LoadState ==
    /\ pc = "vblank" /\ movie = "off" /\ born < MaxBorn /\ Len(Shown) < MaxFrames
    /\ Hasty \/ (PauseLoad => Kept > 0)
    /\ born' = born + 1 /\ now' = Append(Shown, born + 1)
    /\ paused' = (paused \/ PauseLoad)
    /\ mode' = IF paused' THEN 1 ELSE mode
    /\ UNCHANGED <<pc, ringVars, timers, pauseFrame, step, key, movieVars>>

(* A variant: the frame shown is kept. *)
KeepShownFrame == mode = 3 /\ mode' = 0 /\ UNCHANGED now

RestorePauseFrame == mode = 3 /\ now' = pauseFrame /\ mode' = 0

(* On to the paused path, or to the frame. *)
LeaveVblank ==
    /\ pc = "vblank"
    /\ Len(now) < MaxFrames \/ mode # 0
    /\ \/ RestorePauseFrame
       \/ mode # 3 /\ UNCHANGED <<now, mode>>
    /\ pc' = IF paused THEN "held" ELSE "update"
    /\ UNCHANGED <<born, ringVars, timers, pauseFrame, paused, step, key, movieVars>>

-----------------------------------------------------------------------------
(* RestoreCVFrame: which slot a rewind goes back to. *)
OneBack == IF latest = 0 THEN States - 1 ELSE latest - 1
TwoBack == IF latest = 1 \/ States = 1 THEN States - 1
           ELSE IF latest = 0 THEN States - 2 ELSE latest - 2
Target == IF latest = After(earliest) THEN earliest
          ELSE IF dbl > Interval THEN TwoBack ELSE OneBack

(* A snapshot rewound past is given up. *)
Resume == After(Target)

(* zmv_rewind_load.  A variant: a movie being played is not taken back. *)
OnlyRecordings == IF movie = "rec" THEN mslots[Target] ELSE mpos
MovieBack == IF movie = "off" THEN mpos ELSE mslots[Target]

(* ProcessRewindC, from the paused path and from UpdateRewindC.  A rewind    *)
(* that pauses, and one that finds a pause frame asked for, takes one.       *)
Rewind ==
    LET stop == movie # "rec" /\ (PauseRewind \/ paused)
        take == stop \/ mode = 1
    IN  /\ pc \in {"heldkey", "rewind"} /\ key
        /\ key' = FALSE
        /\ born' = born + 1 /\ now' = slots[Target]
        /\ mpos' = MovieBack
        /\ paused' = (paused \/ stop)
        /\ mode' = IF take THEN 2 ELSE mode
        /\ pauseFrame' = IF take THEN slots[Target] ELSE pauseFrame
        /\ latest' = Resume /\ timer' = Interval /\ dbl' = 2 * Interval
        /\ UNCHANGED <<pc, slots, earliest, passed, step, movie, mslots>>

(* The paused path: BackupPauseFrame, ProcessRewindC, and either one frame   *)
(* to show the pause frame, one frame the player asked for, or none.         *)
Hold ==
    /\ pc = "held" /\ pc' = "heldkey"
    /\ \/ mode = 1 /\ mode' = 2 /\ pauseFrame' = now
       \/ mode # 1 /\ UNCHANGED <<mode, pauseFrame>>
    /\ UNCHANGED <<now, born, ringVars, timers, paused, step, key, movieVars>>

LeaveHeld ==
    /\ pc = "heldkey" /\ ~key
    /\ \/ mode = 2 /\ mode' = 3 /\ pc' = "frame" /\ UNCHANGED step
       \/ mode # 2 /\ step /\ step' = FALSE /\ pc' = "update" /\ UNCHANGED mode
       \/ mode # 2 /\ ~step /\ pc' = "vblank" /\ UNCHANGED <<step, mode>>
    /\ UNCHANGED <<now, born, ringVars, timers, pauseFrame, paused, key, movieVars>>

(* UpdateRewindC: only RewindTimer reaching zero takes a snapshot. *)
Tick ==
    /\ pc = "update" /\ timer > 1 /\ pc' = "rewind"
    /\ timer' = timer - 1 /\ dbl' = dbl - 1
    /\ UNCHANGED <<now, born, ringVars, pauseVars, step, key, movieVars>>

(* Two intervals after a rewind both timers run out at once.  A variant: only *)
(* RewindTimer is set again.                                                  *)
NeverReload == dbl - 1
Reload == IF dbl = 1 THEN Interval ELSE dbl - 1

(* BackupCVFrame. *)
Backup ==
    LET first == IF passed THEN After(earliest) ELSE earliest
    IN  /\ pc = "update" /\ timer = 1 /\ pc' = "rewind"
        /\ slots' = [slots EXCEPT ![latest] = now]
        /\ mslots' = IF movie = "off" THEN mslots ELSE [mslots EXCEPT ![latest] = mpos]
        /\ earliest' = first
        /\ latest' = After(latest)
        /\ passed' = (After(latest) = first)
        /\ timer' = Interval
        /\ dbl' = Reload
        /\ UNCHANGED <<now, born, pauseVars, step, key, movie, mpos>>

LeaveRewind ==
    /\ pc = "rewind" /\ ~key
    /\ pc' = IF movie = "off" THEN "frame" ELSE "movie"
    /\ UNCHANGED <<now, born, ringVars, timers, pauseVars, step, key, movieVars>>

(* ProcessMovies: zmv_replay or zmv_record; a movie played to its end is closed. *)
ProcessMovies ==
    /\ pc = "movie" /\ pc' = "frame"
    /\ \/ /\ movie = "rec" \/ mpos < MovieLen
          /\ mpos' = mpos + 1
          /\ UNCHANGED <<movie, mslots>>
       \/ /\ movie = "play" /\ mpos >= MovieLen
          /\ movie' = "off" /\ mpos' = None /\ mslots' = NoPositions
    /\ UNCHANGED <<now, born, ringVars, timers, pauseVars, step, key>>

Frame ==
    /\ pc = "frame" /\ pc' = "vblank"
    /\ now' = Append(now, born)
    /\ UNCHANGED <<born, ringVars, timers, pauseVars, step, key, movieVars>>

Next == \/ PressRewind \/ PressPause \/ PressStep
        \/ Restart \/ (\E kind \in Movies : StartMovie(kind))
        \/ StopMovie \/ TakeOver \/ LoadState \/ LeaveVblank
        \/ Hold \/ LeaveHeld \/ Tick \/ Backup \/ Rewind \/ LeaveRewind
        \/ ProcessMovies \/ Frame

Spec == Init /\ [][Next]_vars

-----------------------------------------------------------------------------
TypeOK ==
    /\ pc \in {"vblank", "held", "heldkey", "update", "rewind", "movie", "frame"}
    /\ now \in Seq(Nat) /\ born \in 0 .. MaxBorn + 1
    /\ slots \in [Slots -> Seq(Nat)]
    /\ latest \in Slots /\ earliest \in Slots /\ passed \in BOOLEAN
    /\ timer \in 1 .. Interval /\ dbl \in {timer, timer + Interval}
    /\ mode \in 0 .. 3 /\ pauseFrame \in Seq(Nat)
    /\ paused \in BOOLEAN /\ step \in BOOLEAN /\ key \in BOOLEAN
    /\ movie \in {"off", "play", "rec"}
    /\ mpos \in Nat \cup {None} /\ mslots \in [Slots -> Nat \cup {None}]

(* No movie position is used that zmv_rewind_save has not written in this    *)
(* movie: RestoreCVFrame truncates the file of a recording there.            *)
MoviePositionWritten == movie # "off" => mpos # None

(* Nor is a snapshot or a pause frame: StateBackup, SpecialPauseBackup and   *)
(* zmv_rewind_buffer all come from malloc.                                   *)
NothingUnwritten == now # Unwritten /\ MoviePositionWritten

(* The input ProcessMovies plays or records next is the one of the frame the *)
(* console is about to emulate: rewinding takes the movie back with it.      *)
MovieInStep == pc = "movie" => mpos + 1 = Len(now)

(* The ring from its oldest snapshot to its newest. *)
Window == [i \in 1 .. Kept |-> slots[(earliest + i - 1) % States]]

Stack == INSTANCE RewindStack
             WITH Events <- 0 .. MaxBorn + 1, now <- Shown, stack <- Window, fresh <- dbl <= Interval

(* The ring, its two timers and the pause frame are a stack of snapshots of  *)
(* the timeline the player is on; a pause, and the frames emulated to show   *)
(* what was rewound to, leave no trace in it.                                *)
RewindsAsAStack == Stack!Spec

(* Every snapshot in the ring is a moment of the player's own past, and of   *)
(* the past of the snapshots newer than it.                                  *)
SnapshotsOnTimeline == Stack!OnTimeline
=============================================================================
