---------------------------- MODULE AudioHandoff ----------------------------
(***************************************************************************)
(* The hand-off between the emulator and libao (unix/audio.c).  The        *)
(* emulator's thread asks for a frame's samples and goes on; a thread of   *)
(* its own renders and plays them.  The request is one word under a mutex, *)
(* which the emulator's thread only tries to take: it never waits for the  *)
(* sound.                                                                  *)
(***************************************************************************)
EXTENDS SoundClock

CONSTANT ReopenLimit    \* bound: how often the device is opened anew

VARIABLES
    samples_waiting,
    terminated,
    device,     \* audio_device: "closed" for a null one
    reopened,   \* devices opened after the first
    main,       \* the emulator's thread: "plays", "reopens", "joins" or "gone"
    thread,     \* SoundThread_ao: where it is
    samples,    \* what the thread took and has not rendered yet
    refused     \* samples taken when there was no device to play them

hand == <<samples_waiting, terminated, device, reopened, main, thread, samples,
          refused>>
handVars == <<hand, rendered, clock>>

(* SoundInit_ao_driver found a driver and started the thread. *)
HandInit ==
    /\ ClockInit
    /\ samples_waiting = 0 /\ terminated = FALSE /\ device = "open" /\ reopened = 0
    /\ main = "plays" /\ thread = "top" /\ samples = 0 /\ refused = 0

(* The thread has the mutex from its lock to its wait or its unlock. *)
Locked == thread \in {"test", "doze"}

Woken == IF thread = "asleep" THEN "waking" ELSE thread

-----------------------------------------------------------------------------
(* SoundWrite_ao, once a drawn frame: nothing without a device.  If the lock *)
(* is free and the last request is taken, ask; else only wake the thread.    *)
NoDevice == /\ device = "closed"
            /\ SkipFrame
            /\ UNCHANGED <<hand, rendered>>

(* Variant: the thread is not told. *)
RequestUntold ==
    /\ device = "open" /\ ~Locked /\ samples_waiting = 0
    /\ Pay
    /\ samples_waiting' = Due
    /\ UNCHANGED <<terminated, device, reopened, main, thread, samples, rendered, refused>>

Request == /\ device = "open" /\ ~Locked /\ samples_waiting = 0
           /\ Pay
           /\ samples_waiting' = Due
           /\ thread' = Woken
           /\ UNCHANGED <<terminated, device, reopened, main, samples, rendered, refused>>

NotTakenYet == /\ device = "open" /\ ~Locked /\ samples_waiting # 0
               /\ SkipFrame
               /\ UNCHANGED <<hand, rendered>>

Busy == /\ device = "open" /\ Locked
        /\ SkipFrame
        /\ UNCHANGED <<hand, rendered>>

SoundWrite_ao == main = "plays" /\ (NoDevice \/ Request \/ NotTakenYet \/ Busy)

(* InitSound again, when the player switches stereo: the device is closed,   *)
(* and opened or not.                                                        *)
CloseDevice ==
    /\ main = "plays" /\ device = "open" /\ reopened < ReopenLimit
    /\ device' = "closed" /\ main' = "reopens"
    /\ reopened' = reopened + 1
    /\ UNCHANGED <<samples_waiting, terminated, thread, samples, rendered, refused, clock>>

OpenDevice ==
    /\ main = "reopens"
    /\ device' \in {"open", "closed"}
    /\ main' = "plays"
    /\ UNCHANGED <<samples_waiting, terminated, reopened, thread, samples, rendered, refused, clock>>

(* DeinitSound: the flag and the broadcast, without the mutex; then join. *)
Terminate ==
    /\ main = "plays" /\ device = "open"
    /\ terminated' = TRUE
    /\ thread' = Woken
    /\ main' = "joins"
    /\ UNCHANGED <<samples_waiting, device, reopened, samples, rendered, refused, clock>>

(* DeinitSound without a device leaves the thread to the end of the process. *)
Abandon ==
    /\ main = "plays" /\ device = "closed"
    /\ main' = "gone"
    /\ UNCHANGED <<samples_waiting, terminated, device, reopened, thread, samples, rendered, refused, clock>>

Join ==
    /\ main = "joins" /\ thread = "done"
    /\ device' = "closed" /\ main' = "gone"
    /\ UNCHANGED <<samples_waiting, terminated, reopened, thread, samples, rendered, refused, clock>>

-----------------------------------------------------------------------------
Goes(place) ==
    /\ thread' = place
    /\ UNCHANGED <<terminated, device, reopened, main, clock>>

ThreadTop ==
    /\ thread = "top"
    /\ Goes(IF terminated THEN "done" ELSE "test")
    /\ UNCHANGED <<samples_waiting, samples, rendered, refused>>

(* Under the mutex: wait, or take the request. *)
ThreadWaits ==
    /\ thread = "test" /\ samples_waiting = 0 /\ ~terminated
    /\ Goes("doze")
    /\ UNCHANGED <<samples_waiting, samples, rendered, refused>>

(* pthread_cond_wait gives the mutex up as it falls asleep; it may wake for  *)
(* no reason, and has the mutex when it returns.                             *)
ThreadSleeps ==
    /\ thread = "doze"
    /\ Goes("asleep")
    /\ UNCHANGED <<samples_waiting, samples, rendered, refused>>

ThreadStirs ==
    /\ thread = "asleep"
    /\ Goes("waking")
    /\ UNCHANGED <<samples_waiting, samples, rendered, refused>>

ThreadWakes ==
    /\ thread = "waking"
    /\ Goes("test")
    /\ UNCHANGED <<samples_waiting, samples, rendered, refused>>

(* Variant: the request is cleared only once its samples were played.        *)
ThreadTakesLate ==
    /\ thread = "test"
    /\ samples_waiting # 0 \/ terminated
    /\ samples' = samples_waiting
    /\ UNCHANGED samples_waiting
    /\ Goes("play")
    /\ UNCHANGED <<rendered, refused>>

ThreadTakes ==
    /\ thread = "test"
    /\ samples_waiting # 0 \/ terminated
    /\ samples' = samples_waiting
    /\ samples_waiting' = 0
    /\ Goes("play")
    /\ UNCHANGED <<rendered, refused>>

(* There is a device, or there was: it may be closed while this mixes, and   *)
(* then ao_play is given what is no device any more.                         *)
ThreadPlays ==
    /\ thread = "play"
    /\ IF ~terminated /\ device = "open"
         THEN /\ Goes("mix")
              /\ UNCHANGED <<samples, refused>>
         ELSE /\ Goes("top")
              /\ samples' = 0 /\ refused' = refused + samples
    /\ UNCHANGED <<samples_waiting, rendered>>

(* SoundWriteSamples_ao, in blocks of at most 1280: all are rendered. *)
ThreadMixes ==
    /\ thread = "mix"
    /\ rendered' = rendered + samples
    /\ samples' = 0
    /\ Goes("top")
    /\ UNCHANGED <<samples_waiting, refused>>

SoundThread_ao == ThreadTop \/ ThreadWaits \/ ThreadSleeps \/ ThreadWakes
                     \/ ThreadTakes \/ ThreadPlays \/ ThreadMixes

HandNext == SoundWrite_ao \/ CloseDevice \/ OpenDevice \/ Terminate \/ Abandon \/ Join
              \/ SoundThread_ao \/ ThreadStirs

(* The thread is scheduled. *)
HandSpec == HandInit /\ [][HandNext]_handVars /\ WF_handVars(SoundThread_ao)

-----------------------------------------------------------------------------
HandTypeOK ==
    /\ ClockTypeOK
    /\ samples_waiting \in Nat /\ samples \in Nat
    /\ refused \in Nat
    /\ terminated \in BOOLEAN /\ device \in {"open", "closed"}
    /\ reopened \in 0 .. ReopenLimit
    /\ main \in {"plays", "reopens", "joins", "gone"}
    /\ thread \in {"top", "test", "doze", "asleep", "waking", "play", "mix", "done"}

(* Every sample the clock was charged for is waiting, in the thread's hands, *)
(* rendered, or refused for want of a device: none is rendered twice, or     *)
(* charged and forgotten, wherever the two threads are (audio.c:233 and 260).*)
EverySampleOnce == samples_waiting + samples + rendered + refused = owed

(* A request is taken: the thread never sleeps through one, though the       *)
(* emulator's thread does not wait for the lock.                             *)
RequestsServed == (samples_waiting # 0) ~> (samples_waiting = 0 \/ terminated)
=============================================================================
