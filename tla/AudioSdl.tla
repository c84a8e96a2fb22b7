------------------------------ MODULE AudioSdl ------------------------------
(***************************************************************************)
(* The SDL back end (unix/audio.c).  SDL queues what it is given, and its  *)
(* own thread plays from the queue whenever the device wants a period.     *)
(***************************************************************************)
EXTENDS SoundClock

CONSTANTS
    Period,     \* samples the device takes at a time
    Frame       \* samples of the longest frame, one of 50 a second

ASSUME SdlAssumption ==
    /\ Period \in Nat \ {0} /\ Frame \in Nat
    /\ HI <= Frame * LO

VARIABLES queued     \* samples in the SDL stream, silence among them

sdlVars == <<queued, rendered, clock>>

sdl_audio_target == Period + 2 * Frame
sdl_audio_buffer_len == 2 * sdl_audio_target

SdlInit == ClockInit /\ queued = 0

(* SoundWrite_sdl.  A queue that ran dry is filled up to the target with     *)
(* silence.  The frame's samples are then rendered whatever the queue holds, *)
(* and given to it unless it is too long.                                    *)
SoundWrite_sdl ==
    LET backlog == IF queued = 0 THEN sdl_audio_target ELSE queued
    IN  /\ Pay
        /\ rendered' = rendered + Due
        /\ queued' = IF backlog < sdl_audio_buffer_len THEN backlog + Due ELSE backlog

(* The device takes a period, or what there is. *)
DevicePlays ==
    /\ queued > 0
    /\ queued' = IF queued < Period THEN 0 ELSE queued - Period
    /\ UNCHANGED <<rendered, clock>>

SdlNext == SoundWrite_sdl \/ DevicePlays

SdlSpec == SdlInit /\ [][SdlNext]_sdlVars

(* However slow the device, the sound never falls further behind than the    *)
(* queue's length and a frame: what the game sounds now is heard by then.    *)
LagBounded == queued < sdl_audio_buffer_len + Frame + 1

(* Picture and sound do not part: the clock's rounding never adds up, and    *)
(* SDL's queue never puts what is heard further behind than its length.      *)
SoundKeepsStep == NoDrift /\ LagBounded
=============================================================================
