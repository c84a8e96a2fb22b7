-------------------------------- MODULE Msu1 --------------------------------
(***************************************************************************)
(* The audio half of the MSU-1 (chips/msu1regs.c, chips/msu1emu.c): the    *)
(* game picks a track with two byte-wide registers and plays, loops, stops *)
(* or suspends it with a third, while the mixer reads it sample by sample  *)
(* and save states come and go.  The busy bits are set and cleared within  *)
(* one call on the one thread, so nobody ever finds them set.              *)
(***************************************************************************)
EXTENDS Integers

CONSTANTS
    TrackBytes,      \* what a byte of the track number can be
    Tracks,      \* the tracks there are: [samples, loop] by track number
    Step, Rate, \* 44100 and the output rate, in lowest terms
    Halves      \* whether a game may touch $2007 between $2004 and $2005

NoTrack == <<>>     \* MSU_Resume_Track is -1, TRACK_DATA is NULL

ASSUME MsuAssumption ==
    /\ DOMAIN Tracks \subseteq TrackBytes \X TrackBytes
    /\ \A t \in DOMAIN Tracks : Tracks[t].samples \in Nat /\ Tracks[t].loop \in Int
    /\ Step \in Nat \ {0} /\ Rate \in Nat \ {0} /\ Halves \in BOOLEAN

VARIABLES
    MSU_Track,      \* the track register, high byte and low byte
    status,         \* of MSU_StatusRead: error, play and loop
    Track_Length,   \* 16-bit samples of the track in memory
    Loop_Point,     \* in pairs of samples
    Track_Position, Rate_Add,
    Resume_Track, Resume_Position,
    saved,          \* a save state: what zstate.c keeps of the MSU-1
    heard,          \* history: the mixer's last sample came from the track, or
                    \* the game or a state set something since
    inMemory,       \* history: the track TRACK_DATA was filled from
    owner,          \* history: the track Track_Position was counted in, if known
    suspended       \* history: the track Resume_Position was counted in

trackVars == <<Track_Length, Loop_Point, inMemory>>
resumeVars == <<Resume_Track, Resume_Position, suspended>>
msuVars == <<MSU_Track, status, trackVars, Track_Position, Rate_Add, resumeVars,
             saved, heard, owner>>

-----------------------------------------------------------------------------
(* A file as it is read: whole pairs, and a loop point inside them. *)
LengthOf(t) == 2 * (Tracks[t].samples \div 2)

LoopOf(t) ==
    IF Tracks[t].loop < 0 \/ Tracks[t].loop > LengthOf(t) \div 2 THEN 0 ELSE Tracks[t].loop

ResumesAny(track) == Resume_Track # NoTrack
Resumes(track) == track = Resume_Track

(* $2004 *)
msu1track0 ==
    /\ \E low \in TrackBytes : MSU_Track' = [MSU_Track EXCEPT ![2] = low]
    /\ UNCHANGED <<status, trackVars, Track_Position, Rate_Add, resumeVars, saved, heard, owner>>

(* $2005, which changes the track: MSU1HandleTrackChange.  A missing file   *)
(* leaves the error bit set and the buffer freed.                          *)
ChangeTrack(track) ==
    /\ IF Resumes(track)
       THEN /\ Track_Position' = Resume_Position /\ owner' = suspended
            /\ Resume_Track' = NoTrack /\ Resume_Position' = 0 /\ suspended' = NoTrack
       ELSE Track_Position' = 0 /\ owner' = track /\ UNCHANGED resumeVars
    /\ Rate_Add' = 0
    /\ IF track \in DOMAIN Tracks
       THEN /\ Track_Length' = LengthOf(track) /\ Loop_Point' = LoopOf(track)
            /\ inMemory' = track
            /\ status' = [error |-> FALSE, play |-> FALSE, loop |-> FALSE]
       ELSE /\ Track_Length' = 0 /\ inMemory' = NoTrack /\ UNCHANGED Loop_Point
            /\ status' = [error |-> TRUE, play |-> FALSE, loop |-> FALSE]

msu1track1 ==
    /\ \E high \in TrackBytes : MSU_Track' = [MSU_Track EXCEPT ![1] = high]
    /\ ChangeTrack(MSU_Track') /\ heard' = TRUE
    /\ UNCHANGED saved

(* $2007: ignored after an error; the resume bit alone keeps the position. *)
msu1statecontrol ==
    /\ Halves \/ inMemory \in {MSU_Track, NoTrack}
    /\ IF status.error THEN UNCHANGED <<status, resumeVars>>
       ELSE \E control \in SUBSET {"play", "loop", "resume"} :
              /\ status' = [error |-> FALSE, play |-> "play" \in control, loop |-> "loop" \in control]
              /\ IF control = {"resume"}
                 THEN /\ Resume_Track' = MSU_Track /\ Resume_Position' = Track_Position
                      /\ suspended' = owner
                 ELSE UNCHANGED resumeVars
    /\ heard' = TRUE
    /\ UNCHANGED <<MSU_Track, trackVars, Track_Position, Rate_Add, saved, owner>>

(* One sample of mixMSU1Audio: the track is read left and right, the       *)
(* position goes on at 44100 pairs a second, and the end is the loop point *)
(* or the end of playing.                                                  *)
Sounds == Track_Position >= 0 /\ Track_Position < Track_Length

Advanced ==
    IF ~Sounds THEN Track_Position
    ELSE Track_Position + 2 * ((Rate_Add + Step) \div Rate)

MixSample ==
    /\ status.play /\ Track_Length > 0
    /\ heard' = Sounds
    /\ Rate_Add' = IF Sounds THEN (Rate_Add + Step) % Rate ELSE Rate_Add
    /\ \/ Advanced < Track_Length /\ Track_Position' = Advanced /\ UNCHANGED status
       \/ /\ Advanced >= Track_Length /\ status.loop
          /\ Track_Position' = 2 * Loop_Point /\ UNCHANGED status
       \/ /\ Advanced >= Track_Length /\ ~status.loop
          /\ Track_Position' = Advanced /\ status' = [status EXCEPT !.play = FALSE]
    /\ UNCHANGED <<MSU_Track, trackVars, resumeVars, saved, owner>>

(* A state keeps the position and the status, and neither the track nor    *)
(* the resume point.                                                       *)
MsuSaved ==
    /\ saved' = {[pos |-> Track_Position, status |-> status]}
    /\ UNCHANGED <<MSU_Track, status, trackVars, Track_Position, Rate_Add, resumeVars, heard, owner>>

MsuRestored ==
    /\ \E s \in saved : Track_Position' = s.pos /\ status' = s.status
    /\ owner' = NoTrack
    /\ heard' = TRUE
    /\ UNCHANGED <<MSU_Track, trackVars, Rate_Add, resumeVars, saved>>

-----------------------------------------------------------------------------
MsuInit ==
    /\ MSU_Track \in TrackBytes \X TrackBytes /\ MSU_Track \notin DOMAIN Tracks
    /\ status = [error |-> FALSE, play |-> FALSE, loop |-> FALSE]
    /\ Track_Length = 0 /\ Loop_Point = 0 /\ inMemory = NoTrack
    /\ Track_Position = 0 /\ Rate_Add = 0
    /\ Resume_Track = NoTrack /\ Resume_Position = 0 /\ suspended = NoTrack
    /\ saved = {} /\ heard = TRUE /\ owner = NoTrack

Port == msu1track0 \/ msu1track1 \/ msu1statecontrol
MsuNext == Port \/ MixSample \/ MsuSaved \/ MsuRestored

MsuSpec == MsuInit /\ [][MsuNext]_msuVars

-----------------------------------------------------------------------------
MsuTypeOK ==
    /\ MSU_Track \in TrackBytes \X TrackBytes
    /\ status \in [error : BOOLEAN, play : BOOLEAN, loop : BOOLEAN]
    /\ Track_Length \in Nat /\ Loop_Point \in Int /\ Track_Position \in Int
    /\ Rate_Add \in 0 .. Rate - 1 /\ Resume_Position \in Int
    /\ heard \in BOOLEAN

(* Both samples of a pair the mixer reads lie in the buffer, wherever a    *)
(* loop point, a resume or a state left the position.                      *)
PairsInTrack == Sounds => inMemory # NoTrack /\ Track_Position + 1 < Tracks[inMemory].samples

(* A position is only ever used in the track it was counted in: a resume   *)
(* gives it back to the track that was suspended, however many others came *)
(* in between.  A state says nothing of the track its position is in.      *)
PositionOfTrack == Sounds /\ owner # NoTrack => owner = inMemory

(* A track that loops is never parked at its end: after one sample of      *)
(* silence, where a resume or a state left it past the end, the position   *)
(* is back in the track.  Only a loop point at the very end, which the     *)
(* test against it lets through, has nothing to play.                      *)
LoopGoesOn ==
    status.play /\ status.loop /\ ~heard
        => Sounds \/ Tracks[inMemory].loop = Track_Length \div 2

(* What the mixer plays is the track it should, at a place of that track, and *)
(* for as long as it should (msu1emu.c:119 and 171).                          *)
TracksSound == PairsInTrack /\ PositionOfTrack /\ LoopGoesOn
=============================================================================
