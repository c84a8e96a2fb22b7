----------------------------- MODULE SaveFiles -----------------------------
(***************************************************************************)
(* What a game keeps on disk: its battery-backed SRAM (SaveSramData,       *)
(* OpenSramFile) and its save states (statesaver, stateloader), zstate.c.  *)
(*                                                                         *)
(* One thread does all of this, so an operation is a list of tasks carried *)
(* out one after the other: nothing comes between two of them but the end  *)
(* of the process.  A file opened for writing is Torn until it is written. *)
(***************************************************************************)
EXTENDS Integers, Sequences

CONSTANTS
    Moments,        \* what a console can be doing, its SRAM apart
    Srams,          \* contents of the SRAM
    Blank,          \* the SRAM of a machine switched on without a file
    Torn, None,     \* a file cut off while it was written; no file
    Slots,          \* how many slots current_zst goes through (100)
    Count,          \* frames from a write to the save (5 * 60)
    SettingSets,    \* the settings a player may have
    AutoInMovies    \* whether a player with AutoState may record a movie

ASSUME SaveAssumption ==
    /\ Blank \in Srams /\ Torn \notin Srams \cup Moments /\ None \notin Srams \cup {Torn}
    /\ Slots \in Nat \ {0} /\ Count \in Nat \ {0, 1} /\ AutoInMovies \in BOOLEAN
    /\ SettingSets \subseteq SUBSET {"check", "auto", "load", "inc"}

(* Settings: SRAMSave5Sec, AutoState, SRAMState and AutoIncSaveSlot. *)

VARIABLES
    power,      \* "off", "game", "gui", or "closed" by an orderly exit
    console,    \* the machine: what it is doing, and its SRAM
    sramb4save, \* frames until the SRAM is saved, 0 when nothing is pending
    current_zst,\* the slot chosen
    zss,        \* whether ZStateName names the automatic state
    movie,      \* whether a movie is recorded
    srm,        \* the SRAM file
    states,     \* the state files
    settings,
    todo,       \* what is left of the operation under way
    lastSaved,  \* history: what the save key saved last, for the load key to find
    excused     \* history: the SRAM in memory is knowingly not the one saved

saveVars == <<power, console, sramb4save, current_zst, zss, movie, srm, states,
              settings, todo, lastSaved, excused>>

AutoFile == -1      \* the automatic state's file, beside the slots
Names == {AutoFile} \cup 0 .. Slots - 1
Contents == [play : Moments, sram : Srams \cup {Torn}]

(* What a machine that starts finds in its SRAM. *)
OnDisk == IF srm = None THEN Blank ELSE srm

Inc == IF "inc" \in settings THEN 1 ELSE 0

(* The file ZStateName stands for. *)
ZStateName == IF zss THEN AutoFile ELSE current_zst

Idle(where) == power = where /\ todo = <<>>
Doing(task) == todo # <<>> /\ Head(todo) = task
Then(tasks) == todo' = tasks \o Tail(todo)

-----------------------------------------------------------------------------
(* SRAM *)

(* The game stores to its SRAM: every store sets the countdown anew. *)
GameWrites ==
    /\ Idle("game")
    /\ \E s \in Srams : console' = [console EXCEPT !.sram = s]
    /\ sramb4save' = Count
    /\ UNCHANGED <<power, current_zst, zss, movie, srm, states, settings, todo, lastSaved, excused>>

(* A frame is run and shown; the countdown is the screen's (cachevideo). *)
CountsNot == IF "check" \in settings THEN sramb4save ELSE 0
CountsDown == IF sramb4save # 0 /\ "check" \in settings THEN sramb4save - 1 ELSE 0

SavesNow == CountsDown = 1

Frame ==
    /\ Idle("game")
    /\ \E p \in Moments : console' = [console EXCEPT !.play = p]
    /\ sramb4save' = CountsDown
    /\ todo' = IF SavesNow /\ "check" \in settings THEN <<"sram">> ELSE <<>>
    /\ UNCHANGED <<power, current_zst, zss, movie, srm, states, settings, lastSaved, excused>>

(* SaveSramData: with SRAMSave5Sec only what the countdown says is unsaved. *)
MustSavePending == sramb4save # 0
MustSave == "check" \notin settings \/ sramb4save # 0

(* The countdown ends whether or not the file could be opened. *)
SaveSramData ==
    /\ Doing("sram")
    /\ IF ~MustSave
       THEN Then(<<>>) /\ UNCHANGED <<sramb4save, srm, excused>>
       ELSE /\ sramb4save' = 0
            /\ \/ srm' = Torn /\ Then(<<"sram_data">>) /\ UNCHANGED excused
               \/ excused' = TRUE /\ Then(<<>>) /\ UNCHANGED srm
    /\ UNCHANGED <<power, console, current_zst, zss, movie, states, settings, lastSaved>>

(* fwrite and fclose, whose results nobody looks at. *)
WriteSram ==
    /\ Doing("sram_data") /\ Then(<<>>)
    /\ \/ srm' = console.sram /\ excused' = FALSE
       \/ excused' = TRUE /\ UNCHANGED srm
    /\ UNCHANGED <<power, console, sramb4save, current_zst, zss, movie, states, settings, lastSaved>>

(* OpenSramFile reads whatever is there over the SRAM that clearmem2 filled. *)
OpenSramFile ==
    /\ Doing("open") /\ Then(<<>>)
    /\ console' = [console EXCEPT !.sram = OnDisk]
    /\ excused' = FALSE
    /\ UNCHANGED <<power, sramb4save, current_zst, zss, movie, srm, states, settings, lastSaved>>

-----------------------------------------------------------------------------
(* States *)

(* SaveSecondState and LoadSecondState point ZStateName at the automatic   *)
(* state and call zst_name to point it back, which a movie keeps it from   *)
(* doing.                                                                  *)
NameSecond ==
    /\ Doing("second") /\ Then(<<>>)
    /\ zss' = TRUE
    /\ UNCHANGED <<power, console, sramb4save, current_zst, movie, srm, states, settings, lastSaved, excused>>

NameBack == movie /\ zss

ZstName ==
    /\ Doing("name") /\ Then(<<>>)
    /\ zss' = NameBack
    /\ UNCHANGED <<power, console, sramb4save, current_zst, movie, srm, states, settings, lastSaved, excused>>

(* The slot a save goes to, and the slot a save that failed goes back to. *)
NextSlot == IF zss THEN current_zst ELSE (current_zst + Inc) % Slots
SlotStays(slot) == slot
SlotBack(slot) == IF zss THEN slot ELSE (slot + Slots - Inc) % Slots

StateSaver ==
    /\ Doing("state") /\ ~movie
    /\ \/ /\ current_zst' = NextSlot
          /\ states' = [states EXCEPT ![IF zss THEN AutoFile ELSE NextSlot] = Torn]
          /\ lastSaved' = IF zss THEN lastSaved ELSE None
          /\ Then(<<"state_data">>)
       \/ /\ current_zst' = SlotBack(NextSlot)
          /\ Then(<<>>)
          /\ UNCHANGED <<states, lastSaved>>
    /\ UNCHANGED <<power, console, sramb4save, zss, movie, srm, settings, excused>>

(* zst_save: the console as it stands, unless the file cannot take it all. *)
WriteState ==
    /\ Doing("state_data") /\ Then(<<>>)
    /\ \/ /\ states' = [states EXCEPT ![ZStateName] = console]
          /\ lastSaved' = IF zss THEN lastSaved ELSE console
       \/ UNCHANGED <<states, lastSaved>>
    /\ UNCHANGED <<power, console, sramb4save, current_zst, zss, movie, srm, settings, excused>>

(* A movie keeps its own states (mzt_save), in the same slots. *)
MovieSaver ==
    /\ Doing("state") /\ movie /\ Then(<<>>)
    /\ \/ /\ current_zst' = (current_zst + Inc) % Slots
          /\ lastSaved' = IF Inc = 0 THEN lastSaved ELSE None
       \/ UNCHANGED <<current_zst, lastSaved>>
    /\ UNCHANGED <<power, console, sramb4save, zss, movie, srm, states, settings, excused>>

(* zst_load: length, mask and CRC are checked before anything is touched. *)
Refused(file) == file \in {None, Torn}
Garbage == [play |-> Torn, sram |-> Torn]

(* A state gives its SRAM only with SRAMState, which a movie sets. *)
Restores == movie \/ "load" \in settings

Restore(state) ==
    /\ console' = [play |-> state.play, sram |-> IF Restores THEN state.sram ELSE console.sram]
    /\ excused' = (excused \/ Restores)

StateLoader ==
    /\ Doing("load") /\ Then(<<>>)
    /\ IF movie THEN \/ \E p \in Moments, s \in Srams : Restore([play |-> p, sram |-> s])
                     \/ UNCHANGED <<console, excused>>
       ELSE IF Refused(states[ZStateName]) THEN UNCHANGED <<console, excused>>
       ELSE Restore(IF states[ZStateName] = Torn THEN Garbage ELSE states[ZStateName])
    /\ UNCHANGED <<power, sramb4save, current_zst, zss, movie, srm, states, settings, lastSaved>>

-----------------------------------------------------------------------------
(* The player and the process *)

Begin(tasks) ==
    /\ todo' = tasks
    /\ UNCHANGED <<power, console, sramb4save, current_zst, zss, movie, srm, states, settings, lastSaved, excused>>

SecondState == IF "auto" \in settings THEN <<"second", "state", "name">> ELSE <<>>
SecondLoad == IF "auto" \in settings THEN <<"second", "load", "name">> ELSE <<>>

SaveKey == Idle("game") /\ Begin(<<"state">>)
LoadKey == Idle("game") /\ Begin(<<"load">>)
EnterGui == Idle("game") /\ Begin(<<"sram">> \o SecondState \o <<"gui">>)

(* DosExit, and zexit alone when a signal or the window system ends it.  *)
Exit == /\ Idle("game") \/ Idle("gui")
        /\ \E first \in {SecondState, <<>>} : Begin(first \o <<"sram", "closed">>)

PickSlot ==
    /\ Idle("game") \/ Idle("gui")
    /\ \E slot \in 0 .. Slots - 1 : current_zst' = slot
    /\ lastSaved' = None
    /\ UNCHANGED <<power, console, sramb4save, zss, movie, srm, states, settings, todo, excused>>

MovieStarts ==
    /\ Idle("game") /\ ~movie
    /\ AutoInMovies \/ "auto" \notin settings
    /\ movie' = TRUE
    /\ UNCHANGED <<power, console, sramb4save, current_zst, zss, srm, states, settings, todo, lastSaved, excused>>

MovieEnds ==
    /\ Idle("game") /\ movie
    /\ movie' = FALSE
    /\ UNCHANGED <<power, console, sramb4save, current_zst, zss, srm, states, settings, todo, lastSaved, excused>>

(* The box "SRAM Check+Save" of the GUI. *)
ToggleCheck ==
    /\ Idle("gui")
    /\ settings' = (settings \cup {"check"}) \ (settings \cap {"check"})
    /\ UNCHANGED <<power, console, sramb4save, current_zst, zss, movie, srm, states, todo, lastSaved, excused>>

LeaveGui ==
    /\ Idle("gui")
    /\ power' = "game"
    /\ UNCHANGED <<console, sramb4save, current_zst, zss, movie, srm, states, settings, todo, lastSaved, excused>>

(* The end of EnterGui and of Exit. *)
Arrive ==
    /\ \E where \in {"gui", "closed"} : Doing(where) /\ power' = where
    /\ Then(<<>>)
    /\ UNCHANGED <<console, sramb4save, current_zst, zss, movie, srm, states, settings, lastSaved, excused>>

(* The game is loaded by a process that starts, or again from the GUI. *)
Start ==
    /\ power \in {"off", "closed"} \/ Idle("gui")
    /\ power' = "game"
    /\ \E p \in Moments : console' = [play |-> p, sram |-> Blank]
    /\ todo' = <<"open">> \o SecondLoad
    /\ IF power = "gui" THEN UNCHANGED <<sramb4save, current_zst, lastSaved>>
       ELSE sramb4save' = 0 /\ current_zst' = 0 /\ lastSaved' = None
    /\ movie' = FALSE /\ zss' = FALSE
    /\ UNCHANGED <<srm, states, settings, excused>>

(* The process ends at any moment; what is on disk stays as it is. *)
Crash ==
    /\ power \in {"game", "gui"}
    /\ power' = "off" /\ todo' = <<>> /\ sramb4save' = 0 /\ movie' = FALSE
    /\ lastSaved' = None /\ excused' = FALSE
    /\ UNCHANGED <<console, current_zst, zss, srm, states, settings>>

-----------------------------------------------------------------------------
SaveInit ==
    /\ power = "off" /\ todo = <<>> /\ settings \in SettingSets
    /\ console \in [play : Moments, sram : {Blank}]
    /\ sramb4save = 0 /\ current_zst = 0 /\ zss = FALSE /\ movie = FALSE
    /\ srm = None /\ states = [n \in Names |-> None]
    /\ lastSaved = None /\ excused = FALSE

Task == \/ SaveSramData \/ WriteSram \/ OpenSramFile \/ NameSecond \/ ZstName
        \/ StateSaver \/ WriteState \/ MovieSaver \/ StateLoader \/ Arrive

Player == \/ SaveKey \/ LoadKey \/ EnterGui \/ Exit \/ PickSlot \/ ToggleCheck
          \/ LeaveGui \/ MovieStarts \/ MovieEnds \/ Start

SaveNext == Task \/ Player \/ GameWrites \/ Frame \/ Crash

(* An operation goes on to its end, and the emulator runs a frame between  *)
(* two keys (continueprog).                                                *)
SaveSpec == /\ SaveInit /\ [][SaveNext]_saveVars
            /\ WF_saveVars(Task) /\ SF_saveVars(Frame)

-----------------------------------------------------------------------------
SaveTypeOK ==
    /\ power \in {"off", "game", "gui", "closed"}
    /\ console \in [play : Moments \cup {Torn}, sram : Srams \cup {Torn}]
    /\ sramb4save \in 0 .. Count /\ current_zst \in 0 .. Slots - 1
    /\ zss \in BOOLEAN /\ movie \in BOOLEAN /\ excused \in BOOLEAN
    /\ srm \in Srams \cup {Torn, None}
    /\ states \in [Names -> Contents \cup {Torn, None}]
    /\ lastSaved \in Contents \cup {None}

(* A state whose writing was cut short, by a crash or by a full disk, is   *)
(* refused when it is loaded; it never becomes the console.                *)
TornStatesRefused == console.play # Torn

(* With SRAMSave5Sec, whatever the game stored is on disk once the         *)
(* countdown has ended; the box may be ticked and unticked meanwhile.      *)
CountdownTracksSram ==
    power \in {"game", "gui"} /\ todo = <<>> /\ "check" \in settings /\ sramb4save = 0
        => excused \/ console.sram = OnDisk

(* A process that exits leaves its SRAM on disk, whichever settings were   *)
(* in force and whatever was saved, loaded or failed before.               *)
ExitKeepsSram == power = "closed" => excused \/ console.sram = OnDisk

(* No progress is lost to the countdown or to the exit (c_vcache.c:262 and *)
(* zpath.c:201).                                                           *)
SramKept == CountdownTracksSram /\ ExitKeepsSram

(* The load key finds what the save key saved last: a slot moved by        *)
(* AutoIncSaveSlot moves back when the save fails, and the automatic state *)
(* neither moves it nor stays in its way.                                  *)
LastSaveLoads ==
    power \in {"game", "gui"} /\ todo = <<>> /\ lastSaved # None => states[ZStateName] = lastSaved

(* A load gives the player his last save, and never the torn part of one.  *)
LoadsSound == TornStatesRefused /\ LastSaveLoads

(* A game that leaves its SRAM alone has it saved, countdown over.         *)
QuietGameSaved == []<><<GameWrites>>_saveVars \/ (sramb4save # 0 ~> sramb4save = 0)

(* What doc/html/gui.htm:626 says of a game that always writes: it is      *)
(* saved every few seconds.                                                *)
BusyGameSaved == sramb4save # 0 ~> sramb4save = 0
=============================================================================
