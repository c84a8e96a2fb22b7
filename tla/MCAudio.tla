------------------------------ MODULE MCAudio ------------------------------
(***************************************************************************)
(* The three back ends of unix/audio.c.  InitSound settles on one of them, *)
(* so a behaviour is one of that back end; the others do not move.         *)
(***************************************************************************)
EXTENDS AudioHandoff, AudioRing, AudioSdl

CONSTANT Drivers    \* the back ends libAoDriver may name

VARIABLE driver

vars == <<driver, hand, queued, rendered, clock, ringVars>>

Ao(step) == driver = "ao" /\ step /\ UNCHANGED <<driver, queued, ringVars>>
Pipewire(step) == driver = "pipewire" /\ step /\ UNCHANGED <<driver, hand, queued, rendered, clock>>
Sdl(step) == driver = "sdl" /\ step /\ UNCHANGED <<driver, hand, ringVars>>

Init == driver \in Drivers /\ HandInit /\ RingInit /\ queued = 0

Next == Ao(HandNext) \/ Pipewire(RingNext) \/ Sdl(SdlNext)

Spec == /\ Init /\ [][Next]_vars
        /\ WF_vars(Ao(SoundThread_ao))
        /\ WF_vars(Pipewire(EmuStep))
        /\ WF_vars(Pipewire(SrvCallback))
        /\ WF_vars(Pipewire(Asked))
=============================================================================
