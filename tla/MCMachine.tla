----------------------------- MODULE MCMachine -----------------------------
(***************************************************************************)
(* Parts of the machine that keep to themselves: the files of a game, the  *)
(* patch its ROM is loaded with, an HDMA channel and the MSU-1.  A         *)
(* behaviour is one of the part chosen at its start; the others stand      *)
(* still.                                                                  *)
(***************************************************************************)
EXTENDS SaveFiles, Patch, Hdma, Msu1

CONSTANT Parts

VARIABLE part

vars == <<part, saveVars, patchVars, hdmaVars, msuVars>>

SomeSettings == {{"auto", "inc"}, {"check", "load"}}

(* Patches of up to five symbols; none follows an end marker at the start. *)
SomePatches == {<<Marker>>} \cup UNION {{p \in [1 .. n -> 0 .. 3] : p[1] # Marker} : n \in 1 .. 5}
SomeExcess == {-1, 0, 2}
SomeTables == UNION {[1 .. n -> 1 .. 2 * Half - 1] : n \in 1 .. 3}
SomeTracks == (<<0, 1>> :> [samples |-> 5, loop |-> 1]) @@ (<<1, 0>> :> [samples |-> 4, loop |-> 3])
              @@ (<<1, 1>> :> [samples |-> 2, loop |-> 1])

Saves(step) == part = "saves" /\ step /\ UNCHANGED <<part, patchVars, hdmaVars, msuVars>>
Patching(step) == part = "patch" /\ step /\ UNCHANGED <<part, saveVars, hdmaVars, msuVars>>
HdmaOf(step) == part = "hdma" /\ step /\ UNCHANGED <<part, saveVars, patchVars, msuVars>>
Msu(step) == part = "msu" /\ step /\ UNCHANGED <<part, saveVars, patchVars, hdmaVars>>

(* What does not concern the part chosen is any one of what it may be. *)
Of(p, S) == IF part = p THEN S ELSE {CHOOSE x \in S : TRUE}

Init == /\ part \in Parts
        /\ settings \in Of("saves", SettingSets)
        /\ table \in Of("hdma", Tables) /\ indirect \in Of("hdma", Indirects)
        /\ MSU_Track \in Of("msu", (TrackBytes \X TrackBytes) \ DOMAIN Tracks)
        /\ SaveInit /\ PatchInit /\ HdmaInit /\ MsuInit

Next == Saves(SaveNext) \/ Patching(PatchNext) \/ HdmaOf(HdmaNext) \/ Msu(MsuNext)

Spec == /\ Init /\ [][Next]_vars
        /\ WF_vars(Saves(Task)) /\ SF_vars(Saves(Frame))
        /\ WF_vars(Patching(PatchStep))
=============================================================================
