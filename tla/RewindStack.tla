---------------------------- MODULE RewindStack ----------------------------
(***************************************************************************)
(* What rewinding promises the player, without a ring, timers or a pause   *)
(* frame: the console keeps a stack of snapshots of the timeline it is on, *)
(* and rewinding goes back along that timeline, one snapshot further each  *)
(* time it is asked again.                                                 *)
(***************************************************************************)
EXTENDS Naturals, Sequences

CONSTANTS
    Events,     \* what a frame, or a load, adds to a console's history
    States      \* how many snapshots are kept, at least one

VARIABLES
    now,        \* the console: everything that has happened to it, in order
    stack,      \* snapshots of the console, oldest first
    fresh       \* whether the newest snapshot is newer than the last rewind

vars == <<now, stack, fresh>>

(* A console that has just been started: nothing is kept of the last one. *)
Fresh(e) == now = <<e>> /\ stack = << >> /\ fresh = TRUE

Init == \E e \in Events : Fresh(e)

Start == \E e \in Events : Fresh(e)'

Run == /\ \E e \in Events : now' = Append(now, e)
       /\ UNCHANGED <<stack, fresh>>

(* A snapshot may cost the oldest one its place, and must when all are used. *)
Save == /\ \/ Len(stack) < States /\ stack' = Append(stack, now)
           \/ stack # << >> /\ stack' = Append(Tail(stack), now)
        /\ fresh' = TRUE
        /\ UNCHANGED now

(* Back to the newest snapshot; to the one before it, if the console was     *)
(* already taken back to the newest.  The last one is never given up.        *)
GoBack(k) == /\ now' = stack[k]
             /\ stack' = SubSeq(stack, 1, k)
             /\ fresh' = FALSE

Rewind == /\ stack # << >>
          /\ GoBack(IF fresh \/ Len(stack) = 1 THEN Len(stack) ELSE Len(stack) - 1)

Next == Start \/ Run \/ Save \/ Rewind

Spec == Init /\ [][Next]_vars

-----------------------------------------------------------------------------
TypeOK ==
    /\ now \in Seq(Events)
    /\ stack \in Seq(Seq(Events)) /\ Len(stack) <= States
    /\ fresh \in BOOLEAN

(* s is a moment t has been through. *)
PastOf(s, t) == Len(s) <= Len(t) /\ \A i \in 1 .. Len(s) : s[i] = t[i]

(* Every snapshot is a moment of the past of the console, and of the         *)
(* snapshots newer than it: whatever a rewind takes the console back to, it  *)
(* has been there on this timeline.                                          *)
OnTimeline ==
    \A i \in 1 .. Len(stack) :
        /\ PastOf(stack[i], now)
        /\ \A j \in i .. Len(stack) : PastOf(stack[i], stack[j])
=============================================================================
