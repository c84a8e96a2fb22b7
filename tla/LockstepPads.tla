---------------------------- MODULE LockstepPads ----------------------------
(***************************************************************************)
(* What a netplay session promises the two consoles: one shared timeline   *)
(* of pad pairs.  Each player's pad is sampled once per frame, and frame f *)
(* is played on both consoles with the two samples taken at f - Delay (or  *)
(* with two neutral pads while there are none).  Controller 1 is always    *)
(* the host's, controller 2 the guest's.                                   *)
(*                                                                         *)
(* No packet, buffer or clock appears here: NetplayLockstep is shown to    *)
(* implement this specification.                                           *)
(***************************************************************************)
EXTENDS Naturals, Sequences

CONSTANTS Delay,    \* frames between sampling a pad and playing it
          Pads,     \* the values a pad can read
          Neutral   \* a pad with nothing pressed

VARIABLES sampled,  \* sampled[s]: the pads side s has read, oldest first
          played    \* played[s]: the pairs side s has given its console

Sides == {"host", "guest"}

Other(s) == IF s = "host" THEN "guest" ELSE "host"

(* The pad side s contributes to frame f, counting frames from zero. *)
PadFor(s, f) == IF f < Delay THEN Neutral ELSE sampled[s][f - Delay + 1]

PairAt(f) == <<PadFor("host", f), PadFor("guest", f)>>

Init == /\ sampled = [s \in Sides |-> << >>]
        /\ played = [s \in Sides |-> << >>]

(* A console samples its pad before it plays the frame it is about to run. *)
Sample(s, raw) == /\ Len(sampled[s]) = Len(played[s])
                  /\ sampled' = [sampled EXCEPT ![s] = Append(@, raw)]
                  /\ UNCHANGED played

(* It may only play once the other side's sample for that frame exists. *)
Play(s) == LET f == Len(played[s])
           IN  /\ Len(sampled[s]) = f + 1
               /\ f >= Delay => f - Delay < Len(sampled[Other(s)])
               /\ played' = [played EXCEPT ![s] = Append(@, PairAt(f))]
               /\ UNCHANGED sampled

Next == \E s \in Sides : Play(s) \/ \E raw \in Pads : Sample(s, raw)

Spec == Init /\ [][Next]_<<sampled, played>>
=============================================================================
