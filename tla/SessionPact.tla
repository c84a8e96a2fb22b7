----------------------------- MODULE SessionPact -----------------------------
(***************************************************************************)
(* What a netplay session promises, whatever carries it: a machine is in a *)
(* session only under a token and a game that it and another machine have  *)
(* both named, an offer is taken up once, and input flows only after a     *)
(* power cycle (net/netplay.h:24).                                         *)
(***************************************************************************)
EXTENDS Naturals, Sequences

CONSTANTS Machines, Games, None

VARIABLES
    owner,    \* owner[t]: who drew token t
    offered,  \* the token each machine has on offer; 0: none
    said,     \* who has named which token and game
    place     \* where each machine is: out, in a session, or playing in it

vars == <<owner, offered, said, place>>

Out == [phase |-> "out", token |-> 0, game |-> None]

Init ==
    /\ owner = <<>>
    /\ offered = [p \in Machines |-> 0]
    /\ said = {}
    /\ place = [p \in Machines |-> Out]

(* A host draws a token nobody has used.  Losing a guest is leaving. *)
Offer(p) ==
    /\ owner' = Append(owner, p)
    /\ offered' = [offered EXCEPT ![p] = Len(owner')]
    /\ place' = [place EXCEPT ![p] = Out]
    /\ UNCHANGED said

Say(p, t, g) ==
    /\ t <= Len(owner)
    /\ said' = said \cup {[by |-> p, token |-> t, game |-> g]}
    /\ UNCHANGED <<owner, offered, place>>

(* The guest's second hello names the token and takes it inside at once. *)
Enter(p, t, g) ==
    /\ place[p] = Out
    /\ offered[p] = t \/ t = 0 \/ owner[t] # p
    /\ said' \in {said, said \cup {[by |-> p, token |-> t, game |-> g]}}
    /\ [by |-> p, token |-> t, game |-> g] \in said'
    /\ \E q \in Machines \ {p} : [by |-> q, token |-> t, game |-> g] \in said
    /\ place' = [place EXCEPT ![p] = [phase |-> "in", token |-> t, game |-> g]]
    /\ offered' = [offered EXCEPT ![p] = 0]
    /\ UNCHANGED owner

Begin(p) ==
    /\ place[p].phase = "in"
    /\ place' = [place EXCEPT ![p].phase = "playing"]
    /\ UNCHANGED <<owner, offered, said>>

Leave(p) ==
    /\ place' = [place EXCEPT ![p] = Out]
    /\ offered' = [offered EXCEPT ![p] = 0]
    /\ UNCHANGED <<owner, said>>

Next == \E p \in Machines :
    \/ Offer(p)
    \/ Begin(p)
    \/ Leave(p)
    \/ \E t \in 0..Len(owner), g \in Games : Say(p, t, g) \/ Enter(p, t, g)

Spec == Init /\ [][Next]_vars
=============================================================================
