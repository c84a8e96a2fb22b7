--------------------------- MODULE NetplayLockstep ---------------------------
(***************************************************************************)
(* One running netplay session, from the moment both consoles have been    *)
(* power-cycled: NetplaySyncInputs and NetplayAwaitFrame of net/netplay.c, *)
(* on both machines, over either transport.                                *)
(*                                                                         *)
(* NetplaySyncInputs is split where it blocks.  Begin is everything up to  *)
(* and including the send; Receive and Timeout are the two outcomes of one *)
(* NetplayRecvPacket inside NetplayAwaitFrame; Play is the rest, from the  *)
(* moment the peer's input for the frame is in the ring.                   *)
(***************************************************************************)
EXTENDS Naturals, Sequences

CONSTANTS
    Delay,      \* NETPLAY_INPUT_DELAY
    Ring,       \* NETPLAY_RING
    Patience,   \* timeouts in one wait before the peer is given up
    Pads,       \* values a pad can read
    Neutral,    \* NETPLAY_JOY_NEUTRAL
    Token,      \* this session's token
    Strays,     \* datagrams that reach a UDP socket but are not session input
    Transport,  \* "udp" or "stream" (TCP, or TCP through the relay)
    Torn,       \* TRUE: a stream may deliver part of a packet by a deadline
    Hitches,    \* how many timeouts may strike with input still on its way,
                \*   or None for no limit
    CanLeave,   \* TRUE: a player may end the session, a send may fail
    Drifters,   \* the consoles whose emulation may diverge
    None,       \* not a frame, not a hash
    MaxFrame    \* bound: frames run per console

(* Bytes read from the middle of a packet: they do not start with the magic. *)
Garbage == [session |-> "garbage", seq |-> 0, joy |-> Neutral, crc |-> None]

(* A leftover of the handshake carries this session's token, but it is on  *)
(* frame zero; anything else stray is from another session.                *)
ASSUME ParametersAssumption ==
    /\ Delay \in Nat \ {0}
    /\ Ring \in Nat \ {0}
    /\ Patience \in Nat \ {0}
    /\ MaxFrame \in Nat
    /\ Neutral \in Pads
    /\ Token # Garbage.session
    /\ Transport \in {"udp", "stream"}
    /\ None \notin Nat
    /\ \A p \in Strays : p.seq \in Nat /\ (p.session = Token => p.seq = 0)

VARIABLES
    pc,        \* "emulate" between calls, "await" inside NetplayAwaitFrame,
               \*   "left" (disconnected, or a send failed), "lost" (peer given up)
    frame,     \* NetplayFrame
    queue,     \* NetplayInputQueue
    qpos,      \* NetplayInputQueuePos
    qfilled,   \* NetplayInputQueueFilled
    mine,      \* the local `delayed`: this side's pad for the frame in hand
    ring,      \* NetplayRemoteRing and its Crc, Frame and Valid companions
    crcs,      \* NetplayLocalCrcRing
    patience,  \* timeouts left in this NetplayAwaitFrame
    desync,    \* whether "DESYNC DETECTED" has been reported
    sent,      \* sent[s]: packets s has put on the wire, oldest first
    read,      \* read[s]: half-packets s has taken off its stream
    hitches,   \* timeouts so far that struck with input still on its way
    drift,     \* frame at which a console stopped being deterministic
    played     \* played[s]: the <<joy_a, joy_b>> given to the console so far

localVars == <<queue, qpos, qfilled, mine, crcs>>
vars == <<pc, frame, localVars, ring, patience, desync, sent, read, hitches,
          drift, played>>

Sides == {"host", "guest"}

Other(s) == IF s = "host" THEN "guest" ELSE "host"

Gone == {"left", "lost"}

(* NetplayStateHash: a console is a function of the pads it has been given, *)
(* until it drifts; a drifted console agrees with nobody.                   *)
StateHash(s) == <<IF drift[s] = None THEN "sound" ELSE s, played[s]>>

EmptySlot == [valid |-> FALSE, frame |-> 0, joy |-> Neutral, crc |-> None]

(* NetplaySessionResetTiming. *)
Init == /\ pc = [s \in Sides |-> "emulate"]
        /\ frame = [s \in Sides |-> 0]
        /\ queue = [s \in Sides |-> [i \in 0 .. Delay - 1 |-> Neutral]]
        /\ qpos = [s \in Sides |-> 0]
        /\ qfilled = [s \in Sides |-> 0]
        /\ mine = [s \in Sides |-> Neutral]
        /\ ring = [s \in Sides |-> [i \in 0 .. Ring - 1 |-> EmptySlot]]
        /\ crcs = [s \in Sides |-> [i \in 0 .. Ring - 1 |-> None]]
        /\ patience = [s \in Sides |-> Patience]
        /\ desync = [s \in Sides |-> FALSE]
        /\ sent = [s \in Sides |-> << >>]
        /\ read = [s \in Sides |-> 0]
        /\ hitches = 0
        /\ drift = [s \in Sides |-> None]
        /\ played = [s \in Sides |-> << >>]

-----------------------------------------------------------------------------
(* The local half of a frame: the sampled pad goes into the delay queue, the *)
(* pad sampled Delay frames ago comes out, and the sample is sent under the  *)
(* number of the frame it is for.  A failed send ends the session.  (The     *)
(* handshake packet a host re-examines on its first frame was accepted by    *)
(* the same test when it arrived, so that branch cannot fail.)               *)
Begin(s, raw, ok) ==
    /\ pc[s] = "emulate"
    /\ frame[s] < MaxFrame
    /\ mine' = [mine EXCEPT ![s] =
                    IF qfilled[s] < Delay THEN Neutral ELSE queue[s][qpos[s]]]
    /\ qfilled' = [qfilled EXCEPT ![s] = IF @ < Delay THEN @ + 1 ELSE @]
    /\ queue' = [queue EXCEPT ![s][qpos[s]] = raw]
    /\ qpos' = [qpos EXCEPT ![s] = (@ + 1) % Delay]
    /\ crcs' = [crcs EXCEPT ![s][frame[s] % Ring] = StateHash(s)]
    /\ patience' = [patience EXCEPT ![s] = Patience]
    /\ \/ /\ ok
          /\ sent' = [sent EXCEPT ![s] =
                 Append(@, [session |-> Token, seq |-> frame[s] + Delay,
                            joy |-> raw, crc |-> StateHash(s)])]
          /\ pc' = [pc EXCEPT ![s] = "await"]
       \/ /\ ~ok
          /\ CanLeave
          /\ pc' = [pc EXCEPT ![s] = "left"]
          /\ UNCHANGED sent
    /\ UNCHANGED <<frame, ring, desync, read, hitches, drift, played>>

(* A way to get WarmUp wrong: one frame too many, though input is due on it. *)
WarmUpTooLong(s) == frame[s] <= Delay

(* The same, on one side: the host never waits for the guest. *)
HostNeverWaits(s) == s = "host" \/ frame[s] < Delay

(* Until the first sent input comes due there is nothing to wait for. *)
WarmUp(s) == frame[s] < Delay

(* Ways to get Hit wrong: take any input filed in the slot, or look for the  *)
(* frame after this one.                                                     *)
HitAnyFrame(s) == ring[s][frame[s] % Ring].valid

HitNextFrame(s) == LET slot == ring[s][frame[s] % Ring]
                   IN  slot.valid /\ slot.frame = frame[s] + 1

(* NetplayAwaitFrame looks in the ring before it looks at the socket. *)
Hit(s) == LET slot == ring[s][frame[s] % Ring]
          IN  slot.valid /\ slot.frame = frame[s]

Waiting(s) == pc[s] = "await" /\ ~WarmUp(s) /\ ~Hit(s)

Unread(s) == 2 * Len(sent[Other(s)]) - read[s]

(* What the next receive may return.  UDP delivers any datagram, at any      *)
(* time, any number of times or never.  A stream delivers the next           *)
(* packet's worth of bytes, which is a packet as long as no part of one has  *)
(* been thrown away.                                                         *)
Deliverable(s) ==
    IF Transport = "udp"
    THEN {sent[Other(s)][i] : i \in 1 .. Len(sent[Other(s)])} \cup Strays
    ELSE IF Unread(s) < 2 THEN {}
    ELSE IF read[s] % 2 = 0 THEN {sent[Other(s)][read[s] \div 2 + 1]}
    ELSE {Garbage}

(* A way to get Receive wrong: the ring indexed by the delay, not by its size. *)
ReceiveModDelay(s, p) ==
    /\ Waiting(s)
    /\ read' = [read EXCEPT ![s] = IF Transport = "stream" THEN @ + 2 ELSE @]
    /\ ring' = IF p.session = Token
               THEN [ring EXCEPT ![s][p.seq % Delay] =
                       [valid |-> TRUE, frame |-> p.seq, joy |-> p.joy, crc |-> p.crc]]
               ELSE ring
    /\ UNCHANGED <<pc, frame, localVars, patience, desync, sent, hitches,
                   drift, played>>

(* A packet of another session is dropped; any other is filed under the      *)
(* frame it is for, whatever that frame is.                                  *)
Receive(s, p) ==
    /\ Waiting(s)
    /\ read' = [read EXCEPT ![s] = IF Transport = "stream" THEN @ + 2 ELSE @]
    /\ ring' = IF p.session = Token
               THEN [ring EXCEPT ![s][p.seq % Ring] =
                       [valid |-> TRUE, frame |-> p.seq, joy |-> p.joy, crc |-> p.crc]]
               ELSE ring
    /\ UNCHANGED <<pc, frame, localVars, patience, desync, sent, hitches,
                   drift, played>>

(* No input is on its way to s: the peer has left, or is waiting as well. *)
Quiet(s) == /\ Deliverable(s) = {}
            /\ \/ pc[Other(s)] \in Gone
               \/ Waiting(Other(s)) /\ Deliverable(Other(s)) = {}

(* Whether a timeout now counts against Hitches. *)
Counted(s) == ~Quiet(s) /\ Hitches # None

(* Ways to get LastChance wrong: give up at once, or one timeout late. *)
NoSecondChance(s) == patience[s] <= Patience

OneChanceMore(s) == patience[s] = 0

(* Whether another timeout means that the peer is gone. *)
LastChance(s) == patience[s] = 1

(* A way to get Timeout wrong: every receive starts the wait anew. *)
TimeoutStartsAnew(s, torn) ==
    /\ Waiting(s) /\ ~torn
    /\ Counted(s) => hitches < Hitches
    /\ hitches' = IF Counted(s) THEN hitches + 1 ELSE hitches
    /\ patience' = [patience EXCEPT ![s] = Patience]
    /\ UNCHANGED <<pc, frame, localVars, ring, desync, sent, read, drift, played>>

(* One receive that returns nothing in time.  net_recv_all gives up what it  *)
(* has read of a packet when the deadline strikes (torn).                    *)
Timeout(s, torn) ==
    /\ Waiting(s)
    /\ torn => Torn /\ Transport = "stream" /\ Unread(s) > 0
    /\ Counted(s) => hitches < Hitches
    /\ hitches' = IF Counted(s) THEN hitches + 1 ELSE hitches
    /\ read' = [read EXCEPT ![s] = IF torn THEN @ + 1 ELSE @]
    /\ patience' = [patience EXCEPT ![s] = @ - 1]
    /\ pc' = IF LastChance(s) THEN [pc EXCEPT ![s] = "lost"] ELSE pc
    /\ UNCHANGED <<frame, localVars, ring, desync, sent, drift, played>>

(* Ways to get ChecksumsDiffer wrong: the peer's checksum against this frame's *)
(* own, or one exempt frame too many.                                          *)
ChecksumOfWrongFrame(s) ==
    /\ frame[s] > Delay + 2
    /\ crcs[s][frame[s] % Ring] # ring[s][frame[s] % Ring].crc

ChecksumSkipsOne(s) ==
    /\ frame[s] > Delay + 3
    /\ crcs[s][(frame[s] - Delay) % Ring] # ring[s][frame[s] % Ring].crc

(* The checksums compared are both for frame - Delay: the packet carries the *)
(* peer's, the local ring still holds this side's.                           *)
ChecksumsDiffer(s) ==
    /\ frame[s] > Delay + 2
    /\ crcs[s][(frame[s] - Delay) % Ring] # ring[s][frame[s] % Ring].crc

(* The peer's pad for the frame is in hand: both pads go to the console. *)
Play(s) ==
    LET theirs == IF WarmUp(s) THEN Neutral ELSE ring[s][frame[s] % Ring].joy
    IN  /\ pc[s] = "await"
        /\ WarmUp(s) \/ Hit(s)
        /\ played' = [played EXCEPT ![s] =
               Append(@, IF s = "host" THEN <<mine[s], theirs>> ELSE <<theirs, mine[s]>>)]
        /\ ring' = IF WarmUp(s) THEN ring
                   ELSE [ring EXCEPT ![s][frame[s] % Ring].valid = FALSE]
        /\ desync' = [desync EXCEPT ![s] = @ \/ ChecksumsDiffer(s)]
        /\ frame' = [frame EXCEPT ![s] = @ + 1]
        /\ pc' = [pc EXCEPT ![s] = "emulate"]
        /\ UNCHANGED <<localVars, patience, sent, read, hitches, drift>>

(* NetplayDisconnectSession, from the panel. *)
Disconnect(s) ==
    /\ CanLeave
    /\ pc[s] = "emulate"
    /\ pc' = [pc EXCEPT ![s] = "left"]
    /\ UNCHANGED <<frame, localVars, ring, patience, desync, sent, read,
                   hitches, drift, played>>

(* The environment: one console's emulation stops being a function of its pads. *)
Drift(s) ==
    /\ pc[s] = "emulate" /\ s \in Drifters /\ drift[s] = None
    /\ drift' = [drift EXCEPT ![s] = frame[s]]
    /\ UNCHANGED <<pc, frame, localVars, ring, patience, desync, sent, read,
                   hitches, played>>

(* The end of a run: both sides are gone or have reached the bound. *)
AtBound(s) == pc[s] = "emulate" /\ frame[s] = MaxFrame

Over == /\ \A s \in Sides : \/ pc[s] \in Gone \/ AtBound(s)
                            \/ Waiting(s) /\ AtBound(Other(s))
        /\ UNCHANGED vars

Next == \/ \E s \in Sides, raw \in Pads, ok \in BOOLEAN : Begin(s, raw, ok)
        \/ \E s \in Sides : \E p \in Deliverable(s) : Receive(s, p)
        \/ \E s \in Sides, torn \in BOOLEAN : Timeout(s, torn)
        \/ \E s \in Sides : Play(s) \/ Disconnect(s) \/ Drift(s)
        \/ Over

Spec == Init /\ [][Next]_vars

(* A console runs on, packets a stream holds are read, and clocks tick: a    *)
(* receive that has nothing to return does time out.                         *)
FairSpec ==
    /\ Spec
    /\ \A s \in Sides :
        /\ WF_vars(\E raw \in Pads : Begin(s, raw, TRUE))
        /\ WF_vars(\E p \in Deliverable(s) : Receive(s, p))
        /\ WF_vars(Timeout(s, FALSE))
        /\ WF_vars(Play(s))

-----------------------------------------------------------------------------
Joys == Pads \cup {p.joy : p \in Strays}

Hashes == {None} \cup {p.crc : p \in Strays}
              \cup ({"sound"} \cup Sides) \X Seq(Joys \X Joys)

Slots == [valid : BOOLEAN, frame : Nat, joy : Joys, crc : Hashes]

Inputs == [session : {Token}, seq : Nat, joy : Pads, crc : Hashes]

(* The state's types; whoever is waiting has patience and frames left. *)
TypeOK ==
    /\ pc \in [Sides -> {"emulate", "await"} \cup Gone]
    /\ frame \in [Sides -> 0 .. MaxFrame]
    /\ queue \in [Sides -> [0 .. Delay - 1 -> Pads]]
    /\ qpos \in [Sides -> 0 .. Delay - 1]
    /\ qfilled \in [Sides -> 0 .. Delay]
    /\ mine \in [Sides -> Pads]
    /\ ring \in [Sides -> [0 .. Ring - 1 -> Slots]]
    /\ crcs \in [Sides -> [0 .. Ring - 1 -> Hashes]]
    /\ patience \in [Sides -> 0 .. Patience]
    /\ \A s \in Sides : pc[s] = "await" => patience[s] > 0 /\ frame[s] < MaxFrame
    /\ desync \in [Sides -> BOOLEAN]
    /\ sent \in [Sides -> Seq(Inputs)]
    /\ read \in [Sides -> Nat]
    /\ hitches \in Nat
    /\ drift \in [Sides -> {None} \cup 0 .. MaxFrame]
    /\ played \in [Sides -> Seq(Joys \X Joys)]

(* NetplaySyncInputs: whatever the network loses, repeats, delays, reorders  *)
(* or mixes in from other sessions, the two consoles are given the same      *)
(* pairs of pads, frame by frame, for as long as both go on.                 *)
Agreement ==
    \A f \in 1 .. MaxFrame :
        f <= Len(played["host"]) /\ f <= Len(played["guest"])
            => played["host"][f] = played["guest"][f]

(* NetplaySyncInputs: frame f is played with the pads the two players held   *)
(* at frame f - Delay, the host's on controller 1 and the guest's on         *)
(* controller 2, with nothing lost, repeated or out of place.                *)
Samples == [s \in Sides |-> [i \in 1 .. Len(sent[s]) |-> sent[s][i].joy]]
Timeline == INSTANCE LockstepPads WITH sampled <- Samples
PlaysTheSharedTimeline == Timeline!Spec

(* NetplaySyncInputs: neither side runs more than Delay frames past the      *)
(* other, so a side never has more than 2 * Delay + 2 packets unread, which  *)
(* is what the relay's 64-frame queue must hold without dropping one.        *)
BacklogBounded ==
    \A s \in Sides : Transport = "stream" => Unread(s) <= 2 * (2 * Delay + 2)

(* NetplayAwaitFrame: on a stream, no input filed in the ring is overwritten *)
(* before its frame is played.                                               *)
FiledInputKept ==
    [][\A s \in Sides, i \in 0 .. Ring - 1 :
          ring[s][i].valid /\ ring'[s][i] # ring[s][i]
              => frame'[s] = ring[s][i].frame + 1]_vars

(* NetplaySyncInputs: "DESYNC DETECTED" is never said of two consoles that   *)
(* are both still deterministic.                                             *)
NoFalseDesync ==
    \A s \in Sides : desync[s] => \E t \in Sides : drift[t] # None

(* NetplaySyncInputs: a console that has drifted by frame d is reported by   *)
(* whichever side plays frame d + Delay (the first three frames are exempt). *)
DesyncNoticed ==
    \A s, t \in Sides, d \in 0 .. MaxFrame :
        /\ drift[t] = d
        /\ frame[s] > d + Delay
        /\ frame[s] > Delay + 3
        /\ drift[Other(t)] = None
        => desync[s]

(* NetplayAwaitFrame, "the honest response to a late packet is to keep       *)
(* waiting": fewer late receives than the patience of one wait never make a  *)
(* side give up a peer that has not left.                                    *)
LatePacketsSurvived ==
    (\E s \in Sides : pc[s] = "lost") => hitches >= Patience \/ \E s \in Sides : pc[s] = "left"

(* NetplaySyncInputs: a session that no one leaves plays every frame.        *)
SessionGoesOn ==
    \A s \in Sides : <>(frame[s] = MaxFrame \/ \E t \in Sides : pc[t] = "left")

(* NetplayAwaitFrame: no one waits for ever, even if the peer has vanished.  *)
WaitEnds == \A s \in Sides : pc[s] = "await" ~> pc[s] # "await"

-----------------------------------------------------------------------------
(* Why Agreement holds.  A packet's position on the wire fixes the frame it   *)
(* is for, the delay queue is a window on what was sent, and everything filed *)
(* in the ring under a frame that will be played is what the peer sent.       *)

(* The pad side s sent for frame f. *)
Due(s, f) == IF f < Delay THEN Neutral ELSE sent[s][f - Delay + 1].joy

SentInOrder(s) ==
    /\ pc[s] = "emulate" => Len(sent[s]) = frame[s]
    /\ pc[s] = "await" => Len(sent[s]) = frame[s] + 1
    /\ Len(sent[s]) >= frame[s]
    /\ \A i \in 1 .. Len(sent[s]) : sent[s][i].seq = Delay + i - 1

(* The place of the k-th last pad in the delay queue. *)
Back(q, k) == IF k <= q THEN q - k ELSE q - k + Delay

QueueHoldsLastSent(s) ==
    pc[s] \notin Gone =>
        /\ qfilled[s] = IF Len(sent[s]) < Delay THEN Len(sent[s]) ELSE Delay
        /\ \A k \in 1 .. Delay : k <= Len(sent[s]) =>
              queue[s][Back(qpos[s], k)] = sent[s][Len(sent[s]) - k + 1].joy

MineIsDue(s) == pc[s] = "await" => mine[s] = Due(s, frame[s])

FiledAsSent(s) ==
    \A i \in 0 .. Ring - 1 :
        ring[s][i].valid /\ ring[s][i].frame >= Delay
            => /\ ring[s][i].frame - Delay + 1 <= Len(sent[Other(s)])
               /\ ring[s][i].joy = Due(Other(s), ring[s][i].frame)

PlayedAsSent(s) ==
    /\ Len(played[s]) = frame[s]
    /\ \A f \in 0 .. frame[s] - 1 :
          /\ f >= Delay => f - Delay + 1 <= Len(sent[Other(s)])
          /\ played[s][f + 1] = <<Due("host", f), Due("guest", f)>>

IInv == /\ TypeOK
        /\ \A s \in Sides :
              /\ SentInOrder(s)
              /\ QueueHoldsLastSent(s)
              /\ MineIsDue(s)
              /\ FiledAsSent(s)
              /\ PlayedAsSent(s)
=============================================================================
