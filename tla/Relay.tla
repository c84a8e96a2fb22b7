-------------------------------- MODULE Relay --------------------------------
(***************************************************************************)
(* The netplay relay, server/main.go: one goroutine per connection that    *)
(* seats it in a room, reads its frames and forwards them to its peer, and *)
(* a second goroutine per connection that writes what others queued.       *)
(*                                                                         *)
(* An action is what a goroutine does between two points where another can *)
(* be seen: taking s.mu, taking a room's mu, a channel operation, a write. *)
(* Entries of s.rooms are only reached under their own code, so one code   *)
(* is enough: every connection here asks for it.                           *)
(***************************************************************************)
EXTENDS Naturals, Sequences, SequencesExt

CONSTANTS
    Conns,      \* connections whose CLIENT_HELLO was accepted; each also
                \*   names the room object it may create
    Joiners,    \* those that say JOIN; the others say CREATE
    Password,   \* Password[c]: the room password in c's hello
    Faulty,     \* connections a write to which may fail
    Cap,        \* capacity of peer.out
    MaxFrames,  \* bound: frames a client sends once it is seated
    Pings,      \* TRUE: a client may also send PING
    None        \* nil

ASSUME RelayAssumption ==
    /\ Joiners \subseteq Conns /\ Faulty \subseteq Conns
    /\ Cap \in Nat \ {0} /\ MaxFrames \in Nat
    /\ None \notin Conns

VARIABLES
    registry,   \* s.rooms[code]: a room, or None
    host,       \* host[r], client[r], auth[r]: the fields of room r
    client,
    auth,
    pc,         \* where c's reader goroutine stands
    room,       \* room[c]: the *room c holds between two locks
    other,      \* other[c]: the *peer c holds after its room's lock
    inhand,     \* inhand[c]: the frame c is forwarding
    empty,      \* empty[c]: whether c left its room empty
    out,        \* out[c]: the channel of frames to write to c
    done,       \* done[c]: whether c's done channel is closed
    writer,     \* c's writer goroutine: "none", "on" or "off"
    spoke,      \* spoke[c]: frames c's client has sent
    got         \* got[c]: frames written to c's connection, oldest first

roomVars == <<registry, host, client, auth>>
vars == <<roomVars, pc, room, other, inhand, empty, out, done, writer, spoke, got>>

Hello == [type |-> "SERVER_HELLO", from |-> None, n |-> 0]
Ready(c) == [type |-> "PEER_READY", from |-> c, n |-> 0]
Input(c, n) == [type |-> "INPUT", from |-> c, n |-> n]
Pong == [type |-> "PONG", from |-> None, n |-> 0]
Bye == [type |-> "BYE", from |-> None, n |-> 0]

Init == /\ registry = None
        /\ host = [r \in Conns |-> None]
        /\ client = [r \in Conns |-> None]
        /\ auth = [r \in Conns |-> None]
        /\ pc = [c \in Conns |-> "join"]
        /\ room = [c \in Conns |-> None]
        /\ other = [c \in Conns |-> None]
        /\ inhand = [c \in Conns |-> None]
        /\ empty = [c \in Conns |-> FALSE]
        /\ out = [c \in Conns |-> << >>]
        /\ done = [c \in Conns |-> FALSE]
        /\ writer = [c \in Conns |-> "none"]
        /\ spoke = [c \in Conns |-> 0]
        /\ got = [c \in Conns |-> << >>]

Goto(c, label) == pc' = [pc EXCEPT ![c] = label]

-----------------------------------------------------------------------------
(* joinRoom, under s.mu: find the room, or make it. *)
FindRoom(c) ==
    /\ pc[c] = "join"
    /\ \/ /\ registry = None /\ c \notin Joiners
          /\ registry' = c
          /\ auth' = [auth EXCEPT ![c] = Password[c]]
          /\ room' = [room EXCEPT ![c] = c]
          /\ Goto(c, "seat")
       \/ /\ registry = None /\ c \in Joiners
          /\ Goto(c, "gone")
          /\ UNCHANGED <<registry, auth, room>>
       \/ /\ registry # None
          /\ room' = [room EXCEPT ![c] = registry]
          /\ Goto(c, "seat")
          /\ UNCHANGED <<registry, auth>>
    /\ UNCHANGED <<host, client, other, inhand, empty, out, done, writer, spoke, got>>

(* joinRoom, under the room's mu: the first free seat, if the password fits. *)
(* A room without a password accepts none, so the two must be equal.         *)
TakeSeat(c) ==
    LET r == room[c]
    IN  /\ pc[c] = "seat"
        /\ \/ /\ Password[c] = auth[r] /\ host[r] = None
              /\ host' = [host EXCEPT ![r] = c]
              /\ other' = [other EXCEPT ![c] = None]
              /\ Goto(c, "greet")
              /\ UNCHANGED client
           \/ /\ Password[c] = auth[r] /\ host[r] # None /\ client[r] = None
              /\ client' = [client EXCEPT ![r] = c]
              /\ other' = [other EXCEPT ![c] = host[r]]
              /\ Goto(c, "greet")
              /\ UNCHANGED host
           \/ /\ Password[c] # auth[r] \/ (host[r] # None /\ client[r] # None)
              /\ Goto(c, "gone")
              /\ UNCHANGED <<host, client, other>>
        /\ UNCHANGED <<registry, auth, room, inhand, empty, out, done, writer, spoke, got>>

(* handle: SERVER_HELLO and, if a host is waiting, PEER_READY, both written   *)
(* by this goroutine.  Failing to write the first skips to the deferred       *)
(* leaveRoom, with done still open; failing to write the second is ignored.   *)
Greet(c, written) ==
    LET lines == IF other[c] = None THEN <<Hello>> ELSE <<Hello, Ready(other[c])>>
    IN  /\ pc[c] = "greet"
        /\ written <= Len(lines)
        /\ written < Len(lines) => c \in Faulty
        /\ got' = [got EXCEPT ![c] = @ \o SubSeq(lines, 1, written)]
        /\ \/ written = 0 /\ Goto(c, "leave") /\ UNCHANGED writer
           \/ written > 0 /\ other[c] # None /\ Goto(c, "ready") /\ UNCHANGED writer
           \/ /\ written > 0 /\ other[c] = None
              /\ writer' = [writer EXCEPT ![c] = "on"]
              /\ Goto(c, "relay")
        /\ UNCHANGED <<roomVars, room, other, inhand, empty, out, done, spoke>>

(* A way to get SendOrDone wrong: the queue has no limit. *)
SendUnbounded(d, f) == out' = [out EXCEPT ![d] = Append(@, f)]

(* A select over a send to d and d's done: blocks until one can proceed. *)
SendOrDone(d, f) == \/ Len(out[d]) < Cap /\ out' = [out EXCEPT ![d] = Append(@, f)]
                    \/ done[d] /\ UNCHANGED out

(* A way to get Announce wrong: the host is told nothing. *)
AnnounceNothing(c) ==
    /\ pc[c] = "ready"
    /\ writer' = [writer EXCEPT ![c] = "on"]
    /\ Goto(c, "relay")
    /\ UNCHANGED <<roomVars, room, other, inhand, empty, out, done, spoke, got>>

(* handle: the waiting host is told who joined; runRelay starts the writer. *)
Announce(c) ==
    /\ pc[c] = "ready"
    /\ SendOrDone(other[c], Ready(c))
    /\ writer' = [writer EXCEPT ![c] = "on"]
    /\ Goto(c, "relay")
    /\ UNCHANGED <<roomVars, room, other, inhand, empty, done, spoke, got>>

-----------------------------------------------------------------------------
(* runRelay reads INPUT or GAME, and forward's peerOf looks the room up. *)
ReadInput(c) ==
    /\ pc[c] = "relay" /\ spoke[c] < MaxFrames
    /\ spoke' = [spoke EXCEPT ![c] = @ + 1]
    /\ inhand' = [inhand EXCEPT ![c] = Input(c, spoke[c] + 1)]
    /\ room' = [room EXCEPT ![c] = registry]
    /\ Goto(c, IF registry = None THEN "relay" ELSE "peer")
    /\ UNCHANGED <<roomVars, other, empty, out, done, writer, got>>

(* peerOf, under the room's mu. *)
PeerOf(c) ==
    LET r == room[c]
        peer == IF host[r] = c THEN client[r] ELSE host[r]
    IN  /\ pc[c] = "peer"
        /\ other' = [other EXCEPT ![c] = peer]
        /\ Goto(c, IF peer = None THEN "relay" ELSE "push")
        /\ UNCHANGED <<roomVars, room, inhand, empty, out, done, writer, spoke, got>>

(* forward: queue the frame, or drop it if the queue is full or its reader gone. *)
Push(c) ==
    /\ pc[c] = "push"
    /\ \/ SendOrDone(other[c], inhand[c])
       \/ Len(out[other[c]]) = Cap /\ ~done[other[c]] /\ UNCHANGED out
    /\ Goto(c, "relay")
    /\ UNCHANGED <<roomVars, room, other, inhand, empty, done, writer, spoke, got>>

ReadPing(c) ==
    /\ Pings /\ pc[c] = "relay" /\ spoke[c] < MaxFrames
    /\ spoke' = [spoke EXCEPT ![c] = @ + 1]
    /\ Goto(c, "pong")
    /\ UNCHANGED <<roomVars, room, other, inhand, empty, out, done, writer, got>>

(* The PONG goes through c's own queue, and waits for space in it. *)
SendPong(c) ==
    /\ pc[c] = "pong"
    /\ SendOrDone(c, Pong)
    /\ Goto(c, "relay")
    /\ UNCHANGED <<roomVars, room, other, inhand, empty, done, writer, spoke, got>>

(* BYE from the client, a failed read, or IdleTimeout with nothing to read. *)
ReadEnd(c) ==
    /\ pc[c] = "relay"
    /\ done' = [done EXCEPT ![c] = TRUE]
    /\ Goto(c, "drain")
    /\ UNCHANGED <<roomVars, room, other, inhand, empty, out, writer, spoke, got>>

(* A way to get Write wrong: the newest frame goes out first. *)
WriteNewest(c, ok) ==
    /\ writer[c] = "on" /\ out[c] # << >> /\ ok
    /\ out' = [out EXCEPT ![c] = Front(@)]
    /\ got' = [got EXCEPT ![c] = Append(@, Last(out[c]))]
    /\ writer' = [writer EXCEPT ![c] = IF Last(out[c]) = Bye THEN "off" ELSE @]
    /\ UNCHANGED <<roomVars, pc, room, other, inhand, empty, done, spoke>>

(* The writer takes a frame or sees done, whichever select picks.  It stops *)
(* for good after a BYE or a failed write.                                  *)
Write(c, ok) ==
    /\ writer[c] = "on" /\ out[c] # << >>
    /\ ok \/ c \in Faulty
    /\ out' = [out EXCEPT ![c] = Tail(@)]
    /\ got' = IF ok THEN [got EXCEPT ![c] = Append(@, Head(out[c]))] ELSE got
    /\ writer' = IF ok /\ Head(out[c]) # Bye THEN writer ELSE [writer EXCEPT ![c] = "off"]
    /\ UNCHANGED <<roomVars, pc, room, other, inhand, empty, done, spoke>>

StopWriter(c) ==
    /\ writer[c] = "on" /\ done[c]
    /\ writer' = [writer EXCEPT ![c] = "off"]
    /\ UNCHANGED <<roomVars, pc, room, other, inhand, empty, out, done, spoke, got>>

(* runRelay waits for its writer before it returns. *)
WriterDone(c) ==
    /\ pc[c] = "drain" /\ writer[c] = "off"
    /\ Goto(c, "leave")
    /\ UNCHANGED <<roomVars, room, other, inhand, empty, out, done, writer, spoke, got>>

-----------------------------------------------------------------------------
(* leaveRoom, under s.mu: the room now registered under the code. *)
FindRoomToLeave(c) ==
    /\ pc[c] = "leave"
    /\ room' = [room EXCEPT ![c] = registry]
    /\ Goto(c, IF registry = None THEN "gone" ELSE "vacate")
    /\ UNCHANGED <<roomVars, other, inhand, empty, out, done, writer, spoke, got>>

(* Ways to get Vacate wrong: look whether the room is empty before leaving it, *)
(* or forget the second seat.                                                  *)
VacateLooksFirst(c) ==
    LET r == room[c]
    IN  /\ pc[c] = "vacate"
        /\ host' = [host EXCEPT ![r] = IF @ = c THEN None ELSE @]
        /\ client' = [client EXCEPT ![r] = IF @ = c THEN None ELSE @]
        /\ other' = [other EXCEPT ![c] = IF host[r] = c THEN client[r] ELSE None]
        /\ empty' = [empty EXCEPT ![c] = host[r] = None /\ client[r] = None]
        /\ Goto(c, "inform")
        /\ UNCHANGED <<registry, auth, room, inhand, out, done, writer, spoke, got>>

VacateHostOnly(c) ==
    LET r == room[c]
    IN  /\ pc[c] = "vacate"
        /\ host' = [host EXCEPT ![r] = IF @ = c THEN None ELSE @]
        /\ other' = [other EXCEPT ![c] = IF host[r] = c THEN client[r] ELSE host[r]]
        /\ empty' = [empty EXCEPT ![c] = host'[r] = None /\ client[r] = None]
        /\ Goto(c, "inform")
        /\ UNCHANGED <<registry, client, auth, room, inhand, out, done, writer, spoke, got>>

(* leaveRoom, under that room's mu. *)
Vacate(c) ==
    LET r == room[c]
    IN  /\ pc[c] = "vacate"
        /\ host' = [host EXCEPT ![r] = IF @ = c THEN None ELSE @]
        /\ client' = [client EXCEPT ![r] = IF @ = c THEN None ELSE @]
        /\ other' = [other EXCEPT ![c] = CASE host[r] = c -> client[r]
                                           [] client[r] = c -> host[r]
                                           [] OTHER -> None]
        /\ empty' = [empty EXCEPT ![c] = host'[r] = None /\ client'[r] = None]
        /\ Goto(c, "inform")
        /\ UNCHANGED <<registry, auth, room, inhand, out, done, writer, spoke, got>>

(* A way to get Inform wrong: the BYE is dropped if the queue is full. *)
InformOrDrop(c) ==
    /\ pc[c] = "inform"
    /\ \/ other[c] # None /\ SendOrDone(other[c], Bye)
       \/ (other[c] # None => Len(out[other[c]]) = Cap) /\ UNCHANGED out
    /\ Goto(c, IF empty[c] THEN "reap" ELSE "gone")
    /\ UNCHANGED <<roomVars, room, other, inhand, empty, done, writer, spoke, got>>

(* leaveRoom: the peer left behind is sent a BYE. *)
Inform(c) ==
    /\ pc[c] = "inform"
    /\ IF other[c] = None THEN UNCHANGED out ELSE SendOrDone(other[c], Bye)
    /\ Goto(c, IF empty[c] THEN "reap" ELSE "gone")
    /\ UNCHANGED <<roomVars, room, other, inhand, empty, done, writer, spoke, got>>

(* leaveRoom, under s.mu again: whatever the code now names is removed. *)
Reap(c) ==
    /\ pc[c] = "reap"
    /\ registry' = None
    /\ Goto(c, "gone")
    /\ UNCHANGED <<host, client, auth, room, other, inhand, empty, out, done, writer,
                   spoke, got>>

-----------------------------------------------------------------------------
Join(c) == FindRoom(c) \/ TakeSeat(c) \/ (\E written \in 0 .. 2 : Greet(c, written)) \/ Announce(c)
Forward(c) == ReadInput(c) \/ PeerOf(c) \/ Push(c) \/ ReadPing(c) \/ SendPong(c)
Writer(c) == (\E ok \in BOOLEAN : Write(c, ok)) \/ StopWriter(c)
Leave(c) == ReadEnd(c) \/ WriterDone(c) \/ FindRoomToLeave(c) \/ Vacate(c) \/ Inform(c) \/ Reap(c)

(* Every connection has come and gone. *)
Over == (\A c \in Conns : pc[c] = "gone") /\ UNCHANGED vars

Next == \/ \E c \in Conns : Join(c) \/ Forward(c) \/ Writer(c) \/ Leave(c)
        \/ Over

Spec == Init /\ [][Next]_vars

(* The Go scheduler runs every goroutine that can run.  Whether a client     *)
(* says anything, or leaves, is its own affair: ReadInput, ReadPing and      *)
(* ReadEnd are under no fairness.                                            *)
FairSpec ==
    /\ Spec
    /\ \A c \in Conns :
        /\ WF_vars(Join(c))
        /\ WF_vars(PeerOf(c) \/ Push(c) \/ SendPong(c))
        /\ WF_vars(Writer(c))
        /\ WF_vars(WriterDone(c) \/ FindRoomToLeave(c) \/ Vacate(c) \/ Inform(c) \/ Reap(c))

-----------------------------------------------------------------------------
Places == {"join", "seat", "greet", "ready", "relay", "peer", "push", "pong", "drain",
           "leave", "vacate", "inform", "reap", "gone"}

Frames == {Hello, Pong, Bye} \cup {Ready(c) : c \in Conns}
              \cup {Input(c, n) : c \in Conns, n \in 1 .. MaxFrames}

Maybe == Conns \cup {None}

RoomTypes ==
    /\ registry \in Maybe
    /\ host \in [Conns -> Maybe] /\ client \in [Conns -> Maybe]
    /\ auth \in [Conns -> {None} \cup {Password[c] : c \in Conns}]
    /\ \A r \in Conns : auth[r] \in {None, Password[r]}

ReaderTypes ==
    /\ pc \in [Conns -> Places]
    /\ room \in [Conns -> Maybe] /\ other \in [Conns -> Maybe]
    /\ inhand \in [Conns -> Frames \cup {None}]
    /\ empty \in [Conns -> BOOLEAN] /\ done \in [Conns -> BOOLEAN]
    /\ writer \in [Conns -> {"none", "on", "off"}]
    /\ spoke \in [Conns -> 0 .. MaxFrames]

LineTypes ==
    /\ out \in [Conns -> Seq(Frames)] /\ \A c \in Conns : Len(out[c]) <= Cap
    /\ got \in [Conns -> Seq(Frames)]

(* The state's types, and no queue longer than its channel. *)
TypeOK == RoomTypes /\ ReaderTypes /\ LineTypes

Says(f, d) == f.type = "INPUT" /\ f.from = d

(* f may be heard before g: no client said g first, or the same twice. *)
Precedes(f, g) == \A d \in Conns : Says(f, d) /\ Says(g, d) => f.n < g.n

(* peerOf, forward, the writer: what a client hears from another is in the   *)
(* order it was said, nothing twice.                                         *)
InOrder ==
    \A c \in Conns : \A i, j \in 1 .. Len(got[c]) :
        i < j => Precedes(got[c][i], got[c][j])

(* "the server pairs them and forwards INPUT frames between them": until it  *)
(* hangs up, a client hears input only from peers it was paired with, which  *)
(* PEER_READY has announced; NetplayRelayGameCheck relies on the order.      *)
AnnouncedFirst ==
    \A c, d \in Conns : \A i \in 1 .. Len(got[c]) :
        ~done[c] /\ Says(got[c][i], d)
            => \E j \in 1 .. i - 1 : got[c][j] = Ready(d)

(* leaveRoom: when everyone has gone, no room is left in the map, whatever   *)
(* the order in which joining and leaving connections took the two locks.    *)
RoomsReclaimed == (\A c \in Conns : pc[c] = "gone") => registry = None

(* leaveRoom: no room object that is still in the map outlives its members:  *)
(* a seat never belongs to a connection that has finished leaving it.        *)
NoGhostSeats ==
    registry # None =>
        \A c \in Conns : pc[c] = "gone" => host[registry] # c /\ client[registry] # c

(* handle: a client that is told of a waiting host is told to that host too, *)
(* unless the host is leaving.                                               *)
PairingCompletes ==
    \A c \in Conns : \A d \in Conns \ {c} :
        Ready(d) \in ToSet(got[c]) ~> Ready(c) \in ToSet(got[d]) \/ done[d]

(* leaveRoom: when one of a pair has gone, the other is told, unless it is   *)
(* leaving as well.                                                          *)
SurvivorInformed ==
    \A c \in Conns : \A d \in Conns \ {c} :
        pc[c] = "gone" /\ Ready(d) \in ToSet(got[c])
            ~> Bye \in ToSet(got[d]) \/ done[d]
=============================================================================
