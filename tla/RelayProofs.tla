----------------------------- MODULE RelayProofs -----------------------------
(***************************************************************************)
(* Proofs about the relay, for any number of connections, any passwords,   *)
(* any capacity of the queues and writes that may fail.                    *)
(***************************************************************************)
EXTENDS Relay, SequenceTheorems, TLAPS

(* What a connection's goroutine has in hand where it is about to use it. *)
Holding ==
    \A c \in Conns :
        /\ pc[c] \in {"seat", "peer", "vacate"} => room[c] \in Conns
        /\ pc[c] \in {"ready", "push"} => other[c] \in Conns
        /\ pc[c] \in {"peer", "push"} => inhand[c] = Input(c, spoke[c]) /\ spoke[c] # 0

(* The room a connection may yet create has not been seen by anybody. *)
Fresh ==
    \A r \in Conns : pc[r] = "join" =>
        /\ registry # r /\ host[r] = None /\ client[r] = None
        /\ \A c \in Conns : room[c] # r

(* Whose seats are still taken. *)
Seated ==
    \A c, r \in Conns : host[r] = c \/ client[r] = c =>
        /\ pc[c] \notin {"join", "seat"}
        /\ pc[c] = "vacate" => r = room[c] \/ r # registry
        /\ pc[c] \in {"inform", "reap", "gone"} => r # registry

(* A connection that will remove the room, or find out that it must not. *)
Sweeper(c) ==
    \/ pc[c] = "seat" /\ room[c] = registry /\ Password[c] = auth[registry]
    \/ pc[c] \in {"inform", "reap"} /\ empty[c]

Watched ==
    registry # None => \/ host[registry] # None \/ client[registry] # None
                       \/ \E c \in Conns : Sweeper(c)

(* The last of d's inputs that may be on its way or there. *)
Told(d) == IF pc[d] \in {"peer", "push"} THEN spoke[d] - 1 ELSE spoke[d]

OnlyTold(q) == \A i \in 1 .. Len(q), d \in Conns : Says(q[i], d) => q[i].n <= Told(d)

Ordered(q) == \A i, j \in 1 .. Len(q) : i < j => Precedes(q[i], q[j])

Follows(p, q) == \A i \in 1 .. Len(p), j \in 1 .. Len(q) : Precedes(p[i], q[j])

(* What holds of a client's frames, p received and q queued. *)
Line(p, q) == Ordered(p) /\ Ordered(q) /\ Follows(p, q)

InLine == \A c \in Conns : Line(got[c], out[c]) /\ OnlyTold(got[c]) /\ OnlyTold(out[c])

RelayInv == TypeOK /\ Holding /\ Fresh /\ Seated /\ Watched /\ InLine

-----------------------------------------------------------------------------
LEMMA FrameKinds ==
    /\ Hello \in Frames /\ Pong \in Frames /\ Bye \in Frames
    /\ \A c \in Conns : Ready(c) \in Frames
    /\ \A c \in Conns, n \in 1 .. MaxFrames : Input(c, n) \in Frames
  BY DEF Frames

(* What a send leaves in the queues. *)
LEMMA Sending ==
    ASSUME TypeOK, NEW d \in Conns, NEW f \in Frames, SendOrDone(d, f)
    PROVE  /\ out' \in [Conns -> Seq(Frames)] /\ \A c \in Conns : Len(out'[c]) <= Cap
           /\ \A c \in Conns : out'[c] = out[c] \/ (c = d /\ out'[c] = Append(out[c], f))
<1>1. CASE UNCHANGED out
  BY <1>1 DEF TypeOK, LineTypes
<1>2. CASE Len(out[d]) < Cap /\ out' = [out EXCEPT ![d] = Append(@, f)]
  <2>1. out[d] \in Seq(Frames) /\ Len(out[d]) \in Nat /\ Cap \in Nat
    BY RelayAssumption DEF TypeOK, LineTypes
  <2>2. Append(out[d], f) \in Seq(Frames) /\ Len(Append(out[d], f)) <= Cap
    BY <1>2, <2>1
  <2> QED
    BY <1>2, <2>2 DEF TypeOK, LineTypes
<1> QED
  BY <1>1, <1>2 DEF SendOrDone

LEMMA TypeInit == Init => TypeOK
<1> SUFFICES ASSUME Init PROVE TypeOK
  OBVIOUS
<1>1. << >> \in Seq(Frames) /\ Len(<< >>) = 0 /\ Cap \in Nat /\ MaxFrames \in Nat
  BY RelayAssumption
<1>2. LineTypes
  BY <1>1 DEF Init, LineTypes
<1>3. RoomTypes
  BY DEF Init, RoomTypes, Maybe
<1>4. ReaderTypes
  BY <1>1 DEF Init, ReaderTypes, Maybe, Places
<1> QED
  BY <1>2, <1>3, <1>4 DEF TypeOK

(* The actions that find, take and leave a room. *)
LEMMA TypeRooms ==
    ASSUME TypeOK, Holding, NEW c \in Conns,
           FindRoom(c) \/ TakeSeat(c) \/ FindRoomToLeave(c) \/ Vacate(c) \/ Reap(c)
    PROVE  TypeOK'
<1> USE DEF Goto, Places, Maybe
<1>1. RoomTypes /\ ReaderTypes /\ LineTypes
  BY DEF TypeOK
<1>2. UNCHANGED <<out, got>> => LineTypes'
  BY <1>1 DEF LineTypes
<1>3. CASE FindRoom(c)
  <2>1. RoomTypes'
    BY <1>1, <1>3 DEF RoomTypes, FindRoom
  <2>2. ReaderTypes'
    BY <1>1, <1>3 DEF RoomTypes, ReaderTypes, FindRoom
  <2> QED
    BY <1>2, <1>3, <2>1, <2>2 DEF TypeOK, FindRoom
<1>4. CASE TakeSeat(c)
  <2>0. room[c] \in Conns
    BY <1>4 DEF Holding, TakeSeat
  <2>1. RoomTypes'
    BY <1>1, <1>4, <2>0 DEF RoomTypes, TakeSeat
  <2>2. ReaderTypes'
    BY <1>1, <1>4, <2>0 DEF RoomTypes, ReaderTypes, TakeSeat
  <2> QED
    BY <1>2, <1>4, <2>1, <2>2 DEF TypeOK, TakeSeat
<1>5. CASE FindRoomToLeave(c)
  BY <1>1, <1>2, <1>5 DEF TypeOK, RoomTypes, ReaderTypes, FindRoomToLeave, roomVars
<1>6. CASE Vacate(c)
  <2>0. room[c] \in Conns
    BY <1>6 DEF Holding, Vacate
  <2>1. RoomTypes'
    BY <1>1, <1>6, <2>0 DEF RoomTypes, Vacate
  <2>2. ReaderTypes'
    BY <1>1, <1>6, <2>0 DEF RoomTypes, ReaderTypes, Vacate
  <2> QED
    BY <1>2, <1>6, <2>1, <2>2 DEF TypeOK, Vacate
<1>7. CASE Reap(c)
  BY <1>1, <1>2, <1>7 DEF TypeOK, RoomTypes, ReaderTypes, Reap
<1> QED
  BY <1>3, <1>4, <1>5, <1>6, <1>7

(* What handle writes before the relaying begins. *)
Lines(c) == IF other[c] = None THEN <<Hello>> ELSE <<Hello, Ready(other[c])>>

LEMMA GreetLines ==
    ASSUME TypeOK, NEW c \in Conns, NEW w \in 0 .. 2, w <= Len(Lines(c))
    PROVE  /\ SubSeq(Lines(c), 1, w) \in Seq(Frames)
           /\ \A i \in 1 .. Len(SubSeq(Lines(c), 1, w)) : SubSeq(Lines(c), 1, w)[i].type # "INPUT"
<1>1. other[c] \in Conns \/ other[c] = None
  BY DEF TypeOK, ReaderTypes, Maybe
<1>2. Lines(c) \in Seq(Frames) /\ \A i \in 1 .. Len(Lines(c)) : Lines(c)[i].type # "INPUT"
  <2>1. CASE other[c] = None
    BY <2>1, FrameKinds DEF Lines, Hello
  <2>2. CASE other[c] # None
    <3>1. Hello \in Frames /\ Ready(other[c]) \in Frames
      BY <1>1, <2>2, FrameKinds
    <3>2. Hello.type # "INPUT" /\ Ready(other[c]).type # "INPUT"
      BY DEF Hello, Ready
    <3> QED
      BY <2>2, <3>1, <3>2 DEF Lines
  <2> QED
    BY <2>1, <2>2
<1>3. /\ SubSeq(Lines(c), 1, w) \in Seq(Frames)
      /\ Len(SubSeq(Lines(c), 1, w)) = w
      /\ \A i \in 1 .. w : SubSeq(Lines(c), 1, w)[i] = Lines(c)[i]
  BY <1>2, SubSeqProperties
<1> QED
  BY <1>2, <1>3

LEMMA TypeQueues ==
    ASSUME TypeOK, Holding, NEW c \in Conns,
           \/ \E w \in 0 .. 2 : Greet(c, w)
           \/ Announce(c) \/ Push(c) \/ SendPong(c) \/ Inform(c)
           \/ \E ok \in BOOLEAN : Write(c, ok)
    PROVE  TypeOK'
<1> USE DEF Goto, Places, Maybe
<1>1. RoomTypes /\ ReaderTypes /\ LineTypes
  BY DEF TypeOK
<1>2. ASSUME NEW w \in 0 .. 2, Greet(c, w) PROVE TypeOK'
  <2>1. SubSeq(Lines(c), 1, w) \in Seq(Frames)
    BY <1>2, GreetLines DEF Greet, Lines
  <2>2. got[c] \o SubSeq(Lines(c), 1, w) \in Seq(Frames)
    BY <1>1, <2>1 DEF LineTypes
  <2>3. LineTypes'
    BY <1>1, <1>2, <2>2 DEF LineTypes, Greet, Lines
  <2>4. RoomTypes' /\ ReaderTypes'
    BY <1>1, <1>2 DEF RoomTypes, ReaderTypes, Greet, roomVars
  <2> QED
    BY <2>3, <2>4 DEF TypeOK
<1>3. CASE Announce(c)
  <2>1. other[c] \in Conns /\ Ready(c) \in Frames
    BY <1>3, FrameKinds DEF Holding, Announce
  <2>2. LineTypes'
    BY <1>1, <1>3, <2>1, Sending DEF LineTypes, Announce
  <2>3. RoomTypes' /\ ReaderTypes'
    BY <1>1, <1>3 DEF RoomTypes, ReaderTypes, Announce, roomVars
  <2> QED
    BY <2>2, <2>3 DEF TypeOK
<1>4. CASE Push(c)
  <2>1. other[c] \in Conns /\ inhand[c] \in Frames
    <3>1. spoke[c] \in 1 .. MaxFrames
      BY <1>1, <1>4, RelayAssumption DEF Holding, Push, ReaderTypes
    <3> QED
      BY <1>4, <3>1, FrameKinds DEF Holding, Push
  <2>2. LineTypes'
    BY <1>1, <1>4, <2>1, Sending DEF LineTypes, Push
  <2>3. RoomTypes' /\ ReaderTypes'
    BY <1>1, <1>4 DEF RoomTypes, ReaderTypes, Push, roomVars
  <2> QED
    BY <2>2, <2>3 DEF TypeOK
<1>5. CASE SendPong(c)
  <2>1. LineTypes'
    BY <1>1, <1>5, FrameKinds, Sending DEF LineTypes, SendPong
  <2>2. RoomTypes' /\ ReaderTypes'
    BY <1>1, <1>5 DEF RoomTypes, ReaderTypes, SendPong, roomVars
  <2> QED
    BY <2>1, <2>2 DEF TypeOK
<1>6. CASE Inform(c)
  <2>1. other[c] = None \/ other[c] \in Conns
    BY <1>1 DEF ReaderTypes
  <2>2. LineTypes'
    BY <1>1, <1>6, <2>1, FrameKinds, Sending DEF LineTypes, Inform
  <2>3. RoomTypes' /\ ReaderTypes'
    BY <1>1, <1>6 DEF RoomTypes, ReaderTypes, Inform, roomVars
  <2> QED
    BY <2>2, <2>3 DEF TypeOK
<1>7. ASSUME NEW ok \in BOOLEAN, Write(c, ok) PROVE TypeOK'
  <2>1. out[c] \in Seq(Frames) /\ got[c] \in Seq(Frames) /\ out[c] # << >> /\ Len(out[c]) <= Cap
    BY <1>1, <1>7 DEF LineTypes, Write
  <2>2. /\ Head(out[c]) \in Frames /\ Tail(out[c]) \in Seq(Frames)
        /\ Len(Tail(out[c])) = Len(out[c]) - 1 /\ Len(out[c]) \in Nat
        /\ Append(got[c], Head(out[c])) \in Seq(Frames)
    BY <2>1
  <2>3. LineTypes'
    BY <1>1, <1>7, <2>1, <2>2, RelayAssumption DEF LineTypes, Write
  <2>4. RoomTypes' /\ ReaderTypes'
    BY <1>1, <1>7 DEF RoomTypes, ReaderTypes, Write, roomVars
  <2> QED
    BY <2>3, <2>4 DEF TypeOK
<1> QED
  BY <1>2, <1>3, <1>4, <1>5, <1>6, <1>7

(* The actions that touch neither a room nor a queue. *)
LEMMA TypeReader ==
    ASSUME TypeOK, Holding, NEW c \in Conns,
           ReadInput(c) \/ PeerOf(c) \/ ReadPing(c) \/ ReadEnd(c) \/ StopWriter(c) \/ WriterDone(c)
    PROVE  TypeOK'
<1> USE DEF Goto, Places, Maybe
<1>1. RoomTypes /\ ReaderTypes /\ LineTypes
  BY DEF TypeOK
<1>2. UNCHANGED <<out, got>> => LineTypes'
  BY <1>1 DEF LineTypes
<1>3. UNCHANGED roomVars => RoomTypes'
  BY <1>1 DEF RoomTypes, roomVars
<1>4. CASE ReadInput(c)
  <2>1. spoke[c] + 1 \in 1 .. MaxFrames
    BY <1>1, <1>4, RelayAssumption DEF ReaderTypes, ReadInput
  <2>2. Input(c, spoke[c] + 1) \in Frames
    BY <2>1, FrameKinds
  <2>3. ReaderTypes'
    BY <1>1, <1>4, <2>1, <2>2, RelayAssumption DEF RoomTypes, ReaderTypes, ReadInput
  <2> QED
    BY <1>2, <1>3, <1>4, <2>3 DEF TypeOK, ReadInput
<1>5. CASE PeerOf(c)
  <2>1. room[c] \in Conns
    BY <1>5 DEF Holding, PeerOf
  <2>2. ReaderTypes'
    BY <1>1, <1>5, <2>1 DEF RoomTypes, ReaderTypes, PeerOf
  <2> QED
    BY <1>2, <1>3, <1>5, <2>2 DEF TypeOK, PeerOf
<1>6. CASE ReadPing(c)
  <2>1. spoke[c] + 1 \in 0 .. MaxFrames
    BY <1>1, <1>6, RelayAssumption DEF ReaderTypes, ReadPing
  <2> QED
    BY <1>1, <1>2, <1>3, <1>6, <2>1 DEF TypeOK, ReaderTypes, ReadPing
<1>7. CASE ReadEnd(c) \/ StopWriter(c) \/ WriterDone(c)
  BY <1>1, <1>2, <1>3, <1>7 DEF TypeOK, ReaderTypes, ReadEnd, StopWriter, WriterDone
<1> QED
  BY <1>4, <1>5, <1>6, <1>7

-----------------------------------------------------------------------------
(* Most steps leave the rooms alone: the relaying ones, which start and end *)
(* between a greeting and leaving, and the writers'.                        *)
Middle == {"greet", "ready", "relay", "peer", "push", "pong", "drain", "leave"}

Relaying(c) ==
    /\ UNCHANGED <<roomVars, empty>>
    /\ pc[c] \in Middle /\ pc'[c] \in Middle
    /\ \A d \in Conns \ {c} : pc'[d] = pc[d] /\ room'[d] = room[d]
    /\ room'[c] \in {room[c], registry}

RoomsAlone == UNCHANGED <<roomVars, pc, room, empty>>

LEMMA RelayingSteps ==
    ASSUME TypeOK, NEW c \in Conns,
           \/ \E w \in 0 .. 2 : Greet(c, w)
           \/ Announce(c) \/ Forward(c) \/ ReadEnd(c) \/ WriterDone(c)
    PROVE  Relaying(c)
<1> USE DEF Goto, Places, Relaying, Middle, roomVars
<1>1. pc \in [Conns -> Places] /\ room \in [Conns -> Maybe]
  BY DEF TypeOK, ReaderTypes
<1>2. ASSUME NEW w \in 0 .. 2, Greet(c, w) PROVE Relaying(c)
  BY <1>1, <1>2 DEF Greet
<1>3. CASE Announce(c) \/ ReadEnd(c) \/ WriterDone(c)
  BY <1>1, <1>3 DEF Announce, ReadEnd, WriterDone
<1>4. CASE Forward(c)
  BY <1>1, <1>4 DEF Forward, ReadInput, PeerOf, Push, ReadPing, SendPong
<1> QED
  BY <1>2, <1>3, <1>4

LEMMA WriterSteps ==
    ASSUME NEW c \in Conns, Writer(c)
    PROVE  RoomsAlone
  BY DEF Writer, Write, StopWriter, RoomsAlone, roomVars

LEMMA HoldingKept ==
    ASSUME TypeOK, Holding, NEW c \in Conns, Join(c) \/ Forward(c) \/ Writer(c) \/ Leave(c)
    PROVE  Holding'
<1> USE DEF Goto, Places, Maybe, Holding
<1>1. /\ pc \in [Conns -> Places] /\ room \in [Conns -> Maybe] /\ other \in [Conns -> Maybe]
      /\ spoke \in [Conns -> 0 .. MaxFrames] /\ inhand \in [Conns -> Frames \cup {None}]
      /\ registry \in Maybe /\ host \in [Conns -> Maybe] /\ client \in [Conns -> Maybe]
  BY DEF TypeOK, ReaderTypes, RoomTypes
<1>2. CASE FindRoom(c)
  BY <1>1, <1>2 DEF FindRoom
<1>3. CASE TakeSeat(c)
  BY <1>1, <1>3 DEF TakeSeat
<1>4. ASSUME NEW w \in 0 .. 2, Greet(c, w) PROVE Holding'
  BY <1>1, <1>4 DEF Greet
<1>5. CASE Announce(c) \/ Push(c) \/ SendPong(c)
  BY <1>1, <1>5 DEF Announce, Push, SendPong
<1>6. CASE ReadInput(c)
  BY <1>1, <1>6, RelayAssumption DEF ReadInput
<1>7. CASE PeerOf(c)
  BY <1>1, <1>7 DEF PeerOf
<1>8. CASE ReadPing(c)
  BY <1>1, <1>8 DEF ReadPing
<1>9. CASE Writer(c)
  BY <1>9 DEF Writer, Write, StopWriter
<1>10. CASE ReadEnd(c) \/ WriterDone(c) \/ FindRoomToLeave(c)
  BY <1>1, <1>10 DEF ReadEnd, WriterDone, FindRoomToLeave
<1>11. CASE Vacate(c) \/ Inform(c) \/ Reap(c)
  BY <1>1, <1>11 DEF Vacate, Inform, Reap
<1> QED
  BY <1>2, <1>3, <1>4, <1>5, <1>6, <1>7, <1>8, <1>9, <1>10, <1>11 DEF Join, Forward, Leave

(* A room is seen only once its creator has made it. *)
LEMMA FreshKept ==
    ASSUME TypeOK, Holding, Fresh, NEW c \in Conns, Join(c) \/ Forward(c) \/ Writer(c) \/ Leave(c)
    PROVE  Fresh'
<1> USE DEF Goto, Places, Maybe, Fresh
<1>1. /\ pc \in [Conns -> Places] /\ room \in [Conns -> Maybe]
      /\ registry \in Maybe /\ host \in [Conns -> Maybe] /\ client \in [Conns -> Maybe]
      /\ None \notin Conns
  BY RelayAssumption DEF TypeOK, ReaderTypes, RoomTypes
<1>2. CASE FindRoom(c)
  BY <1>1, <1>2 DEF FindRoom
<1>3. CASE TakeSeat(c)
  BY <1>1, <1>3 DEF TakeSeat
<1>4. CASE Relaying(c)
  BY <1>1, <1>4 DEF Relaying, Middle, roomVars
<1>5. CASE RoomsAlone
  BY <1>5 DEF RoomsAlone, roomVars
<1>6. CASE FindRoomToLeave(c) \/ Inform(c) \/ Reap(c)
  BY <1>1, <1>6 DEF FindRoomToLeave, Inform, Reap, roomVars
<1>7. CASE Vacate(c)
  BY <1>1, <1>7 DEF Vacate, Holding
<1> QED
  BY <1>2, <1>3, <1>4, <1>5, <1>6, <1>7, RelayingSteps, WriterSteps DEF Join, Leave

LEMMA SeatedKept ==
    ASSUME TypeOK, Holding, Fresh, Seated, NEW c \in Conns,
           Join(c) \/ Forward(c) \/ Writer(c) \/ Leave(c)
    PROVE  Seated'
<1> USE DEF Goto, Places, Maybe, Seated
<1>1. /\ pc \in [Conns -> Places] /\ room \in [Conns -> Maybe]
      /\ registry \in Maybe /\ host \in [Conns -> Maybe] /\ client \in [Conns -> Maybe]
      /\ None \notin Conns
  BY RelayAssumption DEF TypeOK, ReaderTypes, RoomTypes
<1>2. CASE FindRoom(c)
  BY <1>1, <1>2 DEF FindRoom, Fresh
<1>3. CASE TakeSeat(c)
  BY <1>1, <1>3 DEF TakeSeat, Holding
<1>4. CASE Relaying(c)
  BY <1>1, <1>4 DEF Relaying, Middle, roomVars
<1>5. CASE RoomsAlone
  BY <1>5 DEF RoomsAlone, roomVars
<1>6. CASE FindRoomToLeave(c) \/ Inform(c) \/ Reap(c)
  BY <1>1, <1>6 DEF FindRoomToLeave, Inform, Reap, roomVars
<1>7. CASE Vacate(c)
  BY <1>1, <1>7 DEF Vacate, Holding
<1> QED
  BY <1>2, <1>3, <1>4, <1>5, <1>6, <1>7, RelayingSteps, WriterSteps DEF Join, Leave

(* Somebody always sees to the room that is in the map. *)
LEMMA WatchedKept ==
    ASSUME TypeOK, Holding, Watched, NEW c \in Conns,
           Join(c) \/ Forward(c) \/ Writer(c) \/ Leave(c)
    PROVE  Watched'
<1> USE DEF Goto, Places, Maybe, Watched, Sweeper
<1>1. /\ pc \in [Conns -> Places] /\ room \in [Conns -> Maybe] /\ empty \in [Conns -> BOOLEAN]
      /\ registry \in Maybe /\ host \in [Conns -> Maybe] /\ client \in [Conns -> Maybe]
      /\ auth \in [Conns -> {None} \cup {Password[d] : d \in Conns}]
      /\ None \notin Conns
  BY RelayAssumption DEF TypeOK, ReaderTypes, RoomTypes
<1>2. CASE FindRoom(c)
  BY <1>1, <1>2 DEF FindRoom
<1>3. CASE TakeSeat(c)
  BY <1>1, <1>3 DEF TakeSeat, Holding
<1>4. CASE Relaying(c)
  BY <1>1, <1>4 DEF Relaying, Middle, roomVars
<1>5. CASE RoomsAlone
  BY <1>5 DEF RoomsAlone, roomVars
<1>6. CASE FindRoomToLeave(c) \/ Inform(c) \/ Reap(c)
  BY <1>1, <1>6 DEF FindRoomToLeave, Inform, Reap, roomVars
<1>7. CASE Vacate(c)
  <2>1. /\ room[c] \in Conns /\ UNCHANGED <<registry, auth, room>>
        /\ \A r \in Conns \ {room[c]} : host'[r] = host[r] /\ client'[r] = client[r]
    BY <1>1, <1>7 DEF Vacate, Holding
  <2>2. /\ pc' = [pc EXCEPT ![c] = "inform"] /\ pc[c] = "vacate"
        /\ empty'[c] = (host'[room[c]] = None /\ client'[room[c]] = None)
        /\ \A d \in Conns \ {c} : empty'[d] = empty[d]
    BY <1>1, <1>7, <2>1 DEF Vacate
  <2>3. CASE registry = room[c]
    <3>1. host'[room[c]] # None \/ client'[room[c]] # None \/ (pc'[c] = "inform" /\ empty'[c])
      BY <1>1, <2>2
    <3> QED
      BY <2>1, <2>3, <3>1
  <2>4. CASE registry # None /\ registry # room[c]
    BY <1>1, <2>1, <2>2, <2>4
  <2> QED
    BY <2>1, <2>3, <2>4
<1> QED
  BY <1>2, <1>3, <1>4, <1>5, <1>6, <1>7, RelayingSteps, WriterSteps DEF Join, Leave

-----------------------------------------------------------------------------
Silent(f) == f.type # "INPUT"

LEMMA SilentPrecedes == \A f, g : Silent(f) \/ Silent(g) => Precedes(f, g)
  BY DEF Silent, Precedes, Says

LEMMA SilentFrames == Silent(Hello) /\ Silent(Pong) /\ Silent(Bye) /\ \A c : Silent(Ready(c))
  BY DEF Silent, Hello, Pong, Bye, Ready

LEMMA QueueLast ==
    ASSUME NEW p \in Seq(Frames), NEW q \in Seq(Frames), NEW f \in Frames, Line(p, q),
           \A i \in 1 .. Len(p) : Precedes(p[i], f),
           \A i \in 1 .. Len(q) : Precedes(q[i], f)
    PROVE  Line(p, Append(q, f))
<1> DEFINE r == Append(q, f)
<1>1. /\ r \in Seq(Frames) /\ Len(r) = Len(q) + 1 /\ Len(q) \in Nat
      /\ \A i \in 1 .. Len(q) : r[i] = q[i]
      /\ r[Len(q) + 1] = f
  OBVIOUS
<1> HIDE DEF r
<1>2. Ordered(r)
  BY <1>1 DEF Ordered, Line
<1>3. Follows(p, r)
  BY <1>1 DEF Follows, Line
<1> QED
  BY <1>2, <1>3 DEF Line, r

LEMMA HeadAndTail ==
    ASSUME NEW p \in Seq(Frames), NEW q \in Seq(Frames), q # << >>
    PROVE  /\ 1 \in 1 .. Len(q)
           /\ \A i \in 1 .. Len(Tail(q)) : i + 1 \in 1 .. Len(q) /\ Tail(q)[i] = q[i + 1]
           /\ \A i \in 1 .. Len(Append(p, Head(q))) :
                 \/ i \in 1 .. Len(p) /\ Append(p, Head(q))[i] = p[i]
                 \/ Append(p, Head(q))[i] = q[1]
<1>1. /\ Len(q) \in Nat /\ Len(q) > 0 /\ Len(Tail(q)) = Len(q) - 1
      /\ \A i \in 1 .. Len(Tail(q)) : Tail(q)[i] = q[i + 1]
      /\ Head(q) = q[1]
  OBVIOUS
<1>2. /\ Len(p) \in Nat /\ Len(Append(p, Head(q))) = Len(p) + 1
      /\ \A i \in 1 .. Len(p) : Append(p, Head(q))[i] = p[i]
      /\ Append(p, Head(q))[Len(p) + 1] = Head(q)
  BY <1>1
<1>3. \A i \in 1 .. Len(Tail(q)) : i + 1 \in 1 .. Len(q)
  BY <1>1
<1>4. \A i \in 1 .. Len(p) + 1 : i \in 1 .. Len(p) \/ i = Len(p) + 1
  BY <1>2
<1> QED
  BY <1>1, <1>2, <1>3, <1>4

LEMMA HearHead ==
    ASSUME NEW p \in Seq(Frames), NEW q \in Seq(Frames), q # << >>, Line(p, q)
    PROVE  Line(Append(p, Head(q)), Tail(q)) /\ Line(p, Tail(q))
<1> DEFINE r == Append(p, Head(q))
           t == Tail(q)
<1>1. /\ Len(q) \in Nat /\ Len(q) > 0 /\ Len(t) = Len(q) - 1
      /\ \A i \in 1 .. Len(t) : t[i] = q[i + 1]
      /\ Head(q) = q[1]
  OBVIOUS
<1>2. /\ Len(p) \in Nat /\ Len(r) = Len(p) + 1 /\ r[Len(p) + 1] = Head(q)
      /\ \A i \in 1 .. Len(p) : r[i] = p[i]
  BY <1>1
<1> HIDE DEF r, t
<1>3. /\ \A i, j \in 1 .. Len(p) : i < j => Precedes(p[i], p[j])
      /\ \A i, j \in 1 .. Len(q) : i < j => Precedes(q[i], q[j])
      /\ \A i \in 1 .. Len(p), j \in 1 .. Len(q) : Precedes(p[i], q[j])
  BY DEF Line, Ordered, Follows
<1>4. Ordered(t)
  <2> SUFFICES ASSUME NEW i \in 1 .. Len(t), NEW j \in 1 .. Len(t), i < j
               PROVE  Precedes(t[i], t[j])
    BY DEF Ordered
  <2>1. i + 1 \in 1 .. Len(q) /\ j + 1 \in 1 .. Len(q) /\ i + 1 < j + 1
    BY <1>1
  <2> QED
    BY <1>1, <1>3, <2>1
<1>5. Follows(p, t)
  <2> SUFFICES ASSUME NEW i \in 1 .. Len(p), NEW j \in 1 .. Len(t)
               PROVE  Precedes(p[i], t[j])
    BY DEF Follows
  <2>1. j + 1 \in 1 .. Len(q)
    BY <1>1
  <2> QED
    BY <1>1, <1>3, <2>1
<1>6. Ordered(r)
  <2> SUFFICES ASSUME NEW i \in 1 .. Len(r), NEW j \in 1 .. Len(r), i < j
               PROVE  Precedes(r[i], r[j])
    BY DEF Ordered
  <2>1. i \in 1 .. Len(p) + 1 /\ j \in 1 .. Len(p) + 1
    BY <1>2
  <2>2. i \in 1 .. Len(p) /\ (j \in 1 .. Len(p) \/ j = Len(p) + 1)
    BY <1>2, <2>1
  <2>3. 1 \in 1 .. Len(q)
    BY <1>1
  <2> QED
    BY <1>1, <1>2, <1>3, <2>2, <2>3
<1>7. Follows(r, t)
  <2> SUFFICES ASSUME NEW i \in 1 .. Len(r), NEW j \in 1 .. Len(t)
               PROVE  Precedes(r[i], t[j])
    BY DEF Follows
  <2>1. (i \in 1 .. Len(p) \/ i = Len(p) + 1) /\ 1 \in 1 .. Len(q)
        /\ j + 1 \in 1 .. Len(q) /\ 1 < j + 1
    BY <1>1, <1>2
  <2> QED
    BY <1>1, <1>2, <1>3, <2>1
<1> QED
  BY <1>3, <1>4, <1>5, <1>6, <1>7 DEF Line, Ordered, r, t

LEMMA HearSilent ==
    ASSUME NEW p \in Seq(Frames), NEW q \in Seq(Frames), NEW l \in Seq(Frames), Line(p, q),
           \A i \in 1 .. Len(l) : Silent(l[i])
    PROVE  Line(p \o l, q)
<1> DEFINE r == p \o l
<1>1. /\ Len(p) \in Nat /\ Len(l) \in Nat /\ Len(r) = Len(p) + Len(l)
      /\ \A i \in 1 .. Len(r) : r[i] = IF i <= Len(p) THEN p[i] ELSE l[i - Len(p)]
  BY ConcatProperties
<1> HIDE DEF r
<1>2. \A i \in 1 .. Len(r) : (i \in 1 .. Len(p) /\ r[i] = p[i]) \/ Silent(r[i])
  BY <1>1
<1>3. Ordered(r)
  BY <1>1, <1>2, SilentPrecedes DEF Ordered, Line
<1>4. Follows(r, q)
  BY <1>2, SilentPrecedes DEF Follows, Line
<1> QED
  BY <1>3, <1>4 DEF Line, r

(* Nobody's input is taken back. *)
LEMMA ToldGrows ==
    ASSUME TypeOK, NEW c \in Conns, Join(c) \/ Forward(c) \/ Writer(c) \/ Leave(c)
    PROVE  \A d \in Conns : Told(d) <= Told(d)' /\ Told(d) \in Int /\ Told(d)' \in Int
<1> USE DEF Goto, Places, Told
<1>1. pc \in [Conns -> Places] /\ spoke \in [Conns -> 0 .. MaxFrames] /\ MaxFrames \in Nat
  BY RelayAssumption DEF TypeOK, ReaderTypes
<1>2. CASE FindRoom(c) \/ TakeSeat(c)
  BY <1>1, <1>2 DEF FindRoom, TakeSeat
<1>3. ASSUME NEW w \in 0 .. 2, Greet(c, w)
      PROVE  \A d \in Conns : Told(d) <= Told(d)' /\ Told(d) \in Int /\ Told(d)' \in Int
  BY <1>1, <1>3 DEF Greet
<1>4. CASE Announce(c) \/ Push(c) \/ SendPong(c)
  BY <1>1, <1>4 DEF Announce, Push, SendPong
<1>5. CASE ReadInput(c) \/ PeerOf(c) \/ ReadPing(c)
  BY <1>1, <1>5 DEF ReadInput, PeerOf, ReadPing
<1>6. CASE Writer(c)
  BY <1>1, <1>6 DEF Writer, Write, StopWriter
<1>7. CASE Leave(c)
  BY <1>1, <1>7 DEF Leave, ReadEnd, WriterDone, FindRoomToLeave, Vacate, Inform, Reap
<1> QED
  BY <1>2, <1>3, <1>4, <1>5, <1>6, <1>7 DEF Join, Forward

LEMMA FrameNumbers == \A q \in Seq(Frames) : \A i \in 1 .. Len(q) : q[i].n \in Nat
<1>1. \A f \in Frames : f.n \in Nat
  BY RelayAssumption DEF Frames, Hello, Pong, Bye, Ready, Input
<1> QED
  BY <1>1

LEMMA ToldRises ==
    ASSUME TypeOK, NEW c \in Conns, Join(c) \/ Forward(c) \/ Writer(c) \/ Leave(c),
           NEW q \in Seq(Frames), OnlyTold(q)
    PROVE  \A i \in 1 .. Len(q), b \in Conns : Says(q[i], b) => q[i].n <= Told(b)'
<1>1. \A d \in Conns : Told(d) <= Told(d)' /\ Told(d) \in Int /\ Told(d)' \in Int
  BY ToldGrows
<1> QED
  BY <1>1, FrameNumbers DEF OnlyTold

(* One more frame at the end of c's queue. *)
LEMMA InLineSend ==
    ASSUME TypeOK, InLine, NEW c \in Conns, Join(c) \/ Forward(c) \/ Writer(c) \/ Leave(c),
           NEW d \in Conns, NEW f \in Frames, SendOrDone(d, f), UNCHANGED got,
           \A i \in 1 .. Len(got[d]) : Precedes(got[d][i], f),
           \A i \in 1 .. Len(out[d]) : Precedes(out[d][i], f),
           \A e \in Conns : Says(f, e) => f.n <= Told(e)'
    PROVE  InLine'
<1>1. \A e \in Conns : out[e] \in Seq(Frames) /\ got[e] \in Seq(Frames)
  BY DEF TypeOK, LineTypes
<1>2. \A e \in Conns : out'[e] = out[e] \/ (e = d /\ out'[e] = Append(out[e], f))
  BY Sending
<1> SUFFICES ASSUME NEW e \in Conns
             PROVE  Line(got[e], out'[e]) /\ OnlyTold(got[e])' /\ OnlyTold(out[e])'
  BY DEF InLine
<1>3. Line(got[e], out[e]) /\ OnlyTold(got[e]) /\ OnlyTold(out[e])
  BY DEF InLine
<1>4. /\ \A i \in 1 .. Len(got[e]), b \in Conns : Says(got[e][i], b) => got[e][i].n <= Told(b)'
      /\ \A i \in 1 .. Len(out[e]), b \in Conns : Says(out[e][i], b) => out[e][i].n <= Told(b)'
  <2>1. ASSUME NEW q \in Seq(Frames), OnlyTold(q)
        PROVE  \A i \in 1 .. Len(q), b \in Conns : Says(q[i], b) => q[i].n <= Told(b)'
    BY <2>1, ToldRises
  <2> QED
    BY <1>1, <1>3, <2>1
<1>5. OnlyTold(got[e])'
  BY <1>4 DEF OnlyTold
<1>6. CASE out'[e] = out[e]
  BY <1>3, <1>4, <1>5, <1>6 DEF OnlyTold
<1>7. CASE e = d /\ out'[e] = Append(out[e], f)
  <2>1. Line(got[e], out'[e])
    BY <1>1, <1>3, <1>7, QueueLast
  <2>2. OnlyTold(out[e])'
    BY <1>1, <1>4, <1>7 DEF OnlyTold
  <2> QED
    BY <1>5, <2>1, <2>2
<1> QED
  BY <1>2, <1>6, <1>7

LEMMA InLineKept ==
    ASSUME TypeOK, Holding, InLine, NEW c \in Conns, Join(c) \/ Forward(c) \/ Writer(c) \/ Leave(c)
    PROVE  InLine'
<1>1. \A e \in Conns : out[e] \in Seq(Frames) /\ got[e] \in Seq(Frames)
  BY DEF TypeOK, LineTypes
<1>2. ASSUME NEW q \in Seq(Frames), OnlyTold(q)
      PROVE  \A i \in 1 .. Len(q), b \in Conns : Says(q[i], b) => q[i].n <= Told(b)'
  BY <1>2, ToldRises
<1>3. CASE UNCHANGED <<got, out>>
  BY <1>1, <1>2, <1>3 DEF InLine, OnlyTold
<1>4. ASSUME NEW d \in Conns, NEW f \in Frames, SendOrDone(d, f), UNCHANGED got, Silent(f)
      PROVE  InLine'
  BY <1>4, SilentPrecedes, InLineSend DEF Silent, Says
<1>5. CASE Push(c)
  <2>1. /\ other[c] \in Conns /\ inhand[c] = Input(c, spoke[c]) /\ spoke[c] \in 1 .. MaxFrames
        /\ pc[c] = "push" /\ pc'[c] = "relay" /\ UNCHANGED <<spoke, got>>
    BY <1>5, RelayAssumption DEF Push, Holding, TypeOK, ReaderTypes, Goto, Places
  <2>2. CASE UNCHANGED out
    BY <1>3, <2>1, <2>2
  <2>3. CASE SendOrDone(other[c], inhand[c])
    <3>1. Told(c) = spoke[c] - 1 /\ Told(c)' = spoke[c]
      BY <2>1 DEF Told
    <3>2. ASSUME NEW q \in Seq(Frames), OnlyTold(q)
          PROVE  \A i \in 1 .. Len(q) : Precedes(q[i], inhand[c])
      <4> SUFFICES ASSUME NEW i \in 1 .. Len(q), Says(q[i], c) PROVE q[i].n < spoke[c]
        BY <2>1 DEF Precedes, Says, Input
      <4>1. q[i].n <= spoke[c] - 1 /\ q[i].n \in Nat
        BY <3>1, <3>2, FrameNumbers DEF OnlyTold
      <4> QED
        BY <2>1, <4>1
    <3>3. \A e \in Conns : Says(inhand[c], e) => inhand[c].n <= Told(e)'
      BY <2>1, <3>1 DEF Says, Input
    <3>4. inhand[c] \in Frames
      BY <2>1, FrameKinds
    <3> QED
      BY <1>1, <2>1, <2>3, <3>2, <3>3, <3>4, InLineSend DEF InLine
  <2> QED
    BY <1>5, <2>2, <2>3 DEF Push
<1>6. CASE Announce(c) \/ SendPong(c)
  <2>1. Announce(c) => other[c] \in Conns
    BY DEF Holding, Announce
  <2> QED
    BY <1>4, <1>6, <2>1, FrameKinds, SilentFrames DEF Announce, SendPong
<1>7. CASE Inform(c)
  <2>1. other[c] \in Conns \/ other[c] = None
    BY DEF TypeOK, ReaderTypes, Maybe
  <2> QED
    BY <1>3, <1>4, <1>7, <2>1, FrameKinds, SilentFrames DEF Inform
<1>8. ASSUME NEW w \in 0 .. 2, Greet(c, w) PROVE InLine'
  <2> DEFINE l == SubSeq(Lines(c), 1, w)
  <2>1. l \in Seq(Frames) /\ \A i \in 1 .. Len(l) : Silent(l[i])
    BY <1>8, GreetLines DEF Greet, Lines, Silent
  <2>2. UNCHANGED out /\ got' = [got EXCEPT ![c] = got[c] \o l]
    BY <1>8 DEF Greet, Lines
  <2> HIDE DEF l
  <2> SUFFICES ASSUME NEW e \in Conns
               PROVE  Line(got'[e], out[e]) /\ OnlyTold(got[e])' /\ OnlyTold(out[e])'
    BY <2>2 DEF InLine
  <2>3. Line(got[e], out[e]) /\ OnlyTold(got[e]) /\ OnlyTold(out[e])
    BY DEF InLine
  <2>4. OnlyTold(out[e])'
    BY <1>1, <1>2, <2>2, <2>3 DEF OnlyTold
  <2>5. got'[e] = got[e] \/ (e = c /\ got'[e] = got[c] \o l)
    BY <2>2 DEF TypeOK, LineTypes
  <2>6. CASE got'[e] = got[e]
    BY <1>1, <1>2, <2>3, <2>4, <2>6 DEF OnlyTold
  <2>7. CASE e = c /\ got'[e] = got[c] \o l
    <3>1. Line(got'[e], out[e])
      BY <1>1, <2>1, <2>3, <2>7, HearSilent
    <3>2. \A i \in 1 .. Len(got'[e]) : (i \in 1 .. Len(got[e]) /\ got'[e][i] = got[e][i]) \/ Silent(got'[e][i])
      BY <1>1, <2>1, <2>7, ConcatProperties
    <3>3. \A i \in 1 .. Len(got[e]), b \in Conns : Says(got[e][i], b) => got[e][i].n <= Told(b)'
      BY <1>1, <1>2, <2>3
    <3>4. OnlyTold(got[e])'
      BY <3>2, <3>3 DEF OnlyTold, Silent, Says
    <3> QED
      BY <2>4, <3>1, <3>4
  <2> QED
    BY <2>5, <2>6, <2>7
<1>9. ASSUME NEW ok \in BOOLEAN, Write(c, ok) PROVE InLine'
  <2>1. /\ out[c] # << >> /\ out' = [out EXCEPT ![c] = Tail(out[c])]
        /\ \/ got' = [got EXCEPT ![c] = Append(got[c], Head(out[c]))]
           \/ UNCHANGED got
    BY <1>9 DEF Write
  <2> SUFFICES ASSUME NEW e \in Conns
               PROVE  Line(got'[e], out'[e]) /\ OnlyTold(got[e])' /\ OnlyTold(out[e])'
    BY DEF InLine
  <2>2. Line(got[e], out[e]) /\ OnlyTold(got[e]) /\ OnlyTold(out[e])
    BY DEF InLine
  <2>3. /\ \A i \in 1 .. Len(got[e]), b \in Conns : Says(got[e][i], b) => got[e][i].n <= Told(b)'
        /\ \A i \in 1 .. Len(out[e]), b \in Conns : Says(out[e][i], b) => out[e][i].n <= Told(b)'
    BY <1>1, <1>2, <2>2
  <2>4. CASE e # c
    <3>1. out'[e] = out[e] /\ got'[e] = got[e]
      BY <2>1, <2>4 DEF TypeOK, LineTypes
    <3> QED
      BY <2>2, <2>3, <3>1 DEF OnlyTold
  <2>5. CASE e = c
    <3>1. out'[c] = Tail(out[c]) /\ (got'[c] = got[c] \/ got'[c] = Append(got[c], Head(out[c])))
      BY <2>1 DEF TypeOK, LineTypes
    <3>2. Line(got'[c], out'[c])
      BY <1>1, <2>1, <2>2, <2>5, <3>1, HearHead
    <3>0. /\ 1 \in 1 .. Len(out[c])
          /\ \A i \in 1 .. Len(Tail(out[c])) : i + 1 \in 1 .. Len(out[c]) /\ Tail(out[c])[i] = out[c][i + 1]
          /\ \A i \in 1 .. Len(Append(got[c], Head(out[c]))) :
                 \/ i \in 1 .. Len(got[c]) /\ Append(got[c], Head(out[c]))[i] = got[c][i]
                 \/ Append(got[c], Head(out[c]))[i] = out[c][1]
      BY <1>1, <2>1, HeadAndTail
    <3>3. \A i \in 1 .. Len(out'[c]) : i + 1 \in 1 .. Len(out[c]) /\ out'[c][i] = out[c][i + 1]
      BY <3>0, <3>1
    <3>4. OnlyTold(out[c])'
      BY <2>3, <2>5, <3>3 DEF OnlyTold
    <3>5. \A i \in 1 .. Len(got'[c]) :
              \/ i \in 1 .. Len(got[c]) /\ got'[c][i] = got[c][i]
              \/ 1 \in 1 .. Len(out[c]) /\ got'[c][i] = out[c][1]
      BY <3>0, <3>1
    <3>6. OnlyTold(got[c])'
      BY <2>3, <2>5, <3>5 DEF OnlyTold
    <3> QED
      BY <2>5, <3>2, <3>4, <3>6
  <2> QED
    BY <2>4, <2>5
<1>10. CASE \/ FindRoom(c) \/ TakeSeat(c) \/ ReadInput(c) \/ PeerOf(c) \/ ReadPing(c) \/ StopWriter(c)
            \/ ReadEnd(c) \/ WriterDone(c) \/ FindRoomToLeave(c) \/ Vacate(c) \/ Reap(c)
  BY <1>3, <1>10 DEF FindRoom, TakeSeat, ReadInput, PeerOf, ReadPing, StopWriter, ReadEnd,
     WriterDone, FindRoomToLeave, Vacate, Reap
<1> QED
  BY <1>5, <1>6, <1>7, <1>8, <1>9, <1>10 DEF Join, Forward, Writer, Leave

-----------------------------------------------------------------------------
LEMMA RelayInvInit == Init => RelayInv
<1> SUFFICES ASSUME Init PROVE RelayInv
  OBVIOUS
<1>1. Holding /\ Fresh /\ Seated /\ Watched
  BY RelayAssumption DEF Init, Holding, Fresh, Seated, Watched
<1>2. \A c \in Conns : got[c] = << >> /\ out[c] = << >>
  BY DEF Init
<1>3. Line(<< >>, << >>) /\ OnlyTold(<< >>)
  BY DEF Line, Ordered, Follows, OnlyTold
<1>4. InLine
  BY <1>2, <1>3 DEF InLine
<1> QED
  BY <1>1, <1>4, TypeInit DEF RelayInv

LEMMA RelayInvStep == RelayInv /\ [Next]_vars => RelayInv'
<1> SUFFICES ASSUME RelayInv, [Next]_vars PROVE RelayInv'
  OBVIOUS
<1>1. CASE UNCHANGED vars
  BY <1>1 DEF RelayInv, vars, roomVars, TypeOK, RoomTypes, ReaderTypes, LineTypes, Holding, Fresh,
     Seated, Watched, Sweeper, InLine, OnlyTold, Told
<1>2. ASSUME NEW c \in Conns, Join(c) \/ Forward(c) \/ Writer(c) \/ Leave(c) PROVE RelayInv'
  <2>1. TypeOK'
    BY <1>2, TypeRooms, TypeQueues, TypeReader DEF RelayInv, Join, Forward, Writer, Leave
  <2>2. Holding' /\ Fresh'
    BY <1>2, HoldingKept, FreshKept DEF RelayInv
  <2>3. Seated' /\ Watched'
    BY <1>2, SeatedKept, WatchedKept DEF RelayInv
  <2>4. InLine'
    BY <1>2, InLineKept DEF RelayInv
  <2> QED
    BY <2>1, <2>2, <2>3, <2>4 DEF RelayInv
<1> QED
  BY <1>1, <1>2 DEF Next, Over

LEMMA RelayInvariant == Spec => []RelayInv
  BY RelayInvInit, RelayInvStep, PTL DEF Spec

(* The types of the relay's state, and no queue longer than its channel.     *)
THEOREM RelayTypeCorrect == Spec => []TypeOK
<1>1. RelayInv => TypeOK
  BY DEF RelayInv
<1> QED
  BY <1>1, RelayInvariant, PTL

(* peerOf, forward, the writer: what a client hears from another is in the   *)
(* order it was said, nothing twice.                                         *)
THEOREM RelayKeepsOrder == Spec => []InOrder
<1>1. RelayInv => InOrder
  BY DEF RelayInv, InLine, Line, Ordered, InOrder
<1> QED
  BY <1>1, RelayInvariant, PTL

(* leaveRoom: once everybody has gone, no room is left in the map, however   *)
(* the comings and goings took the two locks.                                *)
THEOREM NoRoomLeaks == Spec => []RoomsReclaimed
<1>1. RelayInv => RoomsReclaimed
  <2> SUFFICES ASSUME RelayInv, \A c \in Conns : pc[c] = "gone", registry # None PROVE FALSE
    BY DEF RoomsReclaimed
  <2>1. registry \in Conns /\ host[registry] \in Maybe /\ client[registry] \in Maybe
    BY DEF RelayInv, TypeOK, RoomTypes, Maybe
  <2>2. PICK c \in Conns : host[registry] = c \/ client[registry] = c \/ Sweeper(c)
    BY <2>1 DEF RelayInv, Watched, Maybe
  <2> QED
    BY <2>1, <2>2 DEF RelayInv, Seated, Sweeper
<1> QED
  BY <1>1, RelayInvariant, PTL

(* leaveRoom: a seat of the room in the map never belongs to a connection    *)
(* that has finished leaving it.                                             *)
THEOREM SeatsAreAlive == Spec => []NoGhostSeats
<1>1. RelayInv => NoGhostSeats
  BY DEF RelayInv, Seated, NoGhostSeats, TypeOK, RoomTypes, Maybe
<1> QED
  BY <1>1, RelayInvariant, PTL

-----------------------------------------------------------------------------
(* Announcements, which only a pair of connections can rely on.             *)

(* Two connections, and writes that do not fail. *)
JustAPair == Faulty = {} /\ \A a, b, c \in Conns : a = b \/ b = c \/ a = c

Early == {"join", "seat"} \cup Middle

(* As long as nobody has left, everybody is in the room of the map, and the *)
(* second seat was not taken before the first.                              *)
Together ==
    (\A e \in Conns : pc[e] \in Early) =>
        /\ \A e \in Conns : pc[e] = "seat" => room[e] = registry
        /\ \A e \in Conns : pc[e] \in Middle =>
              registry # None /\ (host[registry] = e \/ client[registry] = e)
        /\ registry # None /\ client[registry] # None => host[registry] # None

(* Nobody has two seats, or is its own peer. *)
Two == /\ \A r \in Conns : host[r] # None => host[r] # client[r]
       /\ \A c \in Conns : other[c] # c

(* Who has a seat, or a frame coming, is relaying or has hung up. *)
HungUp(c) == pc[c] \in Middle \/ done[c]

DoneLeaving == \A c \in Conns : pc[c] \in {"drain", "leave", "vacate", "inform", "reap"} => done[c]
SeatedUp == \A c, r \in Conns : host[r] = c \/ client[r] = c => HungUp(c)
PushedUp == \A c \in Conns : pc[c] = "push" => HungUp(other[c])
WriterLate == \A c \in Conns : pc[c] \in {"join", "seat", "greet", "ready"} => writer[c] = "none"
Parted == DoneLeaving /\ SeatedUp /\ PushedUp /\ WriterLate

(* c has been told of d, or will be before it is sent anything. *)
Knows(c, d) ==
    \/ done[c]
    \/ pc[c] = "greet" /\ other[c] = d
    \/ \E i \in 1 .. Len(got[c]) : got[c][i] = Ready(d)
    \/ \E i \in 1 .. Len(out[c]) : out[c][i] = Ready(d)

(* The guest knows the host from the start, the host knows the guest before *)
(* the guest relays.                                                        *)
Met ==
    registry # None =>
        \A c, d \in Conns :
            host[registry] = d /\ client[registry] = c /\ pc[c] \in Middle /\ pc[d] \in Middle =>
                /\ Knows(c, d)
                /\ IF pc[c] \in {"greet", "ready"} THEN other[c] = d ELSE Knows(d, c)

(* Every input c is to hear comes after the announcement. *)
Marked ==
    \A c, d \in Conns : ~done[c] =>
        /\ \A i \in 1 .. Len(got[c]) : Says(got[c][i], d) => \E j \in 1 .. i - 1 : got[c][j] = Ready(d)
        /\ \A i \in 1 .. Len(out[c]) : Says(out[c][i], d) =>
              \/ pc[c] = "greet" /\ other[c] = d
              \/ \E j \in 1 .. Len(got[c]) : got[c][j] = Ready(d)
              \/ \E j \in 1 .. i - 1 : out[c][j] = Ready(d)

PairInv == Together /\ Two /\ Parted /\ Met /\ Marked

Steps(x) == Join(x) \/ Forward(x) \/ Writer(x) \/ Leave(x)

(* Where writes do not fail the greeting is complete. *)
LEMMA GreetAll ==
    ASSUME Faulty = {}, NEW c, NEW w \in 0 .. 2, Greet(c, w)
    PROVE  w = Len(Lines(c)) /\ w \in 1 .. 2 /\ (other[c] # None => w = 2)
<1>1. /\ other[c] = None => Len(Lines(c)) = 1
      /\ other[c] # None => Len(Lines(c)) = 2
  BY DEF Lines
<1>2. w <= Len(Lines(c)) /\ ~(w < Len(Lines(c)))
  BY DEF Greet, Lines
<1> QED
  BY <1>1, <1>2

LEMMA TwoKept ==
    ASSUME RelayInv, Two, NEW x \in Conns, Steps(x)
    PROVE  Two'
<1> USE DEF Two
<1>1. /\ room \in [Conns -> Maybe] /\ other \in [Conns -> Maybe]
      /\ host \in [Conns -> Maybe] /\ client \in [Conns -> Maybe]
      /\ None \notin Conns /\ Holding /\ Seated
  BY RelayAssumption DEF RelayInv, TypeOK, ReaderTypes, RoomTypes
<1>2. CASE UNCHANGED <<host, client, other>>
  BY <1>2
<1>3. CASE TakeSeat(x)
  BY <1>1, <1>3 DEF TakeSeat, Holding, Seated, Maybe
<1>4. CASE PeerOf(x)
  BY <1>1, <1>4 DEF PeerOf, Holding, Maybe, roomVars
<1>5. CASE Vacate(x)
  <2>1. room[x] \in Conns
    BY <1>1, <1>5 DEF Vacate, Holding
  <2>2. \A r \in Conns : host'[r] \in {host[r], None} /\ client'[r] \in {client[r], None}
    BY <1>1, <1>5, <2>1 DEF Vacate
  <2>3. \A c \in Conns : other'[c] # c
    BY <1>1, <1>5, <2>1 DEF Vacate, Maybe
  <2> QED
    BY <1>1, <2>2, <2>3 DEF Maybe
<1> QED
  BY <1>2, <1>3, <1>4, <1>5 DEF Steps, Join, Forward, Writer, Leave, FindRoom, Greet, Announce, ReadInput,
     Push, ReadPing, SendPong, Write, StopWriter, ReadEnd, WriterDone, FindRoomToLeave, Inform, Reap, roomVars

LEMMA TogetherKept ==
    ASSUME RelayInv, Together, NEW x \in Conns, Steps(x)
    PROVE  Together'
<1> USE DEF Together, Early, Middle
<1>1. /\ pc \in [Conns -> Places] /\ room \in [Conns -> Maybe] /\ registry \in Maybe
      /\ host \in [Conns -> Maybe] /\ client \in [Conns -> Maybe]
      /\ None \notin Conns /\ Holding /\ Seated /\ Fresh
  BY RelayAssumption DEF RelayInv, TypeOK, ReaderTypes, RoomTypes
<1>2. CASE FindRoom(x)
  BY <1>1, <1>2 DEF FindRoom, Fresh, Holding, Goto, Places, Maybe
<1>3. CASE TakeSeat(x)
  <2>1. room[x] \in Conns /\ pc[x] = "seat" /\ (pc'[x] = "greet" \/ pc'[x] = "gone")
        /\ \A e \in Conns \ {x} : pc'[e] = pc[e]
    BY <1>1, <1>3 DEF TakeSeat, Holding, Goto
  <2>2. SUFFICES ASSUME \A e \in Conns : pc'[e] \in Early PROVE Together'
    OBVIOUS
  <2>3. (\A e \in Conns : pc[e] \in Early) /\ pc'[x] = "greet" /\ registry = room[x]
    BY <2>1, <2>2
  <2> QED
    BY <1>1, <1>3, <2>1, <2>3 DEF TakeSeat, Goto, Maybe
<1>4. CASE Relaying(x)
  BY <1>1, <1>4 DEF Relaying, roomVars
<1>5. CASE RoomsAlone
  BY <1>5 DEF RoomsAlone, roomVars
<1>6. CASE FindRoomToLeave(x) \/ Vacate(x) \/ Inform(x) \/ Reap(x)
  <2>1. pc'[x] \notin Early
    BY <1>1, <1>6 DEF FindRoomToLeave, Vacate, Inform, Reap, Goto, Places
  <2> QED
    BY <2>1
<1> QED
  BY <1>2, <1>3, <1>4, <1>5, <1>6, RelayingSteps, WriterSteps DEF Steps, Join, Leave, RelayInv

LEMMA PartedKept ==
    ASSUME RelayInv, Parted, Faulty = {}, NEW x \in Conns, Steps(x)
    PROVE  Parted' /\ \A c \in Conns : done[c] => done'[c]
<1> USE DEF Middle, Goto, Places
<1>1. /\ pc \in [Conns -> Places] /\ room \in [Conns -> Maybe] /\ registry \in Maybe
      /\ host \in [Conns -> Maybe] /\ client \in [Conns -> Maybe] /\ other \in [Conns -> Maybe]
      /\ done \in [Conns -> BOOLEAN] /\ writer \in [Conns -> {"none", "on", "off"}]
      /\ None \notin Conns /\ Holding
  BY RelayAssumption DEF RelayInv, TypeOK, ReaderTypes, RoomTypes
<1>2. (\E w \in 0 .. 2 : Greet(x, w)) => \E w \in 1 .. 2 : Greet(x, w)
  BY GreetAll
<1>3. \A c \in Conns : done[c] => done'[c]
  <2>1. CASE ReadEnd(x)
    BY <1>1, <2>1 DEF ReadEnd
  <2>2. CASE UNCHANGED done
    BY <2>2
  <2>3. Writer(x) \/ FindRoom(x) \/ TakeSeat(x) \/ (\E w \in 0 .. 2 : Greet(x, w)) => UNCHANGED done
    BY DEF Writer, Write, StopWriter, FindRoom, TakeSeat, Greet
  <2>4. Announce(x) \/ Forward(x) => UNCHANGED done
    BY DEF Announce, Forward, ReadInput, PeerOf, Push, ReadPing, SendPong
  <2>5. Leave(x) => UNCHANGED done \/ ReadEnd(x)
    BY DEF Leave, WriterDone, FindRoomToLeave, Vacate, Inform, Reap
  <2> QED
    BY <2>1, <2>2, <2>3, <2>4, <2>5 DEF Steps, Join
<1>4. DoneLeaving'
  <2>1. ASSUME NEW w \in 1 .. 2, Greet(x, w) PROVE DoneLeaving'
    BY <1>1, <2>1 DEF Parted, DoneLeaving, Greet
  <2>2. CASE Writer(x)
    BY <2>2 DEF Parted, DoneLeaving, Writer, Write, StopWriter
  <2>3. CASE FindRoom(x) \/ TakeSeat(x) \/ Announce(x) \/ Forward(x)
    BY <1>1, <2>3 DEF Parted, DoneLeaving, Forward, FindRoom, TakeSeat, Announce, ReadInput, PeerOf,
       Push, ReadPing, SendPong
  <2>4. CASE Leave(x)
    BY <1>1, <2>4 DEF Parted, DoneLeaving, Leave, ReadEnd, WriterDone, FindRoomToLeave, Vacate, Inform, Reap
  <2> QED
    BY <1>2, <2>1, <2>2, <2>3, <2>4 DEF Steps, Join
<1>5. \A c \in Conns : HungUp(c) => HungUp(c)'
  <2>1. CASE FindRoom(x) \/ TakeSeat(x) \/ Vacate(x) \/ Inform(x) \/ Reap(x)
    BY <1>1, <1>3, <2>1 DEF HungUp, FindRoom, TakeSeat, Vacate, Inform, Reap
  <2>2. CASE Relaying(x)
    BY <1>1, <1>3, <2>2 DEF HungUp, Relaying
  <2>3. CASE RoomsAlone
    BY <1>3, <2>3 DEF HungUp, RoomsAlone
  <2>4. CASE FindRoomToLeave(x)
    BY <1>1, <2>4 DEF Parted, DoneLeaving, HungUp, FindRoomToLeave
  <2> QED
    BY <2>1, <2>2, <2>3, <2>4, RelayingSteps, WriterSteps DEF Steps, Join, Leave, RelayInv
<1>6. SeatedUp'
  <2>1. CASE TakeSeat(x)
    BY <1>1, <1>5, <2>1 DEF Parted, SeatedUp, HungUp, TakeSeat, Holding
  <2>2. CASE Vacate(x)
    BY <1>1, <1>5, <2>2 DEF Parted, SeatedUp, Vacate, Holding
  <2>3. CASE UNCHANGED <<host, client>>
    BY <1>5, <2>3 DEF Parted, SeatedUp
  <2> QED
    BY <2>1, <2>2, <2>3, RelayingSteps, WriterSteps DEF Steps, Join, Leave, RelayInv, Relaying, RoomsAlone,
       roomVars, FindRoom, FindRoomToLeave, Inform, Reap
<1>7. PushedUp'
  <2>1. CASE PeerOf(x)
    <3>1. room[x] \in Conns /\ (other'[x] = host[room[x]] \/ other'[x] = client[room[x]])
          /\ (pc'[x] = "push" => other'[x] \in Conns)
          /\ \A c \in Conns \ {x} : pc'[c] = pc[c] /\ other'[c] = other[c]
      BY <1>1, <2>1 DEF Holding, PeerOf, Maybe
    <3> QED
      BY <1>1, <1>5, <3>1 DEF Parted, PushedUp, SeatedUp, Holding
  <2>2. CASE /\ \A c \in Conns : pc'[c] = "push" => pc[c] = "push"
             /\ \A c \in Conns : pc[c] = "push" => other'[c] = other[c] /\ other[c] \in Conns
    BY <1>5, <2>2 DEF Parted, PushedUp
  <2>3. ASSUME NEW w \in 1 .. 2, Greet(x, w) PROVE PushedUp'
    BY <1>1, <2>2, <2>3 DEF Greet, Holding
  <2>4. CASE Writer(x)
    BY <1>1, <2>2, <2>4 DEF Writer, Write, StopWriter, Holding
  <2>5. CASE FindRoom(x) \/ TakeSeat(x) \/ Announce(x) \/ ReadInput(x) \/ Push(x) \/ ReadPing(x) \/ SendPong(x)
    BY <1>1, <2>2, <2>5 DEF Holding, FindRoom, TakeSeat, Announce, ReadInput, Push, ReadPing, SendPong
  <2>6. CASE Leave(x)
    BY <1>1, <2>2, <2>6 DEF Holding, Leave, ReadEnd, WriterDone, FindRoomToLeave, Vacate, Inform, Reap
  <2> QED
    BY <1>2, <2>1, <2>3, <2>4, <2>5, <2>6 DEF Steps, Join, Forward
<1>8. WriterLate'
  <2>1. ASSUME NEW w \in 1 .. 2, Greet(x, w) PROVE WriterLate'
    BY <1>1, <2>1 DEF Parted, WriterLate, Greet
  <2>2. CASE Writer(x)
    BY <1>1, <2>2 DEF Parted, WriterLate, Writer, Write, StopWriter
  <2>3. CASE FindRoom(x) \/ TakeSeat(x) \/ Announce(x) \/ Forward(x)
    BY <1>1, <2>3 DEF Parted, WriterLate, Forward, FindRoom, TakeSeat, Announce, ReadInput, PeerOf,
       Push, ReadPing, SendPong
  <2>4. CASE Leave(x)
    BY <1>1, <2>4 DEF Parted, WriterLate, Leave, ReadEnd, WriterDone, FindRoomToLeave, Vacate, Inform, Reap
  <2> QED
    BY <1>2, <2>1, <2>2, <2>3, <2>4 DEF Steps, Join
<1> QED
  BY <1>3, <1>4, <1>6, <1>7, <1>8 DEF Parted

LEMMA WholeGreeting ==
    ASSUME NEW c
    PROVE  /\ Lines(c) \in Seq({Hello, Ready(other[c])}) /\ Len(Lines(c)) \in Nat
           /\ SubSeq(Lines(c), 1, Len(Lines(c))) = Lines(c)
<1>1. Hello \in {Hello, Ready(other[c])} /\ Ready(other[c]) \in {Hello, Ready(other[c])}
  OBVIOUS
<1>2. \A e, f, S : e \in S /\ f \in S => <<e>> \in Seq(S) /\ <<e, f>> \in Seq(S)
  OBVIOUS
<1>3. Lines(c) \in Seq({Hello, Ready(other[c])})
  BY <1>1, <1>2 DEF Lines
<1> QED
  BY <1>3, SubSeqFull

(* How a step changes what c has received and what is queued for it. *)
Queued(x, c, f) ==
    /\ got'[c] = got[c] /\ out'[c] = Append(out[c], f)
    /\ Silent(f) \/ (pc[x] = "push" /\ other[x] = c /\ f = Input(x, spoke[x]))

Greeted(c) ==
    /\ pc[c] = "greet"
    /\ out'[c] = out[c] /\ got'[c] = got[c] \o Lines(c)

Heard(c) ==
    /\ writer[c] = "on" /\ out[c] # << >>
    /\ got'[c] = Append(got[c], Head(out[c])) /\ out'[c] = Tail(out[c])

LEMMA StepQueues ==
    ASSUME RelayInv, Faulty = {}, NEW x \in Conns, Steps(x), NEW c \in Conns
    PROVE  \/ got'[c] = got[c] /\ out'[c] = out[c]
           \/ \E f \in Frames : Queued(x, c, f)
           \/ Greeted(c)
           \/ Heard(c)
<1>1. /\ out \in [Conns -> Seq(Frames)] /\ got \in [Conns -> Seq(Frames)] /\ TypeOK /\ Holding
      /\ other \in [Conns -> Maybe] /\ spoke \in [Conns -> 0 .. MaxFrames]
  BY DEF RelayInv, TypeOK, LineTypes, ReaderTypes
<1>2. ASSUME NEW d \in Conns, NEW f \in Frames, SendOrDone(d, f), UNCHANGED got,
             Silent(f) \/ (pc[x] = "push" /\ other[x] = d /\ f = Input(x, spoke[x]))
      PROVE  (got'[c] = got[c] /\ out'[c] = out[c]) \/ \E g \in Frames : Queued(x, c, g)
  BY <1>1, <1>2, Sending DEF Queued
<1>3. ASSUME NEW w \in 0 .. 2, Greet(x, w)
      PROVE  (got'[c] = got[c] /\ out'[c] = out[c]) \/ Greeted(c)
  <2>1. w = Len(Lines(x))
    BY <1>3, GreetAll
  <2>2. got' = [got EXCEPT ![x] = got[x] \o SubSeq(Lines(x), 1, w)] /\ UNCHANGED out /\ pc[x] = "greet"
    BY <1>3 DEF Greet, Lines
  <2>3. SubSeq(Lines(x), 1, w) = Lines(x)
    BY <2>1, WholeGreeting
  <2> QED
    BY <1>1, <2>2, <2>3 DEF Greeted
<1>4. ASSUME NEW ok \in BOOLEAN, Write(x, ok)
      PROVE  (got'[c] = got[c] /\ out'[c] = out[c]) \/ Heard(c)
  BY <1>1, <1>4 DEF Write, Heard
<1>5. CASE Push(x)
  <2>1. other[x] \in Conns /\ inhand[x] = Input(x, spoke[x]) /\ inhand[x] \in Frames
    <3>1. spoke[x] \in 1 .. MaxFrames
      BY <1>1, <1>5, RelayAssumption DEF Holding, Push
    <3> QED
      BY <1>1, <1>5, <3>1, FrameKinds DEF Holding, Push
  <2> QED
    BY <1>2, <1>5, <2>1 DEF Push
<1>6. CASE Announce(x) \/ SendPong(x)
  <2>1. Announce(x) => other[x] \in Conns
    BY <1>1 DEF Holding, Announce
  <2> QED
    BY <1>2, <1>6, <2>1, FrameKinds, SilentFrames DEF Announce, SendPong
<1>7. CASE Inform(x)
  <2>1. other[x] \in Conns \/ other[x] = None
    BY <1>1 DEF Maybe
  <2> QED
    BY <1>2, <1>7, <2>1, FrameKinds, SilentFrames DEF Inform
<1>8. CASE \/ FindRoom(x) \/ TakeSeat(x) \/ ReadInput(x) \/ PeerOf(x) \/ ReadPing(x) \/ StopWriter(x)
           \/ ReadEnd(x) \/ WriterDone(x) \/ FindRoomToLeave(x) \/ Vacate(x) \/ Reap(x)
  BY <1>8 DEF FindRoom, TakeSeat, ReadInput, PeerOf, ReadPing, StopWriter, ReadEnd,
     WriterDone, FindRoomToLeave, Vacate, Reap
<1> QED
  BY <1>3, <1>4, <1>5, <1>6, <1>7, <1>8 DEF Steps, Join, Forward, Writer, Leave

(* What a step leaves of a frame that was received, or queued, at i. *)
LEMMA FramesStay ==
    ASSUME RelayInv, Faulty = {}, NEW x \in Conns, Steps(x), NEW c \in Conns
    PROVE  /\ \A i \in 1 .. Len(got[c]) : i \in 1 .. Len(got'[c]) /\ got'[c][i] = got[c][i]
           /\ \A i \in 1 .. Len(out[c]) :
                 \/ i \in 1 .. Len(out'[c]) /\ out'[c][i] = out[c][i]
                 \/ i - 1 \in 1 .. Len(out'[c]) /\ out'[c][i - 1] = out[c][i]
                 \/ \E j \in 1 .. Len(got'[c]) : got'[c][j] = out[c][i]
<1>1. out[c] \in Seq(Frames) /\ got[c] \in Seq(Frames)
  BY DEF RelayInv, TypeOK, LineTypes
<1>2. CASE got'[c] = got[c] /\ out'[c] = out[c]
  BY <1>2
<1>3. ASSUME NEW f \in Frames, Queued(x, c, f)
      PROVE  /\ got'[c] = got[c]
             /\ \A i \in 1 .. Len(out[c]) : i \in 1 .. Len(out'[c]) /\ out'[c][i] = out[c][i]
  BY <1>1, <1>3 DEF Queued
<1>4. CASE Greeted(c)
  <2>1. Lines(c) \in Seq({Hello, Ready(other[c])}) /\ Len(Lines(c)) \in Nat
    BY WholeGreeting
  <2>2. /\ Len(got[c]) \in Nat /\ Len(Lines(c)) \in Nat
        /\ Len(got[c] \o Lines(c)) = Len(got[c]) + Len(Lines(c))
        /\ \A i \in 1 .. Len(got[c]) : (got[c] \o Lines(c))[i] = got[c][i]
    BY <1>1, <2>1
  <2>3. \A i \in 1 .. Len(got[c]) : i \in 1 .. Len(got[c] \o Lines(c))
    BY <2>2
  <2> QED
    BY <1>4, <2>2, <2>3 DEF Greeted
<1>5. CASE Heard(c)
  <2> DEFINE p == got[c]
             q == out[c]
             r == Append(p, Head(q))
             t == Tail(q)
  <2>1. /\ p \in Seq(Frames) /\ q \in Seq(Frames) /\ q # << >> /\ got'[c] = r /\ out'[c] = t
    BY <1>1, <1>5 DEF Heard
  <2>2. /\ Len(p) \in Nat /\ Len(r) = Len(p) + 1 /\ r[Len(p) + 1] = q[1]
        /\ \A i \in 1 .. Len(p) : r[i] = p[i]
        /\ Len(q) \in Nat /\ Len(q) > 0 /\ Len(t) = Len(q) - 1
        /\ \A i \in 1 .. Len(t) : t[i] = q[i + 1]
    BY <2>1
  <2> HIDE DEF p, q, r, t
  <2>3. \A i \in 1 .. Len(p) : i \in 1 .. Len(r) /\ r[i] = p[i]
    BY <2>2
  <2>4. ASSUME NEW i \in 1 .. Len(q), i # 1
        PROVE  i - 1 \in 1 .. Len(t) /\ t[i - 1] = q[i]
    <3>1. i - 1 \in 1 .. Len(t) /\ (i - 1) + 1 = i
      BY <2>2, <2>4
    <3> QED
      BY <2>2, <3>1
  <2>5. Len(p) + 1 \in 1 .. Len(r) /\ r[Len(p) + 1] = q[1]
    BY <2>2
  <2>6. \A i \in 1 .. Len(q) : \/ i - 1 \in 1 .. Len(t) /\ t[i - 1] = q[i]
                               \/ \E j \in 1 .. Len(r) : r[j] = q[i]
    BY <2>4, <2>5
  <2> QED
    BY <2>1, <2>3, <2>6 DEF p, q
<1> QED
  BY <1>2, <1>3, <1>4, <1>5, StepQueues

(* Whoever has been seated beside a host is told of it. *)
LEMMA GreetingEnds ==
    ASSUME RelayInv, Faulty = {}, NEW x \in Conns, Steps(x),
           NEW c \in Conns, NEW d \in Conns, pc[c] = "greet", other[c] = d
    PROVE  \/ pc'[c] = "greet" /\ other'[c] = d
           \/ \E j \in 1 .. Len(got'[c]) : got'[c][j] = Ready(d)
<1>1. /\ got \in [Conns -> Seq(Frames)] /\ pc \in [Conns -> Places]
      /\ other \in [Conns -> Maybe] /\ None \notin Conns
  BY RelayAssumption DEF RelayInv, TypeOK, LineTypes, ReaderTypes
<1>2. CASE x = c /\ \E w \in 0 .. 2 : Greet(c, w)
  <2>1. PICK w \in 0 .. 2 : Greet(c, w)
    BY <1>2
  <2>2. w = Len(Lines(c)) /\ w = 2 /\ Lines(c) = <<Hello, Ready(d)>>
    BY <1>1, <2>1, GreetAll DEF Lines
  <2>3. got'[c] = got[c] \o <<Hello, Ready(d)>>
    BY <1>1, <2>1, <2>2, WholeGreeting DEF Greet, Lines
  <2>4. Hello \in Frames /\ Ready(d) \in Frames
    BY FrameKinds
  <2>5. Len(got[c]) + 2 \in 1 .. Len(got'[c]) /\ got'[c][Len(got[c]) + 2] = Ready(d)
    BY <1>1, <2>3, <2>4
  <2> QED
    BY <2>5
<1>3. CASE x # c
  BY <1>1, <1>3 DEF Steps, Join, Forward, Writer, Leave, FindRoom, TakeSeat, Greet, Announce, ReadInput, PeerOf,
     Push, ReadPing, SendPong, Write, StopWriter, ReadEnd, WriterDone, FindRoomToLeave, Vacate, Inform, Reap, Goto
<1>4. CASE Writer(c)
  BY <1>4 DEF Writer, Write, StopWriter
<1>5. x = c => (\E w \in 0 .. 2 : Greet(c, w)) \/ Writer(c)
  BY DEF Steps, Join, Forward, Leave, FindRoom, TakeSeat, Announce, ReadInput, PeerOf,
     Push, ReadPing, SendPong, ReadEnd, WriterDone, FindRoomToLeave, Vacate, Inform, Reap
<1> QED
  BY <1>2, <1>3, <1>4, <1>5

LEMMA KnowsStays ==
    ASSUME RelayInv, Parted, Faulty = {}, NEW x \in Conns, Steps(x),
           NEW c \in Conns, NEW d \in Conns, Knows(c, d)
    PROVE  Knows(c, d)'
<1>1. CASE done[c]
  BY <1>1, PartedKept DEF Knows
<1>2. CASE pc[c] = "greet" /\ other[c] = d
  BY <1>2, GreetingEnds DEF Knows
<1>3. CASE \E i \in 1 .. Len(got[c]) : got[c][i] = Ready(d)
  BY <1>3, FramesStay DEF Knows
<1>4. CASE \E i \in 1 .. Len(out[c]) : out[c][i] = Ready(d)
  BY <1>4, FramesStay DEF Knows
<1> QED
  BY <1>1, <1>2, <1>3, <1>4 DEF Knows

-----------------------------------------------------------------------------
(* A frame is only pushed to somebody who knows its sender. *)
LEMMA PushKnows ==
    ASSUME RelayInv, PairInv, JustAPair, NEW x \in Conns, pc[x] = "push"
    PROVE  other[x] \in Conns /\ Knows(other[x], x)
<1> DEFINE c == other[x]
<1>1. c \in Conns /\ c # x /\ HungUp(c)
  BY DEF RelayInv, Holding, PairInv, Two, Parted, PushedUp
<1>2. CASE done[c]
  BY <1>1, <1>2 DEF Knows
<1>3. CASE pc[c] \in Middle
  <2>1. \A e \in Conns : e \in {x, c}
    BY <1>1 DEF JustAPair
  <2>2. \A e \in Conns : pc[e] \in Middle
    BY <1>3, <2>1 DEF Middle
  <2>3. registry # None /\ \A e \in Conns : host[registry] = e \/ client[registry] = e
    BY <1>1, <2>2 DEF PairInv, Together, Early
  <2>4. registry \in Conns /\ host[registry] \in Maybe /\ None \notin Conns
    BY <2>3, RelayAssumption DEF RelayInv, TypeOK, RoomTypes, Maybe
  <2>5. \/ host[registry] = x /\ client[registry] = c
        \/ host[registry] = c /\ client[registry] = x
    BY <1>1, <2>3, <2>4 DEF PairInv, Two
  <2>6. \A a, b \in Conns : host[registry] = b /\ client[registry] = a =>
            /\ Knows(a, b)
            /\ IF pc[a] \in {"greet", "ready"} THEN other[a] = b ELSE Knows(b, a)
    BY <2>2, <2>3 DEF PairInv, Met
  <2> QED
    BY <1>1, <2>5, <2>6
<1> QED
  BY <1>1, <1>2, <1>3 DEF HungUp

LEMMA MarkedKept ==
    ASSUME RelayInv, PairInv, JustAPair, NEW x \in Conns, Steps(x)
    PROVE  Marked'
<1> SUFFICES ASSUME NEW c \in Conns, NEW d \in Conns, ~done'[c]
             PROVE  /\ \A i \in 1 .. Len(got'[c]) :
                          Says(got'[c][i], d) => \E j \in 1 .. i - 1 : got'[c][j] = Ready(d)
                    /\ \A i \in 1 .. Len(out'[c]) : Says(out'[c][i], d) =>
                          \/ pc'[c] = "greet" /\ other'[c] = d
                          \/ \E j \in 1 .. Len(got'[c]) : got'[c][j] = Ready(d)
                          \/ \E j \in 1 .. i - 1 : out'[c][j] = Ready(d)
  BY DEF Marked
<1>1. ~done[c] /\ Faulty = {}
  BY PartedKept DEF PairInv, JustAPair
<1>2. /\ out[c] \in Seq(Frames) /\ got[c] \in Seq(Frames) /\ Len(out[c]) \in Nat /\ Len(got[c]) \in Nat
  BY DEF RelayInv, TypeOK, LineTypes
<1>3. /\ \A i \in 1 .. Len(got[c]) : Says(got[c][i], d) => \E j \in 1 .. i - 1 : got[c][j] = Ready(d)
      /\ \A i \in 1 .. Len(out[c]) : Says(out[c][i], d) =>
              \/ pc[c] = "greet" /\ other[c] = d
              \/ \E j \in 1 .. Len(got[c]) : got[c][j] = Ready(d)
              \/ \E j \in 1 .. i - 1 : out[c][j] = Ready(d)
  BY <1>1 DEF PairInv, Marked
<1>4. pc[c] = "greet" /\ other[c] = d =>
          \/ pc'[c] = "greet" /\ other'[c] = d
          \/ \E j \in 1 .. Len(got'[c]) : got'[c][j] = Ready(d)
  BY <1>1, GreetingEnds
<1>5. CASE got'[c] = got[c] /\ out'[c] = out[c]
  BY <1>3, <1>4, <1>5
<1>6. ASSUME NEW f \in Frames, Queued(x, c, f)
      PROVE  \A i \in 1 .. Len(out'[c]) : Says(out'[c][i], d) =>
                  \/ pc'[c] = "greet" /\ other'[c] = d
                  \/ \E j \in 1 .. Len(got'[c]) : got'[c][j] = Ready(d)
                  \/ \E j \in 1 .. i - 1 : out'[c][j] = Ready(d)
  <2>1. /\ got'[c] = got[c] /\ Len(out'[c]) = Len(out[c]) + 1 /\ out'[c][Len(out[c]) + 1] = f
        /\ \A i \in 1 .. Len(out[c]) : out'[c][i] = out[c][i]
    BY <1>2, <1>6 DEF Queued
  <2> SUFFICES ASSUME NEW i \in 1 .. Len(out'[c]), Says(out'[c][i], d)
               PROVE  \/ pc'[c] = "greet" /\ other'[c] = d
                      \/ \E j \in 1 .. Len(got'[c]) : got'[c][j] = Ready(d)
                      \/ \E j \in 1 .. i - 1 : out'[c][j] = Ready(d)
    OBVIOUS
  <2>2. CASE i \in 1 .. Len(out[c])
    BY <1>2, <1>3, <1>4, <2>1, <2>2
  <2>3. CASE i = Len(out[c]) + 1
    <3>1. pc[x] = "push" /\ other[x] = c /\ d = x
      BY <1>6, <2>1, <2>3 DEF Queued, Silent, Says, Input
    <3>2. Knows(c, d)
      BY <3>1, PushKnows
    <3> QED
      BY <1>1, <1>2, <1>4, <2>1, <2>3, <3>2 DEF Knows
  <2>4. i \in 1 .. Len(out[c]) \/ i = Len(out[c]) + 1
    BY <1>2, <2>1
  <2> QED
    BY <2>2, <2>3, <2>4
<1>7. CASE Greeted(c)
  <2>1. /\ out'[c] = out[c] /\ got'[c] = got[c] \o Lines(c)
        /\ Lines(c) \in Seq({Hello, Ready(other[c])}) /\ Len(Lines(c)) \in Nat
    BY <1>7, WholeGreeting DEF Greeted
  <2>2. \A i \in 1 .. Len(Lines(c)) : ~Says(Lines(c)[i], d)
    BY <2>1, SilentFrames DEF Silent, Says
  <2>3. /\ Len(got'[c]) = Len(got[c]) + Len(Lines(c))
        /\ \A i \in 1 .. Len(got'[c]) : got'[c][i] = IF i <= Len(got[c]) THEN got[c][i] ELSE Lines(c)[i - Len(got[c])]
    BY <1>2, <2>1, ConcatProperties
  <2>4. \A i \in 1 .. Len(got[c]) : i \in 1 .. Len(got'[c]) /\ got'[c][i] = got[c][i]
    BY <1>2, <2>1, <2>3
  <2>5. \A i \in 1 .. Len(got'[c]) : Says(got'[c][i], d) => i \in 1 .. Len(got[c]) /\ got'[c][i] = got[c][i]
    BY <1>2, <2>1, <2>2, <2>3
  <2>6. \A i \in 1 .. Len(got[c]) : Says(got[c][i], d) => \E j \in 1 .. i - 1 : got'[c][j] = Ready(d)
    <3> SUFFICES ASSUME NEW i \in 1 .. Len(got[c]), Says(got[c][i], d)
                 PROVE  \E j \in 1 .. i - 1 : got'[c][j] = Ready(d)
      OBVIOUS
    <3>1. PICK j \in 1 .. i - 1 : got[c][j] = Ready(d)
      BY <1>3
    <3>2. j \in 1 .. Len(got[c])
      BY <1>2
    <3> QED
      BY <2>4, <3>1, <3>2
  <2> QED
    BY <1>3, <1>4, <2>1, <2>4, <2>5, <2>6
<1>8. CASE Heard(c)
  <2>1. pc[c] # "greet"
    BY <1>8 DEF Heard, PairInv, Parted, WriterLate
  <2> DEFINE p == got[c]
             q == out[c]
             r == Append(p, Head(q))
             t == Tail(q)
  <2>2. /\ p \in Seq(Frames) /\ q \in Seq(Frames) /\ q # << >> /\ got'[c] = r /\ out'[c] = t
    BY <1>2, <1>8 DEF Heard
  <2>3. /\ Len(p) \in Nat /\ Len(r) = Len(p) + 1 /\ r[Len(p) + 1] = q[1]
        /\ \A i \in 1 .. Len(p) : r[i] = p[i]
        /\ Len(q) \in Nat /\ Len(q) > 0 /\ Len(t) = Len(q) - 1
        /\ \A i \in 1 .. Len(t) : t[i] = q[i + 1]
    BY <2>2
  <2>4. /\ \A i \in 1 .. Len(p) : Says(p[i], d) => \E j \in 1 .. i - 1 : p[j] = Ready(d)
        /\ \A i \in 1 .. Len(q) : Says(q[i], d) =>
              \/ \E j \in 1 .. Len(p) : p[j] = Ready(d)
              \/ \E j \in 1 .. i - 1 : q[j] = Ready(d)
    BY <1>3, <2>1
  <2> HIDE DEF p, q, r, t
  <2>5. ASSUME NEW i \in 1 .. Len(r), Says(r[i], d)
        PROVE  \E j \in 1 .. i - 1 : r[j] = Ready(d)
    <3>1. CASE i \in 1 .. Len(p)
      <4>1. PICK j \in 1 .. i - 1 : p[j] = Ready(d)
        BY <2>3, <2>4, <2>5, <3>1
      <4>2. j \in 1 .. Len(p)
        BY <2>3, <3>1
      <4> QED
        BY <2>3, <4>1, <4>2
    <3>2. CASE i = Len(p) + 1
      <4>1. 1 \in 1 .. Len(q) /\ Says(q[1], d)
        BY <2>3, <2>5, <3>2
      <4>2. PICK j \in 1 .. Len(p) : p[j] = Ready(d)
        BY <2>4, <4>1
      <4> QED
        BY <2>3, <3>2, <4>2
    <3> QED
      BY <2>3, <3>1, <3>2
  <2>6. ASSUME NEW i \in 1 .. Len(t), Says(t[i], d)
        PROVE  \/ \E j \in 1 .. Len(r) : r[j] = Ready(d)
               \/ \E j \in 1 .. i - 1 : t[j] = Ready(d)
    <3>1. i + 1 \in 1 .. Len(q) /\ Says(q[i + 1], d)
      BY <2>3, <2>6
    <3>2. CASE \E j \in 1 .. Len(p) : p[j] = Ready(d)
      <4>1. PICK j \in 1 .. Len(p) : p[j] = Ready(d)
        BY <3>2
      <4>2. j \in 1 .. Len(r) /\ r[j] = p[j]
        BY <2>3
      <4> QED
        BY <4>1, <4>2
    <3>3. CASE \E j \in 1 .. (i + 1) - 1 : q[j] = Ready(d)
      <4>1. PICK j \in 1 .. i : q[j] = Ready(d)
        BY <2>3, <3>3
      <4>2. CASE j = 1
        <5>1. Len(p) + 1 \in 1 .. Len(r) /\ r[Len(p) + 1] = Ready(d)
          BY <2>3, <4>1, <4>2
        <5> QED
          BY <5>1
      <4>3. CASE j # 1
        <5>1. j - 1 \in 1 .. i - 1 /\ j - 1 \in 1 .. Len(t) /\ (j - 1) + 1 = j
          BY <2>3, <4>3
        <5>2. t[j - 1] = Ready(d)
          BY <2>3, <4>1, <5>1
        <5> QED
          BY <5>1, <5>2
      <4> QED
        BY <4>2, <4>3
    <3> QED
      BY <2>4, <3>1, <3>2, <3>3
  <2> QED
    BY <2>2, <2>5, <2>6
<1>9. ASSUME NEW f \in Frames, Queued(x, c, f)
      PROVE  got'[c] = got[c]
  BY <1>9 DEF Queued
<1> QED
  BY <1>1, <1>3, <1>5, <1>6, <1>7, <1>8, <1>9, StepQueues

LEMMA MetKept ==
    ASSUME RelayInv, PairInv, JustAPair, NEW x \in Conns, Steps(x)
    PROVE  Met'
<1> SUFFICES ASSUME registry' # None, NEW c \in Conns, NEW d \in Conns,
                    host'[registry'] = d, client'[registry'] = c, pc'[c] \in Middle, pc'[d] \in Middle
             PROVE  /\ Knows(c, d)'
                    /\ IF pc'[c] \in {"greet", "ready"} THEN other'[c] = d ELSE Knows(d, c)'
  BY DEF Met
<1>1. /\ pc \in [Conns -> Places] /\ room \in [Conns -> Maybe] /\ other \in [Conns -> Maybe]
      /\ registry \in Maybe /\ host \in [Conns -> Maybe] /\ client \in [Conns -> Maybe]
      /\ None \notin Conns /\ Holding /\ TypeOK /\ Seated /\ Parted /\ Faulty = {}
  BY RelayAssumption DEF RelayInv, TypeOK, ReaderTypes, RoomTypes, PairInv, JustAPair
<1>2. TypeOK' /\ Two'
  BY TypeRooms, TypeQueues, TypeReader, TwoKept DEF Steps, Join, Forward, Writer, Leave, PairInv, RelayInv
<1>3. c # d /\ x \in {c, d} /\ pc'[x] \in Middle /\ registry' \in Conns
  <2>1. registry' \in Conns
    BY <1>2 DEF TypeOK, RoomTypes, Maybe
  <2>2. c # d
    BY <1>1, <1>2, <2>1 DEF Two
  <2>3. x \in {c, d}
    BY <2>2 DEF JustAPair
  <2> QED
    BY <2>1, <2>2, <2>3
<1>4. CASE FindRoom(x) \/ FindRoomToLeave(x) \/ Vacate(x) \/ Inform(x) \/ Reap(x)
  BY <1>1, <1>3, <1>4 DEF FindRoom, FindRoomToLeave, Vacate, Inform, Reap, Goto, Places, Middle
<1>5. CASE TakeSeat(x)
  <2>1. /\ pc[x] = "seat" /\ pc'[x] = "greet" /\ room[x] \in Conns /\ UNCHANGED registry
        /\ \A e \in Conns \ {x} : pc'[e] = pc[e]
    BY <1>1, <1>3, <1>5 DEF TakeSeat, Goto, Places, Middle, Holding
  <2>2. \A e \in Conns : pc[e] \in Early
    BY <1>3, <2>1 DEF JustAPair, Early
  <2>3. room[x] = registry /\ (client[registry] # None => host[registry] # None)
    BY <1>1, <2>1, <2>2 DEF PairInv, Together
  <2>4. host[registry] # x /\ client[registry] # x
    BY <1>1, <1>3, <2>1 DEF Seated
  <2>5. x = c /\ other'[c] = d
    BY <1>1, <1>3, <1>5, <2>1, <2>3, <2>4 DEF TakeSeat
  <2> QED
    BY <2>1, <2>5 DEF Knows
<1>6. CASE Relaying(x) \/ RoomsAlone
  <2>1. UNCHANGED roomVars /\ pc[c] \in Middle /\ pc[d] \in Middle
    BY <1>3, <1>6 DEF Relaying, RoomsAlone
  <2>2. Knows(c, d) /\ IF pc[c] \in {"greet", "ready"} THEN other[c] = d ELSE Knows(d, c)
    BY <2>1 DEF PairInv, Met, roomVars
  <2>3. Knows(c, d)'
    BY <1>1, <2>2, KnowsStays
  <2>4. CASE pc[c] \notin {"greet", "ready"}
    <3>1. pc'[c] \notin {"greet", "ready"}
      BY <1>1, <1>3, <2>1, <2>4 DEF Steps, Join, Forward, Writer, Leave, FindRoom, TakeSeat, Greet, Announce, ReadInput,
         PeerOf, Push, ReadPing, SendPong, Write, StopWriter, ReadEnd, WriterDone, FindRoomToLeave, Vacate, Inform,
         Reap, Goto, Places, Middle
    <3> QED
      BY <1>1, <2>2, <2>3, <2>4, <3>1, KnowsStays
  <2>5. CASE pc[c] \in {"greet", "ready"} /\ x = c /\ Announce(c)
    <3>1. SendOrDone(d, Ready(c)) /\ pc'[c] = "relay" /\ UNCHANGED done
      BY <1>1, <2>2, <2>5 DEF Announce, Goto
    <3>2. Knows(d, c)'
      <4>1. CASE done[d]
        BY <3>1, <4>1 DEF Knows
      <4>2. CASE out' = [out EXCEPT ![d] = Append(@, Ready(c))]
        <5>1. out[d] \in Seq(Frames) /\ Ready(c) \in Frames /\ out'[d] = Append(out[d], Ready(c))
          BY <1>1, <4>2, FrameKinds DEF TypeOK, LineTypes
        <5>2. Len(out[d]) + 1 \in 1 .. Len(out'[d]) /\ out'[d][Len(out[d]) + 1] = Ready(c)
          BY <5>1
        <5> QED
          BY <5>2 DEF Knows
      <4> QED
        BY <3>1, <4>1, <4>2 DEF SendOrDone
    <3> QED
      BY <2>3, <3>1, <3>2
  <2>6. CASE pc[c] \in {"greet", "ready"} /\ ~(x = c /\ Announce(c))
    <3>1. other[c] = d
      BY <2>2, <2>6
    <3>2. x = c => (\E w \in 0 .. 2 : Greet(c, w)) \/ Writer(c)
      BY <2>6 DEF Steps, Join, Forward, Leave, FindRoom, TakeSeat, Announce, ReadInput, PeerOf,
         Push, ReadPing, SendPong, ReadEnd, WriterDone, FindRoomToLeave, Vacate, Inform, Reap
    <3>3. CASE x = c /\ \E w \in 0 .. 2 : Greet(c, w)
      <4>1. PICK w \in 1 .. 2 : Greet(c, w)
        BY <1>1, <3>3, GreetAll
      <4> QED
        BY <1>1, <2>3, <3>1, <4>1 DEF Greet, Goto
    <3>4. CASE Writer(c)
      BY <2>3, <2>6, <3>1, <3>4 DEF Writer, Write, StopWriter
    <3>5. CASE x # c
      <4>1. pc'[c] = pc[c] /\ other'[c] = other[c]
        BY <1>1, <3>5 DEF Steps, Join, Forward, Writer, Leave, FindRoom, TakeSeat, Greet, Announce, ReadInput,
           PeerOf, Push, ReadPing, SendPong, Write, StopWriter, ReadEnd, WriterDone, FindRoomToLeave, Vacate,
           Inform, Reap, Goto
      <4> QED
        BY <2>3, <2>6, <3>1, <4>1
    <3> QED
      BY <3>2, <3>3, <3>4, <3>5
  <2> QED
    BY <2>4, <2>5, <2>6
<1> QED
  BY <1>1, <1>4, <1>5, <1>6, RelayingSteps, WriterSteps DEF Steps, Join, Leave

LEMMA PairInvInit == Init => PairInv
  BY RelayAssumption DEF Init, PairInv, Together, Two, Parted, DoneLeaving, SeatedUp, PushedUp, WriterLate,
     Met, Marked, Early, Middle

LEMMA PairInvStep == JustAPair /\ RelayInv /\ PairInv /\ [Next]_vars => PairInv'
<1> SUFFICES ASSUME JustAPair, RelayInv, PairInv, [Next]_vars PROVE PairInv'
  OBVIOUS
<1>1. CASE UNCHANGED vars
  BY <1>1 DEF PairInv, vars, roomVars, Together, Two, Parted, DoneLeaving, SeatedUp, PushedUp, WriterLate,
     HungUp, Met, Knows, Marked
<1>2. ASSUME NEW x \in Conns, Steps(x) PROVE PairInv'
  <2>1. Together' /\ Two'
    BY <1>2, TogetherKept, TwoKept DEF PairInv
  <2>2. Parted'
    BY <1>2, PartedKept DEF PairInv, JustAPair
  <2>3. Met' /\ Marked'
    BY <1>2, MetKept, MarkedKept
  <2> QED
    BY <2>1, <2>2, <2>3 DEF PairInv
<1> QED
  BY <1>1, <1>2 DEF Next, Over, Steps

(* peerOf, forward, the writer: as long as a room sees only one pair and its *)
(* writes succeed, input is heard only after the PEER_READY that announces   *)
(* who says it.  A third connection breaks this.                             *)
THEOREM PairHearsAnnounced == ASSUME JustAPair PROVE Spec => []AnnouncedFirst
<1>1. PairInv => AnnouncedFirst
  BY DEF PairInv, Marked, AnnouncedFirst
<1> QED
  BY <1>1, JustAPair, RelayInvInit, RelayInvStep, PairInvInit, PairInvStep, PTL DEF Spec
=============================================================================
