---------------------------- MODULE NetplaySession ----------------------------
(***************************************************************************)
(* Setting a netplay session up and ending it: the state machine of        *)
(* NetplayAdvanceState in net/netplay.c with the handshakes over UDP, TCP  *)
(* and the relay, the panel's buttons, the emulator held meanwhile, the    *)
(* power cycle that starts a session, and a host that outlives its guest.  *)
(* Every machine has the connect thread of NetConnect.                     *)
(*                                                                         *)
(* An emulator's thread repeats one pass: keys and menu (at = "keys"), a   *)
(* call of NetplayAdvanceState, and the rest of the pass ("input"), which  *)
(* exchanges a frame's input, waits while paused, power-cycles or runs a   *)
(* frame.  The panel calls NetplayAdvanceState without the rest.  Calls    *)
(* that block are places of their own: "starting", between the two calls   *)
(* of a start; "hello", in NetplayJoinHandshake or NetplayRelayHandshake;  *)
(* "checking", in NetplayRelayGameCheck.                                   *)
(***************************************************************************)
EXTENDS NetConnect, Sequences

CONSTANTS
    Host,        \* the machine that hosts direct sessions; the others join
    Modes,       \* which of "udp", "tcp" and "relay" the players may have set
    Games,       \* games a player may load
    Attempts,    \* hellos a UDP guest sends before it gives up
    Delay,       \* NETPLAY_INPUT_DELAY
    Meddling,    \* TRUE: a player may pause or load a game while inputs are exchanged
    Bounds,      \* Bounds[m], for mode m: who uses the pause key, who loads
                 \*   another game, how often each may join, and the games
                 \*   they begin with
    MaxTokens,   \* bound: tokens the host draws
    MaxFrames,   \* bound: frames exchanged in a session
    MaxLoads     \* bound: games loaded by one player

ASSUME SessionAssumption ==
    /\ Host \in Machines
    /\ Modes \subseteq {"udp", "tcp", "relay"}
    /\ None \notin Games /\ Games \cap {"ready", "pong", "bye", "input"} = {}
    /\ {Delay, MaxTokens} \subseteq Nat
    /\ \A m \in Modes : /\ Bounds[m].roms \subseteq [Machines -> Games]
                        /\ Bounds[m].joins \in [Machines -> 0..MaxSockets]

VARIABLES
    mode,     \* the transport both panels are set to
    ses,      \* the session statics of each machine
    emu,      \* EMUPause, NetplayHeldEmulation and what the player wants
    at,       \* where each machine's emulator thread is
    hand,     \* the socket a handshake in progress has in hand
    tries,    \* hellos sent so far in a NetplayJoinHandshake
    rom,      \* the loaded game, and how many have been
    mail,     \* handshake packets on their way; UDP keeps and repeats them
    backlog,  \* connections the host's listener has not accepted
    room,     \* the relay's room: the sockets seated, and whether announced
    queue,    \* queue[s]: frames the relay has for socket s
    owner,    \* owner[t]: who drew token t
    said      \* who has named which token and game to whom

netVars == <<mail, backlog, room, queue>>
vars == <<connVars, mode, ses, emu, at, hand, tries, rom, netVars, owner, said>>

Direct == mode # "relay"

(* A player who has set nothing up yet. *)
Fresh == [state |-> "idle", role |-> FALSE, token |-> 0, client |-> None,
          peer |-> None, server |-> None, relayed |-> FALSE, start |-> FALSE,
          hello |-> 0, keep |-> FALSE, game |-> None, frames |-> 0]

Init ==
    /\ ConnInit
    /\ mode \in Modes
    /\ ses = [p \in Machines |-> Fresh]
    /\ emu = [p \in Machines |-> [paused |-> FALSE, held |-> FALSE,
                                  wish |-> FALSE, ran |-> 0]]
    /\ at = [p \in Machines |-> "keys"]
    /\ hand = [p \in Machines |-> None]
    /\ tries = [p \in Machines |-> 0]
    /\ \E roms \in Bounds[mode].roms :
         rom = [p \in Machines |-> [game |-> roms[p], loads |-> 0]]
    /\ mail = {}
    /\ backlog = {}
    /\ room = [seats |-> <<>>, ready |-> FALSE]
    /\ queue = [s \in Sockets |-> <<>>]
    /\ owner = <<>>
    /\ said = {}

-----------------------------------------------------------------------------
(* Packets, and what ends a session. *)

(* The address a host listens on, whatever socket it has bound to it. *)
HostPort == <<Host, 0>>

(* netplay_hello and the address it goes to. *)
Hello(from, to, token, game) ==
    [from |-> from, to |-> to, token |-> token, game |-> game]

Names(p, token, game) == said \cup {[by |-> p, token |-> token, game |-> game]}

(* NetplayDisconnectSession, and what NetplaySessionResetTiming does in it. *)
Idle(s) == [Fresh EXCEPT !.game = s.game]

(* A variant of Timed: no power cycle is asked for. *)
TimedRunning(s) == [s EXCEPT !.state = "connected", !.frames = 0]

(* NetplaySessionResetTiming as a session connects. *)
Timed(s) == [s EXCEPT !.state = "connected", !.frames = 0, !.start = TRUE]

(* A socket given to the relay is closed: a partner is told, the room goes. *)
Other(s) == CHOOSE x \in {room.seats[i] : i \in DOMAIN room.seats} : x # s

Seated(s) == \E i \in DOMAIN room.seats : room.seats[i] = s

Hangup(s) ==
    IF Seated(s)
    THEN /\ room' = [seats |-> <<>>, ready |-> FALSE]
         /\ queue' = IF Len(room.seats) = 2
                     THEN [queue EXCEPT ![Other(s)] = Append(@, "bye"), ![s] = <<>>]
                     ELSE [queue EXCEPT ![s] = <<>>]
    ELSE UNCHANGED <<room, queue>>

(* A variant of Drop: the listener goes with the rest. *)
DropAll(p, kept) ==
    /\ Abandon(p)
    /\ open' = open \ ({ses[p].client, ses[p].server} \cup ClosedByCancel(p))
    /\ backlog' = IF ses[p].server = None THEN backlog ELSE {}
    /\ IF ses[p].relayed THEN Hangup(ses[p].client) ELSE UNCHANGED <<room, queue>>

(* Everything NetplayDisconnectSession closes; `kept` survives it. *)
Drop(p, kept) ==
    /\ Abandon(p)
    /\ open' = open \ (({ses[p].client, ses[p].server} \ kept) \cup ClosedByCancel(p))
    /\ backlog' = IF ses[p].server \in {None} \cup kept THEN backlog ELSE {}
    /\ IF ses[p].relayed THEN Hangup(ses[p].client) ELSE UNCHANGED <<room, queue>>

(* A variant of Waiting: a host that has lost its guest keeps the token. *)
WaitingAgain(p, fd, keep) ==
    [Fresh EXCEPT !.state = "waiting", !.role = TRUE,
                  !.token = IF keep THEN ses[p].token ELSE Len(owner'),
                  !.client = IF mode = "udp" THEN fd ELSE None,
                  !.server = IF mode = "tcp" THEN fd ELSE None,
                  !.keep = keep, !.game = rom[p].game]

(* NetplayOpenHost: the listener is the client socket over UDP. *)
Waiting(p, fd, keep) ==
    [Fresh EXCEPT !.state = "waiting", !.role = TRUE, !.token = Len(owner'),
                  !.client = IF mode = "udp" THEN fd ELSE None,
                  !.server = IF mode = "tcp" THEN fd ELSE None,
                  !.keep = keep, !.game = rom[p].game]

-----------------------------------------------------------------------------
(* The panel and the keys. *)

PressHost(p) ==
    /\ at[p] = "keys" /\ Direct /\ p = Host
    /\ Len(owner) < MaxTokens
    /\ Abandon(p)
    /\ backlog' = {}
    /\ LET closed == {ses[p].client, ses[p].server} \cup ClosedByCancel(p)
           fd == <<p, born[p] + 1>>
       IN \/ /\ born[p] < MaxSockets
             /\ born' = [born EXCEPT ![p] = @ + 1]
             /\ open' = (open \ closed) \cup {fd}
             /\ owner' = Append(owner, p)
             /\ ses' = [ses EXCEPT ![p] = Waiting(p, fd, FALSE)]
          \/ (* The port cannot be bound. *)
             /\ open' = open \ closed
             /\ ses' = [ses EXCEPT ![p] = Idle(@)]
             /\ UNCHANGED <<born, owner>>
    /\ UNCHANGED <<mode, emu, at, hand, tries, rom, mail, room, queue, said>>

(* NetplayJoinSession and NetplayRelayStart begin by ending what there was. *)
PressJoin(p) ==
    /\ at[p] = "keys" /\ (Direct => p # Host)
    /\ born[p] < Bounds[mode].joins[p]
    /\ Drop(p, {})
    /\ ses' = [ses EXCEPT ![p] = Idle(@)]
    /\ at' = [at EXCEPT ![p] = "starting"]
    /\ UNCHANGED <<mode, emu, hand, tries, rom, born, mail, owner, said>>

(* A start is refused while a thread cancelled a moment ago still runs. *)
StartConnect(p) ==
    /\ at[p] = "starting"
    /\ at' = [at EXCEPT ![p] = "keys"]
    /\ LET s == [ses[p] EXCEPT !.game = rom[p].game]
       IN \/ /\ born' = [born EXCEPT ![p] = @ + 1]
             /\ Ask(p, born'[p])
             /\ ses' = [ses EXCEPT ![p] = [s EXCEPT !.state = "joining",
                                                    !.relayed = ~Direct]]
          \/ /\ AskInVain(p) \/ (conn[p].active /\ UNCHANGED <<conn, threads, wanted>>)
             /\ ses' = [ses EXCEPT ![p] = s]
             /\ UNCHANGED born
    /\ UNCHANGED <<open, mode, emu, hand, tries, rom, netVars, owner, said>>

PressDisconnect(p) ==
    /\ at[p] = "keys" /\ ses[p].state # "idle"
    /\ Drop(p, {})
    /\ ses' = [ses EXCEPT ![p] = Idle(@)]
    /\ UNCHANGED <<born, mode, emu, at, hand, tries, rom, mail, owner, said>>

Exchanging(p) == ses[p].state = "connected" /\ ~ses[p].start

(* The pause key.  While the emulator is held the key has no effect that    *)
(* lasts, so it changes what the player wants only when it is not.          *)
PressPause(p) ==
    /\ at[p] = "keys" /\ p \in Bounds[mode].pause
    /\ Meddling \/ ~Exchanging(p)
    /\ emu' = [emu EXCEPT ![p].paused = ~@,
                          ![p].wish = IF emu[p].held THEN @ ELSE ~@]
    /\ UNCHANGED <<connVars, mode, ses, at, hand, tries, rom, netVars, owner, said>>

(* loadROM clears the pause and leaves the session alone; the console       *)
(* starts afresh.                                                           *)
LoadRom(p) ==
    /\ at[p] = "keys" /\ p \in Bounds[mode].load /\ rom[p].loads < MaxLoads
    /\ Meddling \/ ~Exchanging(p)
    /\ \E g \in Games : rom' = [rom EXCEPT ![p] = [game |-> g, loads |-> @.loads + 1]]
    /\ emu' = [emu EXCEPT ![p].paused = FALSE, ![p].wish = FALSE, ![p].ran = 0]
    /\ UNCHANGED <<connVars, mode, ses, at, hand, tries, netVars, owner, said>>

-----------------------------------------------------------------------------
(* NetplayAdvanceState.  Each action below is one call. *)

SessionPending(p) ==
    ses[p].state \in {"waiting", "joining", "handshaking", "relay waiting"}

(* A variant of HoldEmulation: it takes a pause of the player's for its own. *)
HoldEmulationAlways(p) ==
    LET hold == SessionPending(p) /\ ~ses[p].keep
        e == emu[p]
    IN IF hold THEN [e EXCEPT !.paused = TRUE, !.held = TRUE]
       ELSE IF e.held THEN [e EXCEPT !.paused = FALSE, !.held = FALSE]
       ELSE e

(* NetplayHoldEmulation, which every call does first. *)
HoldEmulation(p) ==
    LET hold == SessionPending(p) /\ ~ses[p].keep
        e == emu[p]
    IN IF hold /\ ~e.paused THEN [e EXCEPT !.paused = TRUE, !.held = TRUE]
       ELSE IF ~hold /\ e.held THEN [e EXCEPT !.paused = FALSE, !.held = FALSE]
       ELSE e

Calls(p) == at[p] = "keys" /\ emu' = [emu EXCEPT ![p] = HoldEmulation(p)]

(* The call was the input path's, or the panel's. *)
Returns(p) == \E w \in {"input", "keys"} : at' = [at EXCEPT ![p] = w]

(* Nothing has arrived, or only packets that every branch ignores. *)
Nothing(p) ==
    /\ Calls(p) /\ Returns(p)
    /\ ses[p].state = "joining" => ~HandsOver(p) /\ ~Refuses(p)
    /\ UNCHANGED <<connVars, mode, ses, hand, tries, rom, netVars, owner, said>>

(* One guest at a time: anyone else is told the host is full. *)
TurnAway(p) ==
    /\ Calls(p) /\ Returns(p)
    /\ ses[p].state \in {"handshaking", "connected"} /\ ses[p].server # None
    /\ \E s \in backlog :
         /\ backlog' = backlog \ {s}
         /\ mail' = mail \cup {Hello(HostPort, s, 0, ses[p].game)}
    /\ UNCHANGED <<connVars, mode, ses, hand, tries, rom, room, queue, owner, said>>

(* A TCP guest is accepted and challenged.  What it sends in answer is seen *)
(* by a later call.                                                         *)
Accept(p) ==
    /\ Calls(p) /\ Returns(p)
    /\ mode = "tcp" /\ ses[p].state = "waiting" /\ ses[p].server # None
    /\ born[p] < MaxSockets
    /\ \E s \in backlog :
         /\ backlog' = backlog \ {s}
         /\ born' = [born EXCEPT ![p] = @ + 1]
         /\ \/ LET fd == <<p, born'[p]>> IN
               /\ open' = open \cup {fd}
               /\ mail' = mail \cup {Hello(HostPort, s, ses[p].token, ses[p].game)}
               /\ said' = Names(p, ses[p].token, ses[p].game)
               /\ ses' = [ses EXCEPT ![p].client = fd, ![p].peer = s,
                                     ![p].state = "handshaking"]
            \/ (* The guest has gone: the challenge cannot be sent. *)
               s \notin open /\ UNCHANGED <<open, mail, said, ses>>
    /\ UNCHANGED <<conn, threads, wanted, mode, hand, tries, rom, room, queue, owner>>

Dismissed(p) ==
    /\ open' = open \ {ses[p].client}
    /\ ses' = [ses EXCEPT ![p].client = None, ![p].peer = None, ![p].state = "waiting"]

(* The second has passed, or the stream has ended or carries no hello. *)
HandshakeFails(p) ==
    /\ Calls(p) /\ Returns(p)
    /\ ses[p].state = "handshaking"
    /\ Dismissed(p)
    /\ UNCHANGED <<conn, threads, born, wanted, mode, hand, tries, rom, netVars,
                   owner, said>>

(* The guest is in.  Its hello is kept for the first exchange. *)
Admitted(p, s, m) == Timed([s EXCEPT !.hello = m.token, !.peer = m.from])

(* A variant of Admits: whoever says hello is let in. *)
AdmitsAnyToken(p, m) == m.to = HostPort /\ m.token # 0 /\ m.game = ses[p].game

(* netplay_packet_is_handshake with the token, then NetplayAdmit. *)
Admits(p, m) == m.to = HostPort /\ m.token = ses[p].token /\ m.game = ses[p].game

(* The guest's second hello over TCP. *)
HandshakeHeard(p) ==
    /\ Calls(p) /\ Returns(p)
    /\ ses[p].state = "handshaking"
    /\ \E m \in mail :
         /\ m.to = HostPort /\ m.from = ses[p].peer
         /\ IF Admits(p, m)
            THEN ses' = [ses EXCEPT ![p] = Admitted(p, @, m)] /\ UNCHANGED open
            ELSE Dismissed(p)
    /\ UNCHANGED <<conn, threads, born, wanted, mode, hand, tries, rom, netVars,
                   owner, said>>

UdpServes(p) == mode = "udp" /\ ses[p].state = "waiting" /\ ses[p].client # None

(* A first hello over UDP is answered with the token. *)
Challenge(p) ==
    /\ Calls(p) /\ Returns(p) /\ UdpServes(p)
    /\ \E m \in mail :
         /\ m.to = HostPort /\ m.token = 0
         /\ mail' = mail \cup {Hello(HostPort, m.from, ses[p].token, ses[p].game)}
    /\ said' = Names(p, ses[p].token, ses[p].game)
    /\ UNCHANGED <<connVars, mode, ses, hand, tries, rom, backlog, room, queue, owner>>

(* A second hello over UDP lets its sender in. *)
UdpAdmit(p) ==
    /\ Calls(p) /\ Returns(p) /\ UdpServes(p)
    /\ \E m \in mail : Admits(p, m)
                       /\ ses' = [ses EXCEPT ![p] = Admitted(p, @, m)]
    /\ UNCHANGED <<connVars, mode, hand, tries, rom, netVars, owner, said>>

(* The connect is done: the handshake blocks, beginning with a hello over   *)
(* UDP.                                                                     *)
TakeSocket(p) ==
    /\ Calls(p)
    /\ ses[p].state = "joining" /\ HandsOver(p) /\ Answer(p)
    /\ at' = [at EXCEPT ![p] = "hello"]
    /\ hand' = [hand EXCEPT ![p] = conn[p].sock]
    /\ tries' = [tries EXCEPT ![p] = 1]
    /\ mail' = IF mode = "udp"
               THEN mail \cup {Hello(conn[p].sock, HostPort, 0, ses[p].game)}
               ELSE mail
    /\ UNCHANGED <<born, open, mode, ses, rom, backlog, room, queue, owner, said>>

ConnectFails(p) ==
    /\ Calls(p) /\ Returns(p)
    /\ ses[p].state = "joining" /\ Refuses(p) /\ Answer(p)
    /\ ses' = [ses EXCEPT ![p].state = "idle", ![p].relayed = FALSE]
    /\ UNCHANGED <<born, open, mode, hand, tries, rom, netVars, owner, said>>

(* The relay says something to a player who waits to be paired.  Only       *)
(* PEER_READY matters: the game is told to the peer, whose answer blocks.   *)
RelayHeard(p) ==
    /\ Calls(p)
    /\ ses[p].state = "relay waiting" /\ queue[ses[p].client] # <<>>
    /\ LET me == ses[p].client
           rest == [queue EXCEPT ![me] = Tail(@)]
       IN IF Head(queue[me]) = "ready"
          THEN /\ at' = [at EXCEPT ![p] = "checking"]
               /\ queue' = IF Seated(me)
                           THEN [rest EXCEPT ![Other(me)] = Append(@, ses[p].game)]
                           ELSE rest
               /\ said' = Names(p, 0, ses[p].game)
          ELSE Returns(p) /\ queue' = rest /\ UNCHANGED said
    /\ UNCHANGED <<connVars, mode, ses, hand, tries, rom, mail, backlog, room, owner>>

(* Twenty seconds of waiting: the relay answers a ping. *)
RelayPing(p) ==
    /\ Calls(p) /\ Returns(p)
    /\ ses[p].state = "relay waiting" /\ Seated(ses[p].client)
    /\ \A i \in DOMAIN queue[ses[p].client] : queue[ses[p].client][i] # "pong"
    /\ queue' = [queue EXCEPT ![ses[p].client] = Append(@, "pong")]
    /\ UNCHANGED <<connVars, mode, ses, hand, tries, rom, mail, backlog, room, owner, said>>

(* The relay's connection is lost, or it sends an error. *)
RelayLost(p) ==
    /\ Calls(p) /\ Returns(p)
    /\ ses[p].state = "relay waiting"
    /\ Drop(p, {})
    /\ ses' = [ses EXCEPT ![p] = Idle(@)]
    /\ UNCHANGED <<born, mode, hand, tries, rom, mail, owner, said>>

-----------------------------------------------------------------------------
(* Blocked in a handshake. *)

GivesUp(p) ==
    /\ open' = open \ {hand[p]}
    /\ hand' = [hand EXCEPT ![p] = None]
    /\ Returns(p)

(* NetplayJoinHandshake has its challenge: a host that has a guest sends    *)
(* token zero.  The second hello follows at once.                           *)
Answered(p) ==
    /\ at[p] = "hello" /\ Direct
    /\ \E m \in mail :
         /\ m.to = hand[p]
         /\ IF m.token # 0 /\ m.game = ses[p].game
            THEN \/ /\ mail' = mail \cup {Hello(hand[p], HostPort, m.token, ses[p].game)}
                    /\ said' = Names(p, m.token, ses[p].game)
                    /\ ses' = [ses EXCEPT ![p] =
                                 Timed([@ EXCEPT !.token = m.token, !.client = hand[p]])]
                    /\ hand' = [hand EXCEPT ![p] = None]
                    /\ Returns(p)
                    /\ UNCHANGED open
                 \/ (* The second hello cannot be sent. *)
                    /\ ses' = [ses EXCEPT ![p].state = "idle", ![p].token = m.token]
                    /\ GivesUp(p)
                    /\ UNCHANGED <<mail, said>>
            ELSE /\ ses' = [ses EXCEPT ![p].state = "idle"]
                 /\ GivesUp(p)
                 /\ UNCHANGED <<mail, said>>
    /\ UNCHANGED <<conn, threads, born, wanted, mode, emu, tries, rom, backlog,
                   room, queue, owner>>

(* 400 ms without an answer: a UDP guest repeats its hello.  It gives up    *)
(* after the last, or when one cannot be sent.                              *)
Unanswered(p) ==
    /\ at[p] = "hello" /\ Direct
    /\ \/ /\ mode = "udp" /\ tries[p] < Attempts
          /\ tries' = [tries EXCEPT ![p] = @ + 1]
          /\ UNCHANGED <<open, hand, at, ses>>
       \/ /\ ses' = [ses EXCEPT ![p].state = "idle"]
          /\ GivesUp(p)
          /\ UNCHANGED tries
    /\ UNCHANGED <<conn, threads, born, wanted, mode, emu, rom, netVars, owner, said>>

(* NetplayRelayHandshake: the first in the room is player one. *)
TakeRelaySeat(p) ==
    /\ at[p] = "hello" /\ ~Direct
    /\ \/ /\ Len(room.seats) < 2
          /\ room' = [room EXCEPT !.seats = Append(@, hand[p])]
          /\ ses' = [ses EXCEPT ![p].state = "relay waiting", ![p].client = hand[p],
                                ![p].role = (room.seats = <<>>)]
          /\ hand' = [hand EXCEPT ![p] = None]
          /\ Returns(p)
          /\ UNCHANGED open
       \/ /\ ses' = [ses EXCEPT ![p].state = "idle", ![p].relayed = FALSE]
          /\ GivesUp(p)
          /\ UNCHANGED room
    /\ UNCHANGED <<conn, threads, born, wanted, mode, emu, tries, rom, mail,
                   backlog, queue, owner, said>>

(* NetplayRelayGameCheck: the peer's game, its BYE or its input; a PONG is   *)
(* stepped over.                                                            *)
GameHeard(p) ==
    /\ at[p] = "checking" /\ queue[ses[p].client] # <<>>
    /\ LET me == ses[p].client
           frame == Head(queue[me])
       IN \/ /\ frame = ses[p].game
             /\ ses' = [ses EXCEPT ![p] = Timed(@)]
             /\ queue' = [queue EXCEPT ![me] = Tail(@)]
             /\ Returns(p)
             /\ UNCHANGED <<conn, threads, wanted, open, room, backlog>>
          \/ /\ frame \in (Games \cup {"bye", "input"}) \ {ses[p].game}
             /\ Drop(p, {})
             /\ ses' = [ses EXCEPT ![p] = Idle(@)]
             /\ Returns(p)
          \/ /\ frame = "pong"
             /\ queue' = [queue EXCEPT ![me] = Tail(@)]
             /\ UNCHANGED <<conn, threads, wanted, open, ses, at, room, backlog>>
    /\ UNCHANGED <<born, mode, emu, hand, tries, rom, mail, owner, said>>

(* Five seconds without the peer's game, or the connection is lost. *)
GameUnheard(p) ==
    /\ at[p] = "checking"
    /\ Drop(p, {}) /\ Returns(p)
    /\ ses' = [ses EXCEPT ![p] = Idle(@)]
    /\ UNCHANGED <<born, mode, emu, hand, tries, rom, mail, owner, said>>

-----------------------------------------------------------------------------
(* The rest of a pass. *)

(* Which machine is at the other end of p's session. *)
Linked(p, q) ==
    \/ ses[p].peer # None /\ ses[p].peer = ses[q].client
    \/ ses[q].peer # None /\ ses[q].peer = ses[p].client

(* The peer's pad for the frame in hand has been sent. *)
PeerInput(p) ==
    \/ ses[p].frames < Delay
    \/ /\ ~ses[p].relayed
       /\ \E q \in Machines : /\ Linked(p, q) /\ Exchanging(q)
                              /\ ses[q].token = ses[p].token
                              /\ ses[q].frames + Delay > ses[p].frames
    \/ /\ ses[p].relayed
       /\ queue[ses[p].client] # <<>> /\ Head(queue[ses[p].client]) = "input"

(* One NetplaySyncInputs that exchanges a frame, and the frame, unless the  *)
(* player has paused.                                                       *)
Exchange(p) ==
    /\ at[p] = "input" /\ Exchanging(p) /\ ses[p].frames < MaxFrames
    /\ ses[p].role => ses[p].hello \in {0, ses[p].token}
    /\ PeerInput(p)
    /\ ses' = [ses EXCEPT ![p].frames = @ + 1, ![p].hello = 0]
    /\ emu' = [emu EXCEPT ![p].ran = IF emu[p].paused THEN @ ELSE @ + 1]
    /\ at' = [at EXCEPT ![p] = "keys"]
    /\ LET me == ses[p].client
           read == IF ses[p].frames < Delay THEN queue
                   ELSE [queue EXCEPT ![me] = Tail(@)]
       IN queue' = IF ~ses[p].relayed THEN queue
                   ELSE IF Seated(me) /\ Len(room.seats) = 2
                   THEN [read EXCEPT ![Other(me)] = Append(@, "input")]
                   ELSE read
    /\ UNCHANGED <<connVars, mode, hand, tries, rom, mail, backlog, room, owner, said>>

(* NetplayPeerLost: the peer has gone quiet, or the socket fails.  A direct *)
(* host waits for the next guest: over TCP on the listener it has, over UDP *)
(* on a socket bound anew.                                                  *)
PeerLost(p) ==
    /\ at[p] = "input" /\ Exchanging(p)
    /\ at' = [at EXCEPT ![p] = "keys"]
    /\ IF ses[p].role /\ ~ses[p].relayed
       THEN /\ Len(owner) < MaxTokens
            /\ IF ses[p].server # None
               THEN /\ Drop(p, {ses[p].server})
                    /\ owner' = Append(owner, p)
                    /\ ses' = [ses EXCEPT ![p] = Waiting(p, @.server, TRUE)]
                    /\ UNCHANGED born
               ELSE /\ Abandon(p)
                    /\ UNCHANGED <<backlog, room, queue>>
                    /\ LET left == open \ ({ses[p].client} \cup ClosedByCancel(p))
                           fd == <<p, born[p] + 1>>
                       IN \/ /\ born[p] < MaxSockets
                             /\ born' = [born EXCEPT ![p] = @ + 1]
                             /\ open' = left \cup {fd}
                             /\ owner' = Append(owner, p)
                             /\ ses' = [ses EXCEPT ![p] = Waiting(p, fd, TRUE)]
                          \/ /\ open' = left
                             /\ ses' = [ses EXCEPT ![p] = Idle(@)]
                             /\ UNCHANGED <<born, owner>>
       ELSE /\ Drop(p, {})
            /\ ses' = [ses EXCEPT ![p] = Idle(@)]
            /\ UNCHANGED <<born, owner>>
    /\ UNCHANGED <<mode, emu, hand, tries, rom, mail, said>>

(* NetplayStartDone and the power cycle. *)
PowerCycle(p) ==
    /\ ses' = [ses EXCEPT ![p].start = FALSE]
    /\ emu' = [emu EXCEPT ![p].ran = 0]

(* A pass that exchanges nothing: the paused loop goes round, a session     *)
(* that has just connected power-cycles the console, else a frame runs.     *)
Pass(p) ==
    /\ at[p] = "input" /\ ~Exchanging(p)
    /\ at' = [at EXCEPT ![p] = "keys"]
    /\ IF ses[p].start /\ ses[p].state = "connected" /\ ~emu[p].paused
       THEN PowerCycle(p)
       ELSE UNCHANGED <<ses, emu>>
    /\ UNCHANGED <<connVars, mode, hand, tries, rom, netVars, owner, said>>

-----------------------------------------------------------------------------
(* The network and the relay. *)

(* A connect over TCP needs a listener; it then waits to be accepted.  UDP  *)
(* and the relay are always reached.                                        *)
Connected(t) ==
    /\ mode = "tcp" => ses[Host].server # None
    /\ Reach(t)
    /\ backlog' = IF mode = "tcp" THEN backlog \cup {SocketOf(t)} ELSE backlog

ConnectThread ==
    /\ \E t \in threads :
         \/ Connected(t)
         \/ /\ \/ Resolve(t) \/ Miss(t) \/ LastTest(t)
               \/ StoreSock(t) \/ StoreReady(t) \/ StoreFailed(t) \/ Return(t)
            /\ UNCHANGED backlog
    /\ UNCHANGED <<mode, ses, emu, at, hand, tries, rom, mail, room, queue, owner, said>>

(* The relay tells both sides of a full room that they are paired. *)
Announce ==
    /\ Len(room.seats) = 2 /\ ~room.ready
    /\ room' = [room EXCEPT !.ready = TRUE]
    /\ queue' = [s \in Sockets |-> IF Seated(s) THEN Append(queue[s], "ready")
                                   ELSE queue[s]]
    /\ UNCHANGED <<connVars, mode, ses, emu, at, hand, tries, rom, mail, backlog,
                   owner, said>>

-----------------------------------------------------------------------------
Panel(p) == \/ PressHost(p) \/ PressJoin(p) \/ PressDisconnect(p)
            \/ PressPause(p) \/ LoadRom(p)

Advance(p) ==
    \/ Nothing(p) \/ TurnAway(p) \/ Accept(p) \/ HandshakeFails(p)
    \/ HandshakeHeard(p) \/ Challenge(p) \/ UdpAdmit(p) \/ TakeSocket(p)
    \/ ConnectFails(p) \/ RelayHeard(p) \/ RelayPing(p) \/ RelayLost(p)

Blocked(p) ==
    \/ StartConnect(p) \/ Answered(p) \/ Unanswered(p) \/ TakeRelaySeat(p)
    \/ GameHeard(p) \/ GameUnheard(p)

Rest(p) == Exchange(p) \/ PeerLost(p) \/ Pass(p)

Machine(p) == Panel(p) \/ Advance(p) \/ Blocked(p) \/ Rest(p)

Next == ConnectThread \/ Announce \/ \E p \in Machines : Machine(p)

Spec == Init /\ [][Next]_vars

-----------------------------------------------------------------------------
States == {"idle", "waiting", "joining", "handshaking", "relay waiting", "connected"}

TypeOK ==
    /\ ConnTypeOK
    /\ mode \in {"udp", "tcp", "relay"}
    /\ \A p \in Machines :
         /\ ses[p].state \in States
         /\ ses[p].token \in 0..Len(owner) /\ ses[p].hello \in 0..Len(owner)
         /\ {ses[p].client, ses[p].peer, ses[p].server, hand[p]} \subseteq Sockets \cup {None}
         /\ ses[p].frames \in 0..MaxFrames
         /\ at[p] \in {"keys", "input", "starting", "hello", "checking"}
         /\ tries[p] \in 0..Attempts
    /\ Len(room.seats) <= 2

(* Every socket the session uses is open, belongs to nobody else, and a host *)
(* that waits can be reached, also after it has lost a guest: the listener   *)
(* it keeps is not closed with the rest, a UDP one is bound anew             *)
(* (net/netplay.c:480-505).                                                  *)
SocketsSound ==
    \A p \in Machines :
       LET mine == {ses[p].client, ses[p].server, hand[p]} \ {None}
       IN /\ mine \subseteq open
          /\ mine \cap Pending(p) = {}
          /\ ses[p].state = "waiting" =>
                 \/ mode = "tcp" /\ ses[p].server # None /\ ses[p].client = None
                 \/ mode = "udp" /\ ses[p].client # None /\ ses[p].peer = None

(* The emulator is held only on behalf of netplay, and what the player wants *)
(* outlasts it: "leaving a pause the player set alone" (net/netplay.c:580).  *)
PlayersPauseKept ==
    \A p \in Machines :
       IF emu[p].held THEN ~emu[p].wish ELSE emu[p].paused = emu[p].wish

(* Two machines of one session have the same token and game and are within   *)
(* the input delay of each other.                                            *)
SameSession ==
    \A p, q \in Machines :
       Exchanging(p) /\ Exchanging(q) /\ Linked(p, q) =>
          /\ ses[p].token = ses[q].token /\ ses[p].game = ses[q].game
          /\ ses[p].frames <= ses[q].frames + Delay

(* One frame of input is exchanged for every frame the console runs          *)
(* (net/netplay.h:15), from the power cycle on.                              *)
ExchangesAreFrames ==
    \A p \in Machines : Exchanging(p) => ses[p].frames = emu[p].ran

(* "A peer that sends input first predates the game check"                   *)
(* (net/netplay.c:368): one that does not is never taken for it.             *)
GameBeforeInput ==
    \A p \in Machines :
       at[p] = "checking" /\ queue[ses[p].client] # <<>>
          => Head(queue[ses[p].client]) # "input"

(* Who plays together has agreed on it, by token or by the relay's pairing   *)
(* and the game check (net/netplay.c:368 and 678).                           *)
PartnersAgree == SameSession /\ GameBeforeInput

(* The session keeps the promises of SessionPact.                            *)
Pact == INSTANCE SessionPact WITH
    offered <- [p \in Machines |->
                  IF ses[p].role /\ ses[p].state \in {"waiting", "handshaking"}
                  THEN ses[p].token ELSE 0],
    place <- [p \in Machines |->
                IF ses[p].state # "connected" THEN [phase |-> "out", token |-> 0, game |-> None]
                ELSE [phase |-> IF ses[p].start THEN "in" ELSE "playing",
                      token |-> ses[p].token, game |-> ses[p].game]]

KeepsPact == Pact!Init /\ [][Pact!Next]_(Pact!vars)

(* The session calls the connect thread only as CallerStep allows, so what  *)
(* is proved of ConnSpec holds here: it starts none while one is at work,   *)
(* and closes no socket that is still to be taken (net_connect_start, _poll *)
(* and _cancel in net/netplay.c).                                           *)
ConnectUsedRight == ConnInit /\ [][ConnNext]_connVars
=============================================================================
