# ZSNES: TLA+ models, model checking and proofs

ZSNES is a Super NES emulator in C with a netplay relay server in Go. Most of it is one thread
that turns emulated memory into pixels and samples. What is hard to test is the rest: machines
that find each other and are kept in lockstep over a lossy network, a connect thread without locks,
a relay whose goroutines race for a room, a rewind feature whose ring, timers and pause frame
interact with movies, three ways of handing sound to another thread, saved games between full
disks, crashes and settings, and a few state machines of the emulated machine with sharp edges.
The modules here model those, check them with TLC, and prove the central properties of the netplay
parts, the relay, rewind, sound, saves and the MSU-1 for every value of their constants with TLAPS.

Paths and line numbers refer to the repository's source tree (`src/`). `PROJECT.json` maps every
definition to its lines.

## 1. Inventory

| Component | State it keeps | Operations | What must hold |
|---|---|---|---|
| **Netplay lockstep** (`net/netplay.c:60-240, 810-994`, `net/packet.c`) | frame number, delay queue of own pads, ring of the peer's pads and checksums, ring of own checksums, patience | `NetplaySyncInputs`, `NetplayAwaitFrame`, `NetplayRecvPacket`, `NetplayStateHash`, `NetplaySessionResetTiming` | both consoles get the same pads frame by frame; a late packet ends nothing; a vanished peer ends the wait; a desync is reported, and only a real one |
| **Netplay session** (`net/netplay.c:240-800`, `net/znp.c`) | session state, role, sockets, token, game id, whether the emulator is held | host, join, cancel, handshakes over TCP, UDP and relay, re-hosting, `NetplayAdvanceState` | partners have the same token and game and start from a power cycle; a session inherits nothing; the player's pause survives |
| **Network transport** (`unix/net_transport.c`) | sockets; a connect thread's flags and result; STUN result | `net_recv_all`, `net_send_all`, `net_connect_start/poll/cancel` | a cancelled connect is never taken for the next; the packet boundary survives a deadline |
| **Relay server** (`server/main.go`) | room map under one mutex, each room's two seats under another, per connection a 64-frame queue and a `done` channel | `joinRoom`, `handle`, `runRelay` (reader and writer goroutine), `forward`, `peerOf`, `leaveRoom` | peers hear each other in order, after `PEER_READY`, and nobody else; the survivor is told; rooms are reclaimed |
| **Rewind** (`zstate.c:449-601, 740-767`, `cpu/c_rewind.c`, `cpu/c_execloop.c:400-560`) | ring of snapshots with two positions and a flag, two timers, pause frame and its mode, pause and step | snapshot, rewind, pause, step, pause-frame backup and restore | a rewind leads to a snapshot on the player's own timeline; the frames shown while paused leave no trace |
| **Movies** (`zmovie.c`) | kind, frame position, one position per snapshot slot | play, record, stop, take over, per-frame step, `zmv_rewind_save/load` | the movie's next input is the one of the next frame, also after rewinds |
| **Audio output** (`unix/audio.c`) | account of samples owed; libao request under a mutex; PipeWire byte ring that grows; SDL queue | `SoundWrite_ao` and its thread; `pw_ring_*` from two threads, calibration, resize; `SoundWrite_sdl` | no sample lost, repeated or reordered; no missed request; silence ends; sound and picture do not part |
| **Save states, SRAM** (`zstate.c`, `zpath.c`, `c_vcache.c`) | files, slot, automatic state, countdown, settings | `statesaver`, `stateloader`, `SaveSramData`, `OpenSramFile` | progress is on disk after the countdown and after an exit; the load key finds the last save; a torn file changes nothing |
| **Loading and patching** (`patch.c`, `initc.c`) | reader's buffer, record under way, ROM | `PatchUsingIPS` | a patch does what it says and its application ends |
| **MSU-1** (`chips/msu1*.c`) | track, positions, resume point, status | register writes, mixing, states | the mixer reads inside the track it should, and a loop goes on |
| **DMA, HDMA** (`cpu/c_dma.c`) | per channel: address, line counter, two bits | set-up, one line, restart in mid-frame | every scanline gets what its table says |
| **Interrupts, frame loop** (`cpu/c_execloop.c`, `cpu/c_execirq.c`) | scanline, H/V timers, enables | per-line dispatch | an interrupt fires once per condition |
| **SA-1** (`chips/c_sa1*.c`) | message and interrupt flags of two processors | register reads and writes | no message lost |
| CPU and DSP cores, cartridge chips, graphics, user interface, platform layers, debugger | | | data transformation, I/O or drawing (section 9) |

**How they interact.** `execloop` runs a frame and, at the vertical blank, asks the input layer
for pads. During a session that call is `NetplaySyncInputs`, which sends the local pad and blocks
until the peer's is there: directly, or through the relay, which holds the two connections of a
room together. Before that, every pass calls `NetplayAdvanceState`, which polls the connect thread
and runs the handshakes; the panel calls it too. After the input the same code looks at the pause
and rewind keys, calls `UpdateRewindC`/`ProcessRewindC` and then `ProcessMovies`, so a snapshot, a
rewind and a movie's next input happen in a fixed order within one pass. Drawing a frame pays the
sound account, which a thread of libao or the PipeWire server empties, and counts down to the next
save of the SRAM.

**Hard behaviours.** Datagrams that are lost, repeated, delayed, reordered or left from an
earlier session; deadlines that strike inside a packet; a cancelled connect that still publishes a
socket; two mutexes of the relay taken one after the other; full queues; a ring that wraps, is
rewound and wraps again; a pause frame that is taken, shown, and undone one pass later; a ring that
another thread resizes while it is written, with counters that wrap modulo 2^32 over a size that is
no power of two; a disk that fills up or a process that dies between two writes; a file that is
shorter than it says. `PROJECT.json` lists each at its line under `hazards`, with the properties
that watch it.

## 2. Modules

| Module | What it is |
|---|---|
| `LockstepPads` | abstract specification: one shared timeline of pad pairs |
| `NetplayLockstep`, `MCNetplayLockstep` | a running session on both machines, over UDP or a stream; TLC values |
| `NetplayLockstepProofs` | types, agreement, refinement of `LockstepPads`; desyncs, backlog, filed inputs, patience |
| `NetConnect` | the connect thread and its four unlocked statics, against any caller |
| `SessionPact` | abstract specification: who may be in a session with whom |
| `NetplaySession`, `MCNetplaySession` | the session's state machine on every machine, composed with `NetConnect`, the network, the relay's room and the held emulator; TLC values |
| `NetplaySessionProofs` | the connect thread hands over what was asked for; sockets, pauses and partners of a session; refinement of `SessionPact` |
| `Relay`, `MCRelay` | the relay's goroutines; TLC values |
| `RelayProofs` | types, order, rooms, seats; announcement for a pair |
| `RewindStack` | abstract specification: a stack of snapshots of one timeline |
| `Rewind`, `MCRewind` | ring, timers, pause frame, movies and frame loop; TLC values |
| `RewindStackProofs`, `RewindProofs` | the stack holds only moments of the console's past; the ring implements the stack and restores nothing unwritten; movies stay in step |
| `SoundClock` | the account of samples that all back ends keep |
| `AudioHandoff` | libao: the request, the mutex, the thread, closing and reopening |
| `SoundQueue` | abstract specification: what the sound server is promised of the samples |
| `AudioRing` | PipeWire: the ring, the emulator's thread and the server's |
| `AudioSdl`, `MCAudio` | SDL's queue; the three back ends for TLC |
| `AudioProofs` | proofs: libao loses no sample, no drift, SDL's lag; PipeWire's ring implements `SoundQueue` |
| `SaveFiles`, `SaveFilesProofs` | SRAM, states, slots and settings; what survives |
| `Patch` | applying an IPS patch |
| `HdmaTable` | abstract specification: the table an HDMA channel is given, line by line |
| `Hdma` | the channel, byte by byte |
| `Msu1` | the MSU-1's audio track |
| `MachineProofs` | the channel implements `HdmaTable`; a whole patch is applied as it reads; what the MSU-1's mixer reads |
| `MCMachine` | `SaveFiles`, `Patch`, `Hdma` and `Msu1` for TLC, one at a time |

Operators introduced as "a variant" or "a way to get ... wrong", and one-line operators beside the
one they vary (`ResumesAny`, `SlotStays`, `CutOffNever` and the like), are plausible slips; no
specification uses them. Each property is known to fail when one of them takes the place of the
operator it varies.

## 3. `NetplayLockstep` and the code

`NetplaySyncInputs` blocks in one place, so it is split there. `Begin` is everything up to the
send: the pad goes into `NetplayInputQueue`, the pad of `Delay` frames ago comes out, the hash
goes into `NetplayLocalCrcRing`, the packet is sent under `frame + Delay`. `Receive` and `Timeout`
are the two outcomes of a `NetplayRecvPacket` inside `NetplayAwaitFrame`. `Play` is the rest of
the call. `Disconnect` is the panel's, a failed send is `Begin(s, raw, FALSE)`. Variables carry the
names of the C statics in short form; the ring keeps joy, crc, frame and valid flag in one record.

Abstractions:

- The wire is the sequence of packets each side has sent. UDP may deliver any of them at any time,
  any number of times, and the datagrams in `Strays`. A stream delivers in order; `read` counts half
  packets, so that a deadline inside a packet (`Torn`) leaves the reader misaligned. Bytes read from
  the middle of a packet are `Garbage`: the codec's magic rejects them. `packet.c` is a lossless
  fixed layout and is a record here.
- A console is a function of the pads it has been given, so `StateHash` is that history. It assumes
  a divergence shows in the 256 hashed bytes of work RAM. A drifted console agrees with nobody.
- The pending-handshake branch of a host's first frame re-examines a packet that the same test has
  already accepted, so it cannot fail and is left out. Re-hosting after the loss of a guest belongs
  to `NetplaySession`; here a lost peer is an end.

## 4. `NetConnect`, `NetplaySession` and the code

`NetConnect`: each store of the detached thread is a step (`Resolve`, `Reach` or `Miss`,
`LastTest`, `StoreSock`, `StoreReady` or `StoreFailed`, `Return`), because the emulator's thread can
run between any two. `Started`, `Cancelled`, `HandedOver` and `Reported` are what
`net_connect_start`, `_cancel` and `_poll` make of `conn`, the four statics. The thread may be
composed with a caller of its own: `CallerStep` is the most a caller may do, `ConnSpec` the two
together. `NetplaySession` is proved to be such a caller (`ConnectUsedRight`), so what is proved of
`ConnSpec` holds of the session. A socket is named by its machine and request. The stores are taken
in program order although only the flags are volatile (section 7).

`NetplaySession`: an emulator's thread repeats one pass: keys and panel (`at = "keys"`), a call of
`NetplayAdvanceState`, the rest of the pass (`"input"`). Calls that block are places of their own:
`"starting"`, `"hello"` (the two join handshakes), `"checking"` (`NetplayRelayGameCheck`). `Panel` is
the player, `Advance` the `switch` of `NetplayAdvanceState` with one action per outcome, `Blocked`
the ends of blocking calls, `Rest` the exchange of one frame's input, the loss of the peer
(`NetplayHandleDisconnect`, which re-hosts) and the frame itself with the power cycle. `ses` holds the session statics, `emu` the
emulator's pause, the flag that netplay holds it, and a history variable `wish`: what the player
wants.

Abstractions: UDP packets are a set that is never emptied, so each may be lost, late, repeated and
out of order; over TCP a hello reaches only the socket it was sent to; the relay's room is two seats
and a queue per socket (`Relay` has the server's own races); exchanging a frame is one action when
the peer is within `Delay` (`NetplayLockstep` has its inside). The transport is fixed in a
behaviour. `SessionPact` says what comes of it: tokens are drawn by one host, a machine is in
a session only under a token and game that it and another have both named, an offer is taken up
once, input flows after the power cycle. `KeepsPact` maps `ses` to it.

## 5. `Relay` and the code

Every connection has a reader goroutine (`pc`) and a writer (`writer`). An action is what a
goroutine does between two points another can observe: taking `s.mu`, taking a room's mutex, a
channel operation, a write. `joinRoom` is `FindRoom` (under `s.mu`) then `TakeSeat` (under the
room's); `handle` continues with `Greet` and `Announce`; `runRelay` reads (`ReadInput`, `ReadPing`,
`ReadEnd`), `forward` is `PeerOf` and `Push`; `leaveRoom` is `FindRoomToLeave`, `Vacate`, `Inform`,
`Reap`, four separate critical sections as in the code. Room objects are named by the connection
that made them, so that an object and the map entry that may no longer name it are distinct.

Abstractions: one room code (entries of the map are only reached under their own code);
a connection is an accepted hello; frame encoding and the accept loop's limits are outside;
`IdleTimeout` is a `ReadEnd` that needs no cause, `WriteTimeout` a failed write to a `Faulty`
connection. When a queue holds frames and `done` is closed, Go's select may take either: `Write` and
`StopWriter` are both enabled.

## 6. `Rewind` and the code

One pass of `execloop` after the vertical blank: at `vblank` the keys and the menu are seen and a
stored pause frame is restored (`LeaveVblank`); if paused, `Hold` takes a pause frame that was
asked for and `LeaveHeld` shows it for a frame, steps, or waits; otherwise `Tick` or `Backup` is
`UpdateRewindC`, `Rewind` is `ProcessRewindC` with `RestoreCVFrame`, `ProcessMovies` is the movie's
step and `Frame` the emulated frame. `latest`, `earliest`, `passed`, `timer`, `dbl`, `mode` are
`LatestRewindPos`, `EarliestRewindPos`, `RewindPosPassed`, `RewindTimer`, `DblRewTimer`,
`PauseFrameMode`; `mslots` are the positions of `zmv_rewind_buffer`.

Abstractions:

- A console is the sequence of what happened to it. Each event carries the number of starts, loads
  and rewinds before it, so two consoles are equal only if they have the same past. A loaded state
  is one more event. Slots that nobody has written hold the empty sequence, an unwritten movie
  position is `None`.
- `Hasty = FALSE` excludes two things the code lets a player do: pausing before the first snapshot
  exists, and unpausing, starting or taking over something while a pause frame is pending. Section 7
  says what they lead to.
- At least one slot is allocated, and the pause frame's buffer is. The interval is constant during
  a run of the model. A reset while recording, chapters, old-format movies and rewinding during a
  netplay session are outside.

**Sound.** `SoundClock` is the three statements every `SoundWrite_*` starts with. `AudioHandoff`
splits libao's two threads where they take and release the mutex: `SoundWrite_ao` only tries the
lock (`pthread_mutex_trylock`) and pays the account only if it got it and no request waits; `SoundThread_ao` sleeps, takes
the request, renders and plays; `CloseDevice`, `OpenDevice` and `Terminate` are `InitSound` and
`DeinitSound`. `AudioRing` has the emulator's steps of one frame (`BeginFrame`, `Calibrate`,
`Settle`, `DropBacklog`, `WriteFrame`: each takes `pw_ring_lock` anew) and the server's callback (with
resize, underrun and priming). A sample is `Plain` or `Mark`, enough to see a lost, repeated or
swapped one; a byte is a sample, and `Wrap` stands for 2^32, chosen no multiple of any size. The
refinement of `SoundQueue` says exactly what the wrap costs: the samples queued at that moment.
Resampling only decides a block's length (`BlockSizes`).

**Saves.** The emulator does all of this on one thread, so an operation is the list `todo` of tasks
that `statesaver`, `stateloader`, `SaveSramData`, the GUI and the exit put there, and only a crash
comes between two. A file opened for writing is `Torn` until its last write succeeds. A state and a
console are records of what the machine is doing and its SRAM. `excused` marks the cases in which the
code itself lets memory and disk part: a file that cannot be opened or fully written, a state loaded
with its SRAM (section 7).

**Patch, HDMA, MSU-1.** `Patch` keeps the reader's position and buffer refills of `IPSget`, the record
under way and the growth of the ROM; places and lengths are one digit, so the marker and a place are
told apart as in the code. `Hdma` has the table as bytes and the channel's registers; the transfer of
a unit to its register is the list of bytes moved. `Msu1` has the register writes, the mixer's sample
and states; `inMemory`, `owner`, `suspended` and `heard` are history.

## 7. Runs

The bounds are constants of the `.cfg` files. `tlc -config X.cfg M` repeats any of them.

| Run | Question | Bounds, and why they are enough |
|---|---|---|
| `lockstep_udp` | Do both consoles get one timeline, whatever UDP does? `TypeOK`, `Agreement`, `PlaysTheSharedTimeline` | delay 1, ring 2, four frames, two pads, two strays: the ring is reused twice, a packet of any earlier frame can arrive at any later one, strays fall on slots in use. No limit on timeouts |
| `lockstep_stream` | Do waits end, does the session go on, is the backlog bounded, are desyncs found and only real ones? | delay 2, ring 3, eight frames: past the three exempt frames, ring and checksum ring wrap. Two late receives, one console may drift at any frame |
| `lockstep_torn` | violation of `LatePacketsSurvived` | one late receive, patience two |
| `session` | Do two machines only ever play with whom they agreed, keep their sockets, tokens and pauses apart, and implement the pact? | a host and a guest; two joins of the guest, two tokens, three sockets each, two frames, one other game: a guest leaves and comes back while its host still believes it there or has opened anew; every connect may be cancelled at every step. Who pauses and who loads differs by transport (`MCBounds`) |
| `relay_pair` | Order, announcement, pairing, information of the survivor, deadlock | two clients, queue of two, two messages each, pings: the queues fill, either leaves at any time |
| `relay_crowd` | Are rooms reclaimed and seats given up in every order of the locks? | four clients, one with another password, one with failing writes; nothing is forwarded, the queue cannot fill |
| `relay_orphan` | violation of `AnnouncedFirst` | three clients |
| `rewind_stack` | Is the ring a stack of moments of the player's timeline? `RewindsAsAStack` | three slots (one and two behave specially in `RestoreCVFrame`), interval 2, eleven frames, five rewinds, loads and starts: the ring fills, wraps, is emptied by rewinds and fills again; both pause options on |
| `rewind_movie` | Do movies stay in step, and is only what was written used? `MovieInStep`, `NothingUnwritten` | as above, with both kinds of movie, a movie of six frames that may end, pause options off |
| `audio` | Do all samples arrive once and in order, are requests served, does priming end? | 5/3 of a sample per frame, so that each leaves a remainder; seven frames, one reopening; a ring of three to six samples, blocks of one and two, counters modulo 7: they wrap with samples queued, at every size |
| `machine` | Do saves, patches, the HDMA channel and the MSU-1 keep their promises? | two slots, a countdown of three, failures and crashes at every write, AutoState with AutoIncSaveSlot or SRAM Check+Save with SRAMState, the check box ticked and unticked; all patches of up to five symbols, whole, overstated and understated; all tables of up to three entries, repeat flag at 4; three tracks, one of odd length, one whose loop point is past its end, one that loops at its end |
| `saves_busy` | violation of `BusyGameSaved` | the saves alone |

The histories and messages grow, so every model is bounded (`MaxFrame`, `MaxFrames`, `MaxBorn`,
`MaxTokens`, `MaxSockets`, `MaxLoads`, `FrameLimit`, `ReopenLimit`, `FormatLimit`). At the bound a
lockstep session stops (`Over`), the relay stops talking but can still leave, a rewinding player can
still rewind. No run replaces a definition. Deadlock is checked except in the runs that may
really stop: `audio` (sound shut down, or out of frames) and `machine` and `saves_busy` (machine off,
patch applied).

Parts that keep to themselves (the three back ends, the four parts of `MCMachine`) share a run; a
behaviour is one of the part chosen at its start. `HandTypeOK`, `RingTypeOK`, `NetplaySession!TypeOK`,
`SaveTypeOK`, `PatchTypeOK`, `HdmaTypeOK` and `MsuTypeOK` say what the variables hold; no run
checks them. `NetplaySessionProofs` and `SaveFilesProofs` prove what they need of types as part of their
invariants.

**Fairness.** `NetplayLockstep!FairSpec`: the emulator calls `NetplaySyncInputs` every frame and
the call goes on when it can; a stream's bytes are read when they are there; a receive with nothing
to return reaches its deadline. A player's leaving and a failing send are under none.
`Relay!FairSpec`: the Go scheduler runs every goroutine that can run; whether a client speaks or
leaves is its own affair and is under none. `AudioHandoff`: the operating system schedules the sound
thread. `AudioRing`: the emulator's thread runs, a callback that has begun ends, and a stream that
is streaming asks again; that the game goes on drawing is a hypothesis of `PrimingEnds`.
`SaveFiles`: an operation that has begun goes on (one thread, no waiting), and between two keys the
loop always runs a frame (strong fairness of `Frame`: visits to the GUI and repeated keys cannot
keep it away for ever). `Patch`: the loop goes on. The session, HDMA and MSU-1 runs are safety only.

**What the violations say.** Each is a disagreement between the code and something the repository
says of it; `PROJECT.json` quotes both.

1. `net_recv_all` forgets the part of a packet it has read when its deadline strikes
   (`unix/net_transport.c:279`). The stream is misaligned for good, and one late packet ends a
   session whose patience is twenty.
2. `leaveRoom` decides that a room is empty under one lock and deletes the map entry under another
   (`server/main.go:351, 360`). A client seated in between is orphaned and its input can reach a
   stranger.
3. A game that uses its SRAM as working memory sets the countdown back with every store
   (`cpu/mem_ops.h:408`) and is not saved while it runs; `doc/html/gui.htm:626` says it is written
   every few seconds.

**Divergences without a run of their own.** Seen while modelling; the models contain the behaviour
unless said otherwise.

- *Relay.* A room that one side has left stays open and seats a third client beside a survivor
  that is written nothing more (`server/main.go:6`). After its BYE the writer is gone but the
  reader still queues PONGs, and a full queue holds it for ever (`:426`). The comment at `:441` has
  the writer drain its queue on `done`; its select may stop with frames queued (`:388`). If writing
  `SERVER_HELLO` fails (`:226`) `done` is never closed.
- *Session.* With `Meddling = TRUE`, a pause or a loaded game during a session breaks
  `ExchangesAreFrames` (`cpu/c_execloop.c:489`). A BYE that arrives while a relay player waits is
  passed over (`net/netplay.c:757`). `NetplayUDPConfig` toggled in mid-wait mixes two transports
  (`:623`, outside the model). A cancelled connect whose socket nobody asks for again stays open
  (`unix/net_transport.c:526`). The connect thread's result and socket are neither volatile nor
  atomic (`:456`); the model takes their stores in program order.
- *Rewind.* With pause-after-rewind a rewind during playback consumes one input of the movie for a
  frame that is undone (`zstate.c:571`): `MovieInStep` needs `~PauseRewind`. A movie started while paused can be
  rewound to a position nobody wrote (`:563`): excluded by `~Hasty`, as is an unpause while a pause
  frame is pending (`cpu/c_execloop.c:498`). The rewind key works during netplay (`:522`).
  `RewindPosPassed` stays set when a full ring is rewound by two slots, so the next snapshot gives
  up the oldest although a slot is free (`zstate.c:525`); `RewindStack!Save` therefore may always
  give it up. The interval is read from a setting at two moments (`:538`); with no slot allocated
  a rewind divides by zero (`:546`).
- *Sound.* `DeinitSound` broadcasts without the mutex, so a thread between its test and its wait
  misses it and `pthread_join` never returns (`unix/audio.c:1583`). A device is closed while the
  thread may be playing on it (`:337`), a failed reopening leaves the thread to a second one
  (`:339`). libao gives a frame no samples at all while the lock is busy or a request waits, and
  never makes up for them, where a comment says "exactly one emulated frame's worth" (`:1276`);
  `SoundKeepsStep` counts the frames that were paid. A ring that cannot be allocated leaves size 0 (`:866`).
- *Saves.* The countdown ends although the SRAM file could not be opened (`zstate.c:1968`). SRAM
  that a state brought is not marked unsaved (`:424`). An automatic state older than the SRAM file
  is loaded over it (`initc.c:2441`). With `AutoInMovies = TRUE` the second state written during a
  movie breaks `LoadsSound` (`gui/c_gui.c:1190`). An exit by signal skips the second state
  (`unix/sdllink.c:460`). The power cycle of netplay blanks the SRAM in memory
  (`cpu/c_execute.c:165`). `mzt_load` goes on after a refused state (`zmovie.c:1746`).
- *Patch, MSU-1.* What a cut-off record lacks is filled with 0xFF (`patch.c:195`). With
  `Halves = TRUE`, a suspend between the two halves of a track number resumes a track at another's
  position, against `PositionOfTrack`. A loop point exactly at the end plays nothing
  (`chips/msu1emu.c:172`). A state keeps the position but not the track (`zstate.c:414`).

## 8. Proofs

All theorems hold for every value of the constants under the modules' assumptions. They assume
nothing about the network, the player or the game beyond the specification, except the hypotheses in
their statements.

**`NetplayLockstepProofs`.** `TypeCorrect`; `ConsolesAgree == Spec => []Agreement`;
`LockstepImplementsTimeline == Spec => PlaysTheSharedTimeline`, with positive delay, ring and patience, and
strays with the session's token only for frame 0. `Agreement` is not inductive: what a
side will play lies in its queue and ring. `IInv` (in `NetplayLockstep`) adds that a packet's place on the wire
fixes its frame (`SentInOrder`), that the delay queue is a window on what was sent
(`QueueHoldsLastSent`), that the pad in hand is the one due (`MineIsDue`), that what is filed under
a frame from `Delay` on is what the peer sent for it (`FiledAsSent`), and that what was played was
due on both sides (`PlayedAsSent`). Frames below `Delay` are never looked up, which is why a
leftover of the handshake, though it carries the right token, does no harm. Nothing in the argument
needs the ring to be larger than the delay: a ring too small would lose inputs, not exchange them.

The checksums do need it. `DesyncsAreReal` (`NoFalseDesync`) and `DriftsAreReported`
(`DesyncNoticed`) assume `Delay < Ring`, as the source has it (`net/netplay.c:66, 79`).
`HashInv` adds to `IInv` that a packet and a filed input carry the hash their console had as it began
that frame (`SentWithHash`, `FiledWithHash`), that the local ring still holds the hashes of the last
`Ring` frames (`HashesKept`), and that a drift is never in the future. `SameFrameCompared` is then where
the ring must outlast the delay: the two checksums compared are of one frame. That two sound
consoles have one hash there is `Agreement`.

On a stream, `ReadAlong` says how far a side has read for what it has filed and played; with the
lead of a console over the other's packets (`FrameLead`) it gives `BacklogStaysBounded`. If no
deadline tears a packet (`Whole`), at most one input is filed, the one of the frame in hand, and the
position is known exactly (`OneFiled`): `FiledInputsAreKept`. Then two sides never both wait with nothing on
its way to either (`QuietIsGone`), so every timeout is either a hitch or the peer's absence, and
patience left and hitches spent add up (`PatienceCounts`): `LatenessIsForgiven`, over UDP or an untorn
stream. That hypothesis cannot go: `lockstep_torn` is its counterexample. `Hitches # None` is not a
restriction of the code: the history variable counts late receives only where their number is bounded.

**`NetplaySessionProofs`, the connect thread.** `AnswersAreOwn == ConnSpec => []HandoverSound`, for any machines, any number of
requests and any caller: there is never more than one thread per machine, no answer is lost, and
what is handed over is the open socket of the request that is waited for. The invariant says for
each place of the thread what it must have by then (`ThreadSound`): if anybody still waits, it works
on that request; from `"ready"` on the socket published is its own; and it holds its socket open.
What makes it work without a lock is that a new request needs `active` down, which is the thread's
last store. A thread's step is looked at on its own machine only (`OwnStep`), a call on the machine
that makes it (`CallOf`).

**`NetplaySessionProofs`, the session.** For any machines, games, transports, delay and bounds, under
`SessionAssumption` (the host is a machine; a game is told apart from the relay's frames). `Sane` is
what everything rests on: each session record has the shape its state and its thread's place call for
(`Shapely`), the connect thread is sound (`ConnInv`), and the sockets of a machine are open, drawn by
itself and distinct from those its thread holds or has left to be taken (`Held`). From it
`CallsAreAllowed` (the session calls start, poll and cancel only as `CallerStep` allows), hence
`HandoverHolds` by `AnswersAreOwn`, and `SocketsAreSound`.

`Turns` then says what any step of a machine can be to its session: nothing (`Still`), an end, a token
drawn, a frame exchanged, a power cycle begun, or an entry as host, guest or relay player. The other
theorems go by these few cases and no longer by the handlers. `PausesArePlayers`
needs nothing more; `ExchangesRunFrames` assumes `~Meddling`, without which it is false (section 7), and
counts frames from the power cycle (`Counted`).

`PartnersDoAgree` has two arguments. Direct sessions: `Words` says that tokens are drawn by the host
alone, that a hello with a token repeats what the host named, that a socket says it of one token only,
and that whoever is connected has said so; so whoever is linked has one token and one game. `Pace` keeps
guest and host within the delay. The relay: `Paired` relates the room to the queues. A player who
waits will read the announcement, then the game, then input, in that order (`Waiter`); who is past that
has sent the other its game (`Met`); and whatever game waits in a queue has been named by somebody else
(`Heard`). `SessionKeepsPact == Spec => KeepsPact` maps each step by `Turns` to a step of `SessionPact` or a
stutter; `Words` and `Paired` supply what entering a session requires there: that the partner has named
the same token and game, and that the offer has not been taken up.

**`RelayProofs`.** For any number of connections, any passwords and capacities, and writes that may
fail, `RelayTypeCorrect`, `RelayKeepsOrder` (`InOrder`), `NoRoomLeaks` (`RoomsReclaimed`) and `SeatsAreAlive`
(`NoGhostSeats`) follow from one invariant. `Watched`: a room in the map has somebody in a seat, or a
connection on its way to take one, or one that has seen it empty and will remove it (`Sweeper`).
`Seated`: whoever holds a seat of the room in the map has not yet vacated it. `Fresh`: the name of a
room that may yet be made is known to nobody. `InLine`: what a client has received and has queued is in
the order it was said, and nothing in it is later than what its sender has handed on (`Told`).
`PairHearsAnnounced` proves `AnnouncedFirst` for two connections whose writes succeed: as long as nobody has
left both sit in one room (`Together`), the guest knows the host from the start and the host the
guest before the guest relays (`Met`), so every input queued stands behind the announcement (`Marked`).
With a third connection it is false: that is the run `relay_orphan`.

**`RewindProofs`.** Everything hangs on where the ring begins and how much of it is in use: `Kept`
computes the number of snapshots from the two positions and the flag, and `RingShape`,
`BackupShape` and `RewindShape` say what a snapshot and a rewind do to it, with the remainders taken
away by `ModWrap`. The inductive invariant is `TypeOK /\ Standing /\ Written`: `Standing` says where
the loop may be with an empty ring, a pause or each mode of the pause frame, `Written` that every
slot in use, the pause frame when it is pending, and the movie positions of those slots have been
written. It yields `RewindTypeCorrect` (with `dbl \in {timer, timer + Interval}`: the two timers
never part) and `OnlyWrittenRestored`. The refinement maps the ring to the sequence `Window` from oldest to
newest, the console to `Shown` (the pause frame while one is pending) and the two timers to one
flag. `RewindImplementsStack` shows each step a step of `RewindStack` or a stutter, and
`SnapshotsArePast` carries `RewindStackProofs!StackKeepsTimeline` through it: every snapshot is a
moment of the player's own past and of the snapshots newer than it. All assume `~Hasty`.

**`RewindProofs`, movies.** `MovieStaysInStep` assumes `~Hasty` and `~PauseRewind`. The strengthening:
every slot's movie position fits its console (`RingInStep`), so does the console's own
(`ConsoleInStep`), and a rewind that pauses only happens on the paused path, which takes no input
(`PausesWhenHeld`).

**`SaveFilesProofs`.** `SramIsKept`, `TornStatesNeverLoaded`, and `LoadsAreSound` under `~AutoInMovies`,
for any number of slots, any countdown and any contents. Three layers: `TaskInv` says which lists of
tasks can be (an operation ends before its process does); `DiskInv` says that an SRAM is on disk,
pending in the countdown, about to be written by what is left of the list, or excused; `SlotInv` says
that `ZStateName` leaves the chosen slot only for an operation that is sure to bring it back, and
that a slot moved for a save that fails is moved back.

**`MachineProofs`, functions that call themselves.** Where an entry of a table starts, or what a patch says
from a record on, is a function defined by its own values further down or up. That there is one
(`Iterated`, `Climbing`), and that it has a property everywhere (`UpTo`), is shown without the library's induction
theorems: a set of naturals that holds 0 and every successor holds them all, since otherwise the
numbers below the one it lacks would map one to one into fewer (`Induct`, from the pigeonhole
theorem). `Flattened` says where each of several sequences lies once they are laid end to end.

**`MachineProofs`, HDMA.** `WalksItsTable == HdmaSpec => WalksTable`, for tables of any length and units of any width.
`Starts` and `EntryRead` say what the bytes of the table are where an entry begins, `UnitRead` and
`DataRead` what the bytes of its units are. The invariant `WalkInv` is that a channel that runs has
just been set up, or has had `j` of the lines of entry `i` (`AtLine`): that fixes the count, the line counter,
the address and the pointer. A line then either goes on with entry `i` (`EntryContinued`), or begins the
next or finds the end (`EntryTaken`), where the address is the start of that entry, whether the last one
repeated, skipped its unit or was a pointer (`EntryOver`).

**`MachineProofs`, patches.** `PatchesAreApplied == PatchSpec => []PatchedAsSaid`, for any patch whose bytes are told
apart from those the ROM had. The invariant `PatchInv`: the ROM has the first `c` writes the patch says and
no other (`Taken`), the last one made to each place being the one that stands (`Latest`), and what the
records from the next on say is the rest (`Left`); inside a record, `m` of its bytes are among the `c`. A patch
that is all there is never found cut off (`Readable`), so the end is the end of the list or the
first write past the largest ROM.

**`MachineProofs`, MSU-1.** `PairsAreInTheTrack`, `LoopsGoOn`, and `TracksStaySound` under `~Halves`. Positions,
lengths and loop points are even (`EvenPlaces`), the length and loop point in use are those of the
file in memory (`BufferIsTrack`), hence the second sample of a pair is inside when the first is;
`Owners` follows a position from the track it was counted in through suspend and resume.

**`AudioProofs`.** `SamplesOnce == HandSpec => []EverySampleOnce`, `HandKeepsAccount == HandSpec =>
[]NoDrift` and `SoundStaysInStep == SdlSpec => []SoundKeepsStep`, for any rate and any device.
`NoDrift` is an inequality no step preserves by itself; `ClockInv`
is the equation behind it, `owed * LO + balance = paid * HI + HI` with `balance` in `HI .. HI + LO - 1`,
which `Pay` keeps because quotient and remainder make up the balance. For libao (`HandInv`) the
thread holds samples only between taking and rendering them; for SDL (`SdlInv`) a frame owes at most
`Frame` samples (`DueFits`), so a queue below its limit gains no more than that.

`RingKeepsOrder == RingSpec => SamplesInOrder` is the refinement of `SoundQueue` by PipeWire's ring, for any
`Wrap` greater than the ring may become. It needs two facts of the ring (`RingInv`): it is never fuller
than it has places, and nobody writes before it is allocated. The rest is about counters and places.
Counters less than a ring's size apart have different places (`FarMod`), so a block disturbs no sample
that stays queued (`WriteAt`) and a read blanks none (`FreeLeaves`). A sample written since the head
counter last wrapped stands at the place of its own counter (`NewestAt`); an older one is found where
`tail` says only modulo `Wrap`, and as `Wrap` is no multiple of the size, that place may be another's.
Hence the promise: `WritePuts` keeps the newest `Settled` samples and, on the write that wraps, none;
`ReadTakes` and `ResizeMoves` go by runs of places and are exact while no counter wraps inside the queue
(`StraightAt`); `DropSkips` reads nothing and is always exact.

**Only model-checked.** Liveness (`WaitEnds`, `SessionGoesOn`, `PairingCompletes`,
`SurvivorInformed`, `RequestsServed`, `PrimingEnds`, `QuietGameSaved`, `PatchEnds`), which needs
fairness and `ENABLED`. `AnnouncedFirst` is proved for two connections and fails with three.

## 9. Not modelled

- The 65816, SPC700, SA-1 and Super FX instruction sets, the DSP and the decompression and
  arithmetic chips: single-threaded data transformation over states no model checker can hold, for
  which `test/` has unit tests. The interrupts' H/V timing and the hand-over between the SA-1 and
  the main processor hang on their cycle counts.
- Rendering, filters, the user interface, ROM detection and unpacking, configuration parsing,
  windowing and input devices: drawing, parsing, tables and I/O. Where the interface changes the
  state of a modelled part (starting a movie, pausing, ticking a box, leaving a session) that part
  has the action. These and the instruction sets are most of the repository's lines, which is why
  the lines the models stand for are few beside the whole: the control worth checking is
  concentrated in some ten files.
- General DMA, the eight transfer patterns, the MSU-1's data port and volume: loops over data with
  nothing that a second actor or a later step could disturb.
- The layout, compression and older versions of state and movie files, chapters, raw dumps; STUN,
  name resolution, socket options and the Windows twin of the transport.
- Vendored code (`miniz.c`, `snes_ntsc.c`, `mmlib`) and generators.

## 10. What could follow

Movie chapters and truncation, and a rewind interval that changes, in `Rewind`; a change of
transport in mid-wait in `NetplaySession`. As a theorem: `AnnouncedFirst` for any number of connections of which only two ever share a room.
