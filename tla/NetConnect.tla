----------------------------- MODULE NetConnect -----------------------------
(***************************************************************************)
(* Connecting off the emulator's thread: net_connect_start, _poll and      *)
(* _cancel of unix/net_transport.c against the detached thread they share  *)
(* four unlocked statics with.  Every machine of a session has its own.    *)
(*                                                                         *)
(* The thread's stores are separate steps in program order, because the    *)
(* emulator's thread can run between any two of them.  A socket is named   *)
(* by its machine and a serial number, that of the request it answers.     *)
(***************************************************************************)
EXTENDS Naturals

CONSTANTS
    Machines,    \* the computers that play
    MaxSockets,  \* bound: sockets and connect requests per machine
    None         \* NET_SOCKET_NONE

ASSUME ConnectAssumption ==
    /\ MaxSockets \in Nat
    /\ None \notin Machines \X (1..MaxSockets)

VARIABLES
    conn,     \* net_conn_active, _cancel, _result and _sock of each machine
    threads,  \* connect threads that have not yet returned
    born,     \* the last serial number each machine has used
    wanted,   \* the request the session still wants answered; 0: none
    open      \* the sockets that are open

connVars == <<conn, threads, born, wanted, open>>

Sockets == Machines \X (1..MaxSockets)

(* Where a connect thread stands: each value names the step it takes next. *)
Steps == {"resolve", "connect", "test", "sock", "ready", "failed", "return"}

ConnTypeOK ==
    /\ conn \in [Machines -> [active : BOOLEAN, cancel : BOOLEAN,
                              result : {"pending", "ready", "failed"},
                              sock : Sockets \cup {None}]]
    /\ threads \subseteq [owner : Machines, request : 1..MaxSockets, at : Steps]
    /\ born \in [Machines -> 0..MaxSockets]
    /\ wanted \in [Machines -> 0..MaxSockets]
    /\ open \subseteq Sockets

ConnInit ==
    /\ conn = [p \in Machines |-> [active |-> FALSE, cancel |-> FALSE,
                                   result |-> "pending", sock |-> None]]
    /\ threads = {}
    /\ born = [p \in Machines |-> 0]
    /\ wanted = [p \in Machines |-> 0]
    /\ open = {}

-----------------------------------------------------------------------------
(* The thread. *)

SocketOf(t) == <<t.owner, t.request>>

(* The threads once t has gone on to its next step, or returned. *)
Moved(t, at) == (threads \ {t}) \cup {[t EXCEPT !.at = at]}

(* getaddrinfo: a name that does not resolve ends it, and so does a cancel. *)
Resolve(t) ==
    /\ t.at = "resolve"
    /\ \E found \in BOOLEAN :
         threads' = Moved(t, IF found /\ ~conn[t.owner].cancel
                             THEN "connect" ELSE "failed")
    /\ UNCHANGED <<conn, born, wanted, open>>

(* One connect that succeeds; the loop over addresses looks at the flag     *)
(* before each.                                                             *)
Reach(t) ==
    /\ t.at = "connect"
    /\ threads' = Moved(t, "test")
    /\ open' = open \cup {SocketOf(t)}
    /\ UNCHANGED <<conn, born, wanted>>

(* No address answers, or the flag stops the loop. *)
Miss(t) ==
    /\ t.at = "connect"
    /\ threads' = Moved(t, "failed")
    /\ UNCHANGED <<conn, born, wanted, open>>

(* The last time the thread looks at the flag. *)
LastTest(t) ==
    /\ t.at = "test"
    /\ IF conn[t.owner].cancel
       THEN threads' = Moved(t, "failed") /\ open' = open \ {SocketOf(t)}
       ELSE threads' = Moved(t, "sock") /\ UNCHANGED open
    /\ UNCHANGED <<conn, born, wanted>>

(* net_conn_active = 0, the thread's last store. *)
Return(t) ==
    /\ t.at = "return"
    /\ conn' = [conn EXCEPT ![t.owner].active = FALSE]
    /\ threads' = threads \ {t}
    /\ UNCHANGED <<born, wanted, open>>

StoreSock(t) ==
    /\ t.at = "sock"
    /\ conn' = [conn EXCEPT ![t.owner].sock = SocketOf(t)]
    /\ threads' = Moved(t, "ready")
    /\ UNCHANGED <<born, wanted, open>>

(* A variant of StoreReady: the flag goes down before the result is there. *)
StoreReadyUnlocked(t) ==
    /\ t.at = "ready"
    /\ IF conn[t.owner].active
       THEN /\ conn' = [conn EXCEPT ![t.owner].active = FALSE]
            /\ UNCHANGED threads
       ELSE /\ conn' = [conn EXCEPT ![t.owner].result = "ready"]
            /\ threads' = threads \ {t}
    /\ UNCHANGED <<born, wanted, open>>

StoreReady(t) ==
    /\ t.at = "ready"
    /\ conn' = [conn EXCEPT ![t.owner].result = "ready"]
    /\ threads' = Moved(t, "return")
    /\ UNCHANGED <<born, wanted, open>>

StoreFailed(t) ==
    /\ t.at = "failed"
    /\ conn' = [conn EXCEPT ![t.owner].result = "failed"]
    /\ threads' = Moved(t, "return")
    /\ UNCHANGED <<born, wanted, open>>

-----------------------------------------------------------------------------
(* What the emulator's thread calls.  The operators give the new value of   *)
(* the statics; the actions that call them are the session's.               *)

(* net_connect_start when no thread is at work; otherwise it refuses. *)
Started == [active |-> TRUE, cancel |-> FALSE, result |-> "pending", sock |-> None]

Thread(p, n) == [owner |-> p, request |-> n, at |-> "resolve"]

(* The thread could not be created. *)
StartedInVain == [Started EXCEPT !.active = FALSE]

(* net_connect_cancel closes what was published, if the thread is done. *)
Cancelled(c) == [c EXCEPT !.cancel = TRUE, !.result = "pending",
                          !.sock = IF c.active THEN c.sock ELSE None]

(* A variant of ClosedByCancel: it does not look whether the thread is done. *)
ClosedAnyway(p) == {conn[p].sock}

ClosedByCancel(p) == IF conn[p].active THEN {} ELSE {conn[p].sock}

(* net_connect_poll hands the socket over once it is ready. *)
HandsOver(p) == ~conn[p].active /\ conn[p].result = "ready"
HandedOver(c) == [c EXCEPT !.sock = None, !.result = "pending"]

Refuses(p) == ~conn[p].active /\ conn[p].result = "failed"
Reported(c) == [c EXCEPT !.result = "pending"]

-----------------------------------------------------------------------------
(* What the thread holds open or has published for a session to take. *)
Pending(p) == {SocketOf(t) : t \in {u \in threads : /\ u.owner = p
                                                    /\ u.at \in {"test", "sock"}}}
              \cup ({conn[p].sock} \ {None})

(* The thread against any caller that starts, polls and cancels as it likes *)
(* and owns what was handed over.                                           *)

ThreadStep == \E t \in threads :
    \/ Resolve(t)
    \/ Reach(t)
    \/ Miss(t)
    \/ LastTest(t)
    \/ StoreSock(t)
    \/ StoreReady(t)
    \/ StoreFailed(t)
    \/ Return(t)

(* Starting drops whatever a cancelled thread left behind. *)
Ask(p, n) ==
    /\ ~conn[p].active
    /\ conn' = [conn EXCEPT ![p] = Started]
    /\ threads' = threads \cup {Thread(p, n)}
    /\ wanted' = [wanted EXCEPT ![p] = n]

AskInVain(p) ==
    /\ ~conn[p].active
    /\ conn' = [conn EXCEPT ![p] = StartedInVain]
    /\ wanted' = [wanted EXCEPT ![p] = 0]
    /\ UNCHANGED threads

Abandon(p) ==
    /\ conn' = [conn EXCEPT ![p] = Cancelled(@)]
    /\ wanted' = [wanted EXCEPT ![p] = 0]
    /\ UNCHANGED threads

Answer(p) ==
    /\ wanted[p] # 0
    /\ \/ HandsOver(p) /\ conn' = [conn EXCEPT ![p] = HandedOver(@)]
       \/ Refuses(p) /\ conn' = [conn EXCEPT ![p] = Reported(@)]
    /\ wanted' = [wanted EXCEPT ![p] = 0]
    /\ UNCHANGED threads

(* Between the calls the session opens sockets of its own, under serial     *)
(* numbers of their own, and closes any but those still to be taken.        *)
CallerStep ==
    /\ \/ \E p \in Machines : \/ Ask(p, born'[p]) /\ born'[p] > born[p]
                           \/ AskInVain(p)
                           \/ Abandon(p)
                           \/ Answer(p)
       \/ UNCHANGED <<conn, threads, wanted>>
    /\ born' \in [Machines -> 0..MaxSockets]
    /\ \A p \in Machines : born'[p] >= born[p]
    /\ open' \subseteq Sockets
    /\ \A p \in Machines : Pending(p)' \cap open \subseteq open'

ConnNext == ThreadStep \/ CallerStep

ConnSpec == ConnInit /\ [][ConnNext]_connVars

-----------------------------------------------------------------------------
(* There is never more than one thread per machine, and the flag says when  *)
(* there is: "Only one runs at a time" (net/transport.h:69).                *)
OneAtATime ==
    \A p \in Machines :
       /\ \A t, u \in threads : t.owner = p /\ u.owner = p => t = u
       /\ conn[p].active <=> \E t \in threads : t.owner = p

(* What a poll is about to hand over is the open socket of the request the  *)
(* session is waiting for, never one of a connect it cancelled, although a  *)
(* cancelled thread still publishes its socket (unix/net_transport.c:509).  *)
HandoverIsOwn ==
    \A p \in Machines :
       wanted[p] # 0 /\ HandsOver(p) => conn[p].sock = <<p, wanted[p]>>
                                        /\ conn[p].sock \in open

(* An answer is never lost: a session that still waits has a thread at work *)
(* or an answer to poll, whatever was cancelled and restarted before.       *)
NoLostAnswer ==
    \A p \in Machines :
       wanted[p] # 0 /\ ~conn[p].active => conn[p].result # "pending"

(* The four unlocked statics are a sound hand-over between the two threads. *)
HandoverSound == OneAtATime /\ HandoverIsOwn /\ NoLostAnswer
=============================================================================
