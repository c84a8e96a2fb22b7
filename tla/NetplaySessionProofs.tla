----------------------- MODULE NetplaySessionProofs -----------------------
(***************************************************************************)
(* Proofs about the connect thread and the session set up with it, for any *)
(* machines, games, bounds and transport.                                  *)
(*                                                                         *)
(* Sane is the invariant everything rests on: the records have the shape   *)
(* their state calls for (Shapely), the connect thread and its statics     *)
(* agree (ConnInv), and no socket is used twice (Held).  Turns says what   *)
(* any step of a machine is to its session.  Words and Pace are about      *)
(* direct sessions, Paired about the relay's room and queues; together     *)
(* they give the agreement of partners and the refinement of SessionPact.  *)
(***************************************************************************)
EXTENDS NetplaySession, TLAPS

Statics == [active : BOOLEAN, cancel : BOOLEAN, result : {"pending", "ready", "failed"},
            sock : Sockets \cup {None}]
Threads == [owner : Machines, request : 1..MaxSockets, at : Steps]

(* What a thread has to show for where it stands.  One the session still   *)
(* waits for works on that request, and has answered before it returns.    *)
HasSocket(t) ==
    t.at \in {"test", "sock", "ready"} \/ (t.at = "return" /\ conn[t.owner].result = "ready")

ThreadSound(t) ==
    /\ wanted[t.owner] # 0 => t.request = wanted[t.owner]
    /\ t.at = "ready" \/ (t.at = "return" /\ conn[t.owner].result = "ready")
         => conn[t.owner].sock = SocketOf(t)
    /\ HasSocket(t) => SocketOf(t) \in open
    /\ t.at = "return" /\ wanted[t.owner] # 0 => conn[t.owner].result # "pending"

(* What an idle machine has for a session that waits. *)
AnswerSound(p) ==
    wanted[p] # 0 /\ ~conn[p].active =>
        /\ conn[p].result # "pending"
        /\ conn[p].result = "ready" => conn[p].sock = <<p, wanted[p]>> /\ conn[p].sock \in open

ConnInv ==
    /\ ConnTypeOK
    /\ OneAtATime
    /\ \A t \in threads : ThreadSound(t)
    /\ \A p \in Machines : AnswerSound(p)

LEMMA ConnInvInit == ConnInit => ConnInv
<1> SUFFICES ASSUME ConnInit PROVE ConnInv
  OBVIOUS
<1>1. ConnTypeOK
  BY ConnectAssumption DEF ConnInit, ConnTypeOK
<1> QED
  BY <1>1 DEF ConnInit, ConnInv, OneAtATime, AnswerSound

-----------------------------------------------------------------------------
(* A thread that goes on takes nobody else along. *)
LEMMA MovedFacts ==
    ASSUME ConnInv, NEW t \in threads, NEW s \in Steps
    PROVE  /\ Moved(t, s) \subseteq Threads
           /\ \E u \in Moved(t, s) : u.owner = t.owner
           /\ \A u \in threads : u.owner # t.owner => u \in Moved(t, s)
           /\ \A u \in Moved(t, s) :
                \/ u \in threads /\ u.owner # t.owner
                \/ u.owner = t.owner /\ u.request = t.request /\ u.at = s /\ u = [t EXCEPT !.at = s]
<1>1. t \in Threads /\ threads \subseteq Threads
  BY DEF ConnInv, ConnTypeOK, Threads
<1>2. [t EXCEPT !.at = s] \in Threads /\ [t EXCEPT !.at = s].owner = t.owner
      /\ [t EXCEPT !.at = s].request = t.request /\ [t EXCEPT !.at = s].at = s
  BY <1>1 DEF Threads
<1>3. \A u \in threads : u.owner = t.owner => u = t
  BY <1>1 DEF ConnInv, OneAtATime, Threads
<1> QED
  BY <1>1, <1>2, <1>3 DEF Moved

LEMMA OneMoved ==
    ASSUME ConnInv, NEW t \in threads, NEW s \in Steps, threads' = Moved(t, s),
           \A p \in Machines : conn'[p].active = conn[p].active
    PROVE  OneAtATime'
<1>1. ASSUME NEW p \in Machines, NEW u \in threads', NEW v \in threads', u.owner = p, v.owner = p
      PROVE  u = v
  <2>1. CASE p = t.owner
    BY <1>1, <2>1, MovedFacts
  <2>2. CASE p # t.owner
    BY <1>1, <2>2, MovedFacts DEF ConnInv, OneAtATime
  <2> QED
    BY <2>1, <2>2
<1>2. ASSUME NEW p \in Machines
      PROVE  conn'[p].active <=> \E u \in threads' : u.owner = p
  <2>1. conn[p].active <=> \E u \in threads : u.owner = p
    BY DEF ConnInv, OneAtATime
  <2>2. (\E u \in threads : u.owner = p) <=> \E u \in threads' : u.owner = p
    BY MovedFacts
  <2> QED
    BY <2>1, <2>2
<1> QED
  BY <1>1, <1>2 DEF OneAtATime

(* The other machines notice nothing. *)
LEMMA OthersKeep ==
    ASSUME ConnInv, NEW t \in threads, UNCHANGED wanted,
           \A p \in Machines \ {t.owner} : conn'[p] = conn[p],
           open \ {SocketOf(t)} \subseteq open'
    PROVE  /\ \A u \in threads : u.owner # t.owner => ThreadSound(u)'
           /\ \A p \in Machines \ {t.owner} : AnswerSound(p)'
<1>1. ASSUME NEW u \in threads, u.owner # t.owner PROVE ThreadSound(u)'
  <2>1. u.owner \in Machines \ {t.owner} /\ SocketOf(u) # SocketOf(t) /\ ThreadSound(u)
    BY <1>1 DEF ConnInv, ConnTypeOK, SocketOf
  <2>2. conn'[u.owner] = conn[u.owner] /\ (SocketOf(u) \in open => SocketOf(u) \in open')
    BY <2>1
  <2> QED
    BY <2>1, <2>2 DEF ThreadSound, HasSocket, SocketOf
<1>2. ASSUME NEW p \in Machines \ {t.owner} PROVE AnswerSound(p)'
  <2>1. conn'[p] = conn[p] /\ AnswerSound(p) /\ <<p, wanted[p]>> # SocketOf(t)
    BY <1>2 DEF ConnInv, SocketOf
  <2> QED
    BY <2>1 DEF AnswerSound
<1> QED
  BY <1>1, <1>2

(* So a step of a thread need only be looked at on its own machine. *)
LEMMA OwnStep ==
    ASSUME ConnInv, NEW t \in threads, NEW s \in Steps, threads' = Moved(t, s), ConnTypeOK',
           UNCHANGED wanted, \A p \in Machines \ {t.owner} : conn'[p] = conn[p],
           conn'[t.owner].active = conn[t.owner].active, open \ {SocketOf(t)} \subseteq open',
           ThreadSound([t EXCEPT !.at = s])'
    PROVE  ConnInv'
<1>1. OneAtATime'
  BY OneMoved
<1>2. \A u \in threads' : ThreadSound(u)'
  BY MovedFacts, OthersKeep
<1>3. AnswerSound(t.owner)'
  BY DEF ConnInv, OneAtATime, AnswerSound, ConnTypeOK
<1>4. \A p \in Machines : AnswerSound(p)'
  BY <1>3, OthersKeep
<1> QED
  BY <1>1, <1>2, <1>4 DEF ConnInv

-----------------------------------------------------------------------------
(* The steps of the thread. *)
LEMMA Going ==
    ASSUME ConnInv, NEW t \in threads, NEW s \in Steps
    PROVE  LET u == [t EXCEPT !.at = s]
           IN  /\ u.owner = t.owner /\ u.request = t.request /\ u.at = s /\ SocketOf(u) = SocketOf(t)
               /\ t.owner \in Machines /\ SocketOf(t) \in Sockets
               /\ conn[t.owner] \in Statics /\ ThreadSound(t)
BY DEF ConnInv, ConnTypeOK, SocketOf, Sockets, Statics

LEMMA ThreadKeeps ==
    ASSUME ConnInv, NEW t \in threads,
           Resolve(t) \/ Reach(t) \/ Miss(t) \/ LastTest(t) \/ StoreSock(t) \/ StoreReady(t) \/ StoreFailed(t)
    PROVE  ConnInv'
<1>0. /\ t.owner \in Machines /\ SocketOf(t) \in Sockets /\ conn[t.owner] \in Statics /\ ThreadSound(t)
      /\ conn \in [Machines -> Statics] /\ open \subseteq Sockets
      /\ {"resolve", "connect", "test", "sock", "ready", "failed", "return"} \subseteq Steps
  BY Going DEF ConnInv, ConnTypeOK, Statics, Steps
<1>1. ASSUME NEW s \in Steps, threads' = Moved(t, s), UNCHANGED <<conn, born, wanted>>,
             open \ {SocketOf(t)} \subseteq open', open' \subseteq Sockets,
             ThreadSound([t EXCEPT !.at = s])'
      PROVE  ConnInv'
  <2>1. ConnTypeOK'
    BY <1>1, MovedFacts DEF ConnInv, ConnTypeOK, Threads
  <2> QED
    BY <1>1, <2>1, OwnStep
<1>2. CASE Resolve(t)
  <2>1. PICK s \in {"connect", "failed"} : threads' = Moved(t, s) /\ UNCHANGED <<conn, born, wanted, open>>
    BY <1>2 DEF Resolve
  <2>2. ThreadSound([t EXCEPT !.at = s])'
    BY <1>0, <2>1, Going DEF ThreadSound, HasSocket
  <2> QED
    BY <1>0, <1>1, <2>1, <2>2
<1>3. CASE Reach(t)
  <2>1. threads' = Moved(t, "test") /\ open' = open \cup {SocketOf(t)} /\ UNCHANGED <<conn, born, wanted>>
    BY <1>3 DEF Reach
  <2>2. ThreadSound([t EXCEPT !.at = "test"])'
    BY <1>0, <2>1, Going DEF ThreadSound, HasSocket
  <2> QED
    BY <1>0, <1>1, <2>1, <2>2
<1>4. CASE Miss(t)
  <2>1. threads' = Moved(t, "failed") /\ UNCHANGED <<conn, born, wanted, open>>
    BY <1>4 DEF Miss
  <2>2. ThreadSound([t EXCEPT !.at = "failed"])'
    BY <1>0, <2>1, Going DEF ThreadSound, HasSocket
  <2> QED
    BY <1>0, <1>1, <2>1, <2>2
<1>5. CASE LastTest(t)
  <2>1. CASE conn[t.owner].cancel
    <3>1. threads' = Moved(t, "failed") /\ open' = open \ {SocketOf(t)} /\ UNCHANGED <<conn, born, wanted>>
      BY <1>5, <2>1 DEF LastTest
    <3>2. ThreadSound([t EXCEPT !.at = "failed"])'
      BY <1>0, <3>1, Going DEF ThreadSound, HasSocket
    <3> QED
      BY <1>0, <1>1, <3>1, <3>2
  <2>2. CASE ~conn[t.owner].cancel
    <3>1. t.at = "test" /\ threads' = Moved(t, "sock") /\ UNCHANGED <<conn, born, wanted, open>>
      BY <1>5, <2>2 DEF LastTest
    <3>2. ThreadSound([t EXCEPT !.at = "sock"])'
      BY <1>0, <3>1, Going DEF ThreadSound, HasSocket
    <3> QED
      BY <1>0, <1>1, <3>1, <3>2
  <2> QED
    BY <2>1, <2>2
<1>6. CASE StoreSock(t)
  <2>1. /\ t.at = "sock" /\ conn' = [conn EXCEPT ![t.owner].sock = SocketOf(t)]
        /\ threads' = Moved(t, "ready") /\ UNCHANGED <<born, wanted, open>>
    BY <1>6 DEF StoreSock
  <2>2. /\ conn' \in [Machines -> Statics] /\ \A p \in Machines \ {t.owner} : conn'[p] = conn[p]
        /\ conn'[t.owner].active = conn[t.owner].active /\ conn'[t.owner].sock = SocketOf(t)
    BY <1>0, <2>1 DEF Statics
  <2>3. ThreadSound([t EXCEPT !.at = "ready"])'
    BY <1>0, <2>1, <2>2, Going DEF ThreadSound, HasSocket
  <2>4. ConnTypeOK'
    BY <1>0, <2>1, <2>2, MovedFacts DEF ConnInv, ConnTypeOK, Threads, Statics
  <2> QED
    BY <1>0, <2>1, <2>2, <2>3, <2>4, OwnStep
<1>7. CASE StoreReady(t)
  <2>1. /\ t.at = "ready" /\ conn' = [conn EXCEPT ![t.owner].result = "ready"]
        /\ threads' = Moved(t, "return") /\ UNCHANGED <<born, wanted, open>>
    BY <1>7 DEF StoreReady
  <2>2. /\ conn' \in [Machines -> Statics] /\ \A p \in Machines \ {t.owner} : conn'[p] = conn[p]
        /\ conn'[t.owner].active = conn[t.owner].active /\ conn'[t.owner].sock = conn[t.owner].sock
        /\ conn'[t.owner].result = "ready"
    BY <1>0, <2>1 DEF Statics
  <2>3. ThreadSound([t EXCEPT !.at = "return"])'
    BY <1>0, <2>1, <2>2, Going DEF ThreadSound, HasSocket
  <2>4. ConnTypeOK'
    BY <1>0, <2>1, <2>2, MovedFacts DEF ConnInv, ConnTypeOK, Threads, Statics
  <2> QED
    BY <1>0, <2>1, <2>2, <2>3, <2>4, OwnStep
<1>8. CASE StoreFailed(t)
  <2>1. /\ conn' = [conn EXCEPT ![t.owner].result = "failed"]
        /\ threads' = Moved(t, "return") /\ UNCHANGED <<born, wanted, open>>
    BY <1>8 DEF StoreFailed
  <2>2. /\ conn' \in [Machines -> Statics] /\ \A p \in Machines \ {t.owner} : conn'[p] = conn[p]
        /\ conn'[t.owner].active = conn[t.owner].active /\ conn'[t.owner].result = "failed"
    BY <1>0, <2>1 DEF Statics
  <2>3. ThreadSound([t EXCEPT !.at = "return"])'
    BY <1>0, <2>1, <2>2, Going DEF ThreadSound, HasSocket
  <2>4. ConnTypeOK'
    BY <1>0, <2>1, <2>2, MovedFacts DEF ConnInv, ConnTypeOK, Threads, Statics
  <2> QED
    BY <1>0, <2>1, <2>2, <2>3, <2>4, OwnStep
<1> QED
  BY <1>2, <1>3, <1>4, <1>5, <1>6, <1>7, <1>8

(* The thread's end, when what it leaves behind is an answer to poll. *)
LEMMA ReturnKeeps == ASSUME ConnInv, NEW t \in threads, Return(t) PROVE ConnInv'
<1>0. /\ t.owner \in Machines /\ conn[t.owner] \in Statics /\ ThreadSound(t)
      /\ conn \in [Machines -> Statics]
  BY Going DEF ConnInv, ConnTypeOK, Statics
<1>1. /\ t.at = "return" /\ conn' = [conn EXCEPT ![t.owner].active = FALSE]
      /\ threads' = threads \ {t} /\ UNCHANGED <<born, wanted, open>>
  BY DEF Return
<1>2. /\ conn' \in [Machines -> Statics] /\ \A p \in Machines \ {t.owner} : conn'[p] = conn[p]
      /\ ~conn'[t.owner].active /\ conn'[t.owner].result = conn[t.owner].result
      /\ conn'[t.owner].sock = conn[t.owner].sock
  BY <1>0, <1>1 DEF Statics
<1>3. ConnTypeOK'
  BY <1>1, <1>2 DEF ConnInv, ConnTypeOK, Statics
<1>4. \A u \in threads' : u \in threads /\ u.owner # t.owner
  BY <1>0, <1>1 DEF ConnInv, OneAtATime
<1>5. OneAtATime'
  <2>1. \A p \in Machines : \A u, v \in threads' : u.owner = p /\ v.owner = p => u = v
    BY <1>1 DEF ConnInv, OneAtATime
  <2>2. ASSUME NEW p \in Machines PROVE conn'[p].active <=> \E u \in threads' : u.owner = p
    <3>1. CASE p = t.owner
      BY <1>2, <1>4, <3>1
    <3>2. CASE p # t.owner
      BY <1>1, <1>2, <3>2 DEF ConnInv, OneAtATime
    <3> QED
      BY <3>1, <3>2
  <2> QED
    BY <2>1, <2>2 DEF OneAtATime
<1>6. open \ {SocketOf(t)} \subseteq open'
  BY <1>1
<1>7. \A u \in threads' : ThreadSound(u)'
  BY <1>1, <1>2, <1>4, <1>6, OthersKeep
<1>8. AnswerSound(t.owner)'
  BY <1>0, <1>1, <1>2 DEF AnswerSound, ThreadSound, HasSocket, SocketOf
<1>9. \A p \in Machines : AnswerSound(p)'
  BY <1>1, <1>2, <1>6, <1>8, OthersKeep
<1> QED
  BY <1>3, <1>5, <1>7, <1>9 DEF ConnInv

-----------------------------------------------------------------------------
(* The caller closes nothing that is still to be taken. *)
LEMMA KeptOpen ==
    ASSUME ConnInv, CallerStep, NEW p \in Machines
    PROVE  /\ conn'[p].sock \in open => conn'[p].sock \in open'
           /\ \A u \in threads' : /\ u.owner = p /\ u.at \in {"test", "sock"}
                                 /\ SocketOf(u) \in open
                                 => SocketOf(u) \in open'
<1>1. Pending(p)' \cap open \subseteq open' /\ None \notin open
  BY ConnectAssumption DEF CallerStep, ConnInv, ConnTypeOK, Sockets
<1>2. conn'[p].sock \in open => conn'[p].sock \in Pending(p)'
  BY <1>1 DEF Pending
<1>3. \A u \in threads' : u.owner = p /\ u.at \in {"test", "sock"} => SocketOf(u) \in Pending(p)'
  BY DEF Pending, SocketOf
<1> QED
  BY <1>1, <1>2, <1>3

(* A machine the caller leaves alone keeps what it has. *)
LEMMA LeftAlone ==
    ASSUME ConnInv, CallerStep, NEW p \in Machines, conn'[p] = conn[p], wanted'[p] = wanted[p]
    PROVE  /\ AnswerSound(p)'
           /\ \A u \in threads \cap threads' : u.owner = p => ThreadSound(u)'
<1>1. AnswerSound(p)'
  BY KeptOpen DEF ConnInv, AnswerSound
<1>2. ASSUME NEW u \in threads \cap threads', u.owner = p PROVE ThreadSound(u)'
  <2>1. ThreadSound(u) /\ SocketOf(u)' = SocketOf(u)
    BY DEF ConnInv, SocketOf
  <2>2. HasSocket(u) => SocketOf(u) \in open'
    BY <1>2, <2>1, KeptOpen DEF ThreadSound, HasSocket
  <2> QED
    BY <1>2, <2>1, <2>2 DEF ThreadSound, HasSocket
<1> QED
  BY <1>1, <1>2

(* So a call need only be looked at on the machine that makes it. *)
LEMMA CallOf ==
    ASSUME ConnInv, CallerStep, NEW p \in Machines, NEW c \in Statics, NEW w \in 0..MaxSockets,
           conn' = [conn EXCEPT ![p] = c], wanted' = [wanted EXCEPT ![p] = w],
           threads' \subseteq Threads, threads \subseteq threads',
           \A u \in threads' \ threads : u.owner = p,
           \A u, v \in threads' : u.owner = p /\ v.owner = p => u = v,
           c.active <=> \E u \in threads' : u.owner = p,
           \A u \in threads' : u.owner = p => ThreadSound(u)',
           AnswerSound(p)'
    PROVE  ConnInv'
<1>1. /\ conn \in [Machines -> Statics] /\ wanted \in [Machines -> 0..MaxSockets]
      /\ threads \subseteq Threads
  BY DEF ConnInv, ConnTypeOK, Statics, Threads
<1>2. /\ conn' \in [Machines -> Statics] /\ conn'[p] = c
      /\ \A q \in Machines \ {p} : conn'[q] = conn[q] /\ wanted'[q] = wanted[q]
  BY <1>1
<1>3. ConnTypeOK'
  BY <1>1, <1>2 DEF CallerStep, ConnTypeOK, Statics, Threads
<1>4. OneAtATime'
  <2>1. ASSUME NEW q \in Machines
        PROVE  /\ \A u, v \in threads' : u.owner = q /\ v.owner = q => u = v
               /\ conn'[q].active <=> \E u \in threads' : u.owner = q
    <3>1. CASE q = p
      BY <1>2, <3>1
    <3>2. CASE q # p
      BY <1>2, <3>2 DEF ConnInv, OneAtATime
    <3> QED
      BY <3>1, <3>2
  <2> QED
    BY <2>1 DEF OneAtATime
<1>5. \A u \in threads' : ThreadSound(u)'
  <2>1. ASSUME NEW u \in threads', u.owner # p PROVE ThreadSound(u)'
    <3>1. u \in threads \cap threads' /\ u.owner \in Machines
      BY <1>1, <2>1 DEF Threads
    <3> QED
      BY <1>2, <2>1, <3>1, LeftAlone
  <2> QED
    BY <2>1
<1>6. \A q \in Machines : AnswerSound(q)'
  BY <1>2, LeftAlone
<1> QED
  BY <1>3, <1>4, <1>5, <1>6 DEF ConnInv

LEMMA AskKeeps == ASSUME ConnInv, CallerStep, NEW p \in Machines, NEW n,
                        n = born'[p], Ask(p, n), n > born[p]
                 PROVE  ConnInv'
<1>1. n \in 1..MaxSockets
  BY ConnectAssumption DEF CallerStep, ConnInv, ConnTypeOK
<1>2. \A u \in threads : u.owner # p
  BY DEF Ask, ConnInv, OneAtATime
<1>3. Thread(p, n) \in Threads /\ Thread(p, n).owner = p
  BY <1>1 DEF Thread, Threads, Steps
<1>4. threads \subseteq Threads /\ conn \in [Machines -> Statics] /\ wanted \in [Machines -> 0..MaxSockets]
  BY DEF ConnInv, ConnTypeOK, Statics, Threads
<1>5. Started \in Statics /\ Started.active
  BY DEF Started, Statics
<1>6. /\ conn' = [conn EXCEPT ![p] = Started] /\ threads' = threads \cup {Thread(p, n)}
      /\ wanted' = [wanted EXCEPT ![p] = n]
  BY DEF Ask
<1>7. \A u \in threads' : u.owner = p => u = Thread(p, n)
  BY <1>2, <1>6
<1>8. ThreadSound(Thread(p, n))'
  BY <1>3, <1>4, <1>6 DEF ThreadSound, HasSocket, Thread
<1>9. AnswerSound(p)'
  BY <1>4, <1>5, <1>6 DEF AnswerSound
<1>10. /\ n \in 0..MaxSockets /\ threads' \subseteq Threads /\ threads \subseteq threads'
       /\ \A u \in threads' \ threads : u.owner = p
       /\ \A u, v \in threads' : u.owner = p /\ v.owner = p => u = v
       /\ Thread(p, n) \in threads'
  BY <1>1, <1>3, <1>4, <1>6, <1>7
<1>11. Started.active <=> \E u \in threads' : u.owner = p
  BY <1>3, <1>5, <1>10
<1>12. \A u \in threads' : u.owner = p => ThreadSound(u)'
  BY <1>7, <1>8
<1> QED
  BY <1>5, <1>6, <1>9, <1>10, <1>11, <1>12, CallOf

(* A call that starts no thread, and leaves nothing to wait for. *)
LEMMA EndKeeps ==
    ASSUME ConnInv, CallerStep, NEW p \in Machines, NEW c \in Statics,
           conn' = [conn EXCEPT ![p] = c], wanted' = [wanted EXCEPT ![p] = 0], UNCHANGED threads,
           c.active = conn[p].active,
           conn[p].active => c.result # "ready" /\ c.sock = conn[p].sock
    PROVE  ConnInv'
<1>1. /\ conn \in [Machines -> Statics] /\ wanted \in [Machines -> 0..MaxSockets]
      /\ threads \subseteq Threads /\ 0 \in 0..MaxSockets
  BY ConnectAssumption DEF ConnInv, ConnTypeOK, Statics, Threads
<1>2. conn'[p] = c /\ wanted'[p] = 0
  BY <1>1
<1>3. ASSUME NEW u \in threads', u.owner = p PROVE ThreadSound(u)'
  <2>1. u \in threads /\ ThreadSound(u) /\ conn[p].active /\ SocketOf(u)' = SocketOf(u)
    BY <1>3 DEF ConnInv, OneAtATime, SocketOf
  <2>2. c.sock = conn[p].sock /\ c.result # "ready"
    BY <2>1
  <2>3. u.at \in {"test", "sock", "ready"} => SocketOf(u) \in open'
    BY <1>2, <1>3, <2>1, <2>2, KeptOpen DEF ThreadSound, HasSocket
  <2> QED
    BY <1>2, <1>3, <2>1, <2>2, <2>3 DEF ThreadSound, HasSocket
<1>4. AnswerSound(p)'
  BY <1>2 DEF AnswerSound
<1>5. /\ \A u, v \in threads' : u.owner = p /\ v.owner = p => u = v
      /\ c.active <=> \E u \in threads' : u.owner = p
  BY DEF ConnInv, OneAtATime
<1> QED
  BY <1>1, <1>3, <1>4, <1>5, CallOf

LEMMA CallerKeeps == ASSUME ConnInv, CallerStep PROVE ConnInv'
<1>0. conn \in [Machines -> Statics]
  BY DEF ConnInv, ConnTypeOK, Statics
<1>1. ASSUME NEW p \in Machines, Ask(p, born'[p]), born'[p] > born[p] PROVE ConnInv'
  BY <1>1, AskKeeps
<1>2. ASSUME NEW p \in Machines, AskInVain(p) PROVE ConnInv'
  <2>1. StartedInVain \in Statics /\ StartedInVain.active = FALSE
    BY DEF StartedInVain, Started, Statics
  <2>2. conn[p].active = FALSE
    BY <1>0, <1>2 DEF AskInVain, Statics
  <2> QED
    BY <1>2, <2>1, <2>2, EndKeeps DEF AskInVain
<1>3. ASSUME NEW p \in Machines, Abandon(p) PROVE ConnInv'
  <2>1. conn[p] \in Statics
    BY <1>0
  <2>2. /\ Cancelled(conn[p]) \in Statics /\ Cancelled(conn[p]).active = conn[p].active
        /\ Cancelled(conn[p]).result = "pending"
        /\ conn[p].active => Cancelled(conn[p]).sock = conn[p].sock
    BY <2>1 DEF Cancelled, Statics
  <2> QED
    BY <1>3, <2>2, EndKeeps DEF Abandon
<1>4. ASSUME NEW p \in Machines, Answer(p) PROVE ConnInv'
  <2>1. conn[p] \in Statics
    BY <1>0
  <2>2. CASE HandsOver(p) /\ conn' = [conn EXCEPT ![p] = HandedOver(@)]
    <3>1. HandedOver(conn[p]) \in Statics /\ HandedOver(conn[p]).active = conn[p].active /\ ~conn[p].active
      BY <2>1, <2>2 DEF HandedOver, HandsOver, Statics
    <3> QED
      BY <1>4, <2>2, <3>1, EndKeeps DEF Answer
  <2>3. CASE Refuses(p) /\ conn' = [conn EXCEPT ![p] = Reported(@)]
    <3>1. Reported(conn[p]) \in Statics /\ Reported(conn[p]).active = conn[p].active /\ ~conn[p].active
      BY <2>1, <2>3 DEF Reported, Refuses, Statics
    <3> QED
      BY <1>4, <2>3, <3>1, EndKeeps DEF Answer
  <2> QED
    BY <1>4, <2>2, <2>3 DEF Answer
<1>5. ASSUME UNCHANGED <<conn, threads, wanted>> PROVE ConnInv'
  <2>1. ConnTypeOK' /\ OneAtATime'
    BY <1>5 DEF CallerStep, ConnInv, ConnTypeOK, OneAtATime
  <2>2. \A u \in threads' : ThreadSound(u)'
    BY <1>5, LeftAlone DEF ConnInv, ConnTypeOK
  <2>3. \A p \in Machines : AnswerSound(p)'
    BY <1>5, LeftAlone
  <2> QED
    BY <2>1, <2>2, <2>3 DEF ConnInv
<1> QED
  BY <1>1, <1>2, <1>3, <1>4, <1>5 DEF CallerStep

LEMMA ConnInvNext == ConnInv /\ [ConnNext]_connVars => ConnInv'
<1> SUFFICES ASSUME ConnInv, [ConnNext]_connVars PROVE ConnInv'
  OBVIOUS
<1>1. CASE ThreadStep
  BY <1>1, ThreadKeeps, ReturnKeeps DEF ThreadStep
<1>2. CASE CallerStep
  BY <1>2, CallerKeeps
<1>3. CASE UNCHANGED connVars
  BY <1>3 DEF connVars, ConnInv, ConnTypeOK, OneAtATime, ThreadSound, HasSocket, AnswerSound, SocketOf
<1> QED
  BY <1>1, <1>2, <1>3 DEF ConnNext

(* For any machines, any number of requests and any caller that keeps to    *)
(* ConnSpec: one thread per machine, no answer lost, and what is handed     *)
(* over is the open socket of the request the caller is waiting for         *)
(* (net_connect_start, _poll and _cancel against net_conn_main).            *)
THEOREM AnswersAreOwn == ConnSpec => []HandoverSound
<1>1. ConnInv => HandoverSound
  BY DEF ConnInv, AnswerSound, HandsOver, HandoverSound, HandoverIsOwn, NoLostAnswer
<1> QED
  BY <1>1, ConnInvInit, ConnInvNext, PTL DEF ConnSpec
-----------------------------------------------------------------------------
(* The session.  What each variable may hold. *)
Maybe == Sockets \cup {None}
Places == {"keys", "input", "starting", "hello", "checking"}

Session == [state : States, role : BOOLEAN, token : Nat, client : Maybe, peer : Maybe,
            server : Maybe, relayed : BOOLEAN, start : BOOLEAN, hello : Nat,
            keep : BOOLEAN, game : Games \cup {None}, frames : Nat]
Emulator == [paused : BOOLEAN, held : BOOLEAN, wish : BOOLEAN, ran : Nat]
Question == [from : Sockets, to : {HostPort}, token : Nat, game : Games]
Reply == [from : {HostPort}, to : Sockets, token : Nat, game : Games]
Frames == Games \cup {"ready", "pong", "bye", "input"}

WireTypes ==
    /\ emu \in [Machines -> Emulator]
    /\ rom \in [Machines -> [game : Games, loads : Nat]]
    /\ mail \subseteq Question \cup Reply
    /\ backlog \subseteq Sockets
    /\ room \in [seats : Seq(Sockets), ready : BOOLEAN]
    /\ queue \in [Sockets -> Seq(Frames)]
    /\ owner \in Seq(Machines)

Types ==
    /\ mode \in Modes
    /\ ses \in [Machines -> Session]
    /\ at \in [Machines -> Places]
    /\ hand \in [Machines -> Maybe]
    /\ WireTypes

(* What a machine has in each state of a session. *)
Shape(p, s) ==
    /\ s.state # "connected" => ~s.start /\ s.frames = 0
    /\ s.state # "idle" => s.game \in Games
    /\ (s.relayed <=> s.state # "idle" /\ ~Direct)
    /\ ~Direct => s.token = 0
    /\ s.state \in {"idle", "joining"} => s.client = None /\ ~s.role
    /\ s.state \in {"handshaking", "relay waiting", "connected"} => s.client # None
    /\ s.state \in {"waiting", "handshaking"} => Direct /\ s.role
    /\ s.state = "waiting" => s.peer = None /\ (s.client # None <=> mode = "udp")
    /\ s.state = "handshaking" => mode = "tcp"
    /\ s.state = "relay waiting" => ~Direct
    /\ Direct /\ s.role => p = Host /\ s.token # 0 /\ (s.server # None <=> mode = "tcp")
    /\ ~(Direct /\ s.role) => s.server = None /\ s.peer = None
    /\ Direct /\ ~s.role /\ s.state # "idle" => p # Host
    /\ Direct /\ s.state = "connected" => s.token # 0 /\ (s.role => s.peer # None)

(* And where its thread is, with which socket in hand. *)
Standing(p, s, w, h) ==
    /\ w = "starting" => s.state = "idle"
    /\ w = "hello" <=> h # None
    /\ w = "hello" => s.state = "joining"
    /\ w \in {"starting", "hello"} /\ Direct => p # Host
    /\ w = "checking" => s.state = "relay waiting"

Shapely ==
    /\ Types
    /\ \A p \in Machines : Shape(p, ses[p]) /\ Standing(p, ses[p], at[p], hand[p])

(* The sockets a machine uses are open, its own, and not those its connect   *)
(* thread works on or has left to be taken.                                  *)
Mine(p) == {ses[p].client, ses[p].server, hand[p]} \ {None}
Drawn(p) == {p} \X (1..born[p])

Holding(p) ==
    /\ Mine(p) \subseteq open \cap Drawn(p)
    /\ ses[p].client # None => ses[p].client # ses[p].server
    /\ conn[p].sock # None => conn[p].sock \in Drawn(p) \ Mine(p)
    /\ \A t \in threads : t.owner = p => SocketOf(t) \in Drawn(p) \ Mine(p)
    /\ at[p] = "starting" => born[p] < MaxSockets

Held == \A p \in Machines : Holding(p)

(* A socket nothing has been sent on. *)
Unused(x) ==
    \/ x[2] > born[x[1]]
    \/ x \in {hand[x[1]], conn[x[1]].sock}
    \/ \E t \in threads : x = SocketOf(t)

-----------------------------------------------------------------------------
(* What the session records look like after each assignment of the code. *)
LEMMA PortApart == HostPort \notin Sockets /\ None \notin Sockets /\ 0 \in 0..MaxSockets
BY ConnectAssumption DEF HostPort, Sockets

LEMMA FreshIs ==
    /\ Fresh \in Session
    /\ Fresh.state = "idle" /\ ~Fresh.role /\ Fresh.token = 0 /\ Fresh.client = None
    /\ Fresh.peer = None /\ Fresh.server = None /\ ~Fresh.relayed /\ ~Fresh.start
    /\ Fresh.frames = 0
BY DEF Fresh, Session, Maybe, States

LEMMA IdleIs ==
    ASSUME NEW s \in Session
    PROVE  /\ Idle(s) \in Session
           /\ Idle(s).state = "idle" /\ ~Idle(s).role /\ Idle(s).token = 0
           /\ Idle(s).client = None /\ Idle(s).peer = None /\ Idle(s).server = None
           /\ ~Idle(s).relayed /\ ~Idle(s).start /\ Idle(s).frames = 0
<1>1. s.game \in Games \cup {None}
  BY DEF Session
<1> QED
  BY <1>1, FreshIs DEF Idle, Session

LEMMA IdleShape ==
    ASSUME NEW s \in Session, NEW p, s.state = "idle", ~s.role, s.client = None, s.peer = None,
           s.server = None, ~s.relayed, ~s.start, s.frames = 0, ~Direct => s.token = 0
    PROVE  Shape(p, s)
BY DEF Shape

LEMMA IdleFits == ASSUME NEW s \in Session, NEW p PROVE Shape(p, Idle(s))
BY IdleIs, IdleShape

LEMMA TimedIs ==
    ASSUME NEW s \in Session
    PROVE  /\ Timed(s) \in Session
           /\ Timed(s).state = "connected" /\ Timed(s).role = s.role /\ Timed(s).token = s.token
           /\ Timed(s).client = s.client /\ Timed(s).peer = s.peer /\ Timed(s).server = s.server
           /\ Timed(s).relayed = s.relayed /\ Timed(s).start /\ Timed(s).frames = 0
           /\ Timed(s).game = s.game
BY DEF Timed, Session, States

LEMMA WaitingIs ==
    ASSUME Types, NEW p \in Machines, NEW fd \in Sockets, NEW keep \in BOOLEAN, owner' = Append(owner, p)
    PROVE  /\ Waiting(p, fd, keep) \in Session
           /\ LET w == Waiting(p, fd, keep)
              IN  /\ w.state = "waiting" /\ w.role /\ w.token = Len(owner) + 1 /\ w.peer = None
                  /\ w.client = IF mode = "udp" THEN fd ELSE None
                  /\ w.server = IF mode = "tcp" THEN fd ELSE None
                  /\ ~w.relayed /\ ~w.start /\ w.frames = 0 /\ w.game = rom[p].game /\ w.game \in Games
<1>1. Len(owner') = Len(owner) + 1 /\ Len(owner') \in Nat
  BY DEF Types, WireTypes
<1>2. rom[p].game \in Games
  BY DEF Types, WireTypes
<1>3. fd \in Maybe /\ None \in Maybe /\ "waiting" \in States
  BY DEF Maybe, States
<1> DEFINE c == IF mode = "udp" THEN fd ELSE None
           v == IF mode = "tcp" THEN fd ELSE None
           n == Len(owner')
           g == rom[p].game
<1>4. c \in Maybe /\ v \in Maybe /\ n \in Nat /\ g \in Games
  BY <1>1, <1>2, <1>3
<1>5. Waiting(p, fd, keep) = [Fresh EXCEPT !.state = "waiting", !.role = TRUE, !.token = n,
                  !.client = c, !.server = v, !.keep = keep, !.game = g]
  BY DEF Waiting
<1> HIDE DEF c, v, n, g
<1> DEFINE w == [Fresh EXCEPT !.state = "waiting", !.role = TRUE, !.token = n,
                  !.client = c, !.server = v, !.keep = keep, !.game = g]
<1>6. /\ w \in Session /\ w.state = "waiting" /\ w.role /\ w.token = n /\ w.peer = None
      /\ w.client = c /\ w.server = v /\ ~w.relayed /\ ~w.start /\ w.frames = 0 /\ w.game = g
  BY <1>3, <1>4, FreshIs DEF Session
<1> HIDE DEF w
<1>7. Waiting(p, fd, keep) = w
  BY <1>5 DEF w
<1> QED
  BY <1>1, <1>2, <1>6, <1>7 DEF c, v, n, g

LEMMA WaitingFits ==
    ASSUME Types, NEW fd \in Sockets, NEW keep \in BOOLEAN, owner' = Append(owner, Host), Direct
    PROVE  Shape(Host, Waiting(Host, fd, keep))
<1>1. /\ Waiting(Host, fd, keep) \in Session /\ Waiting(Host, fd, keep).token # 0 /\ fd # None
      /\ mode \in {"udp", "tcp"}
  BY WaitingIs, PortApart, SessionAssumption DEF Types, WireTypes, Direct
<1>2. ASSUME NEW w \in Session, w.state = "waiting", w.role, w.token # 0, w.peer = None,
             w.client = IF mode = "udp" THEN fd ELSE None,
             w.server = IF mode = "tcp" THEN fd ELSE None,
             ~w.relayed, ~w.start, w.frames = 0, w.game \in Games
      PROVE  Shape(Host, w)
  BY <1>1, <1>2 DEF Shape, Direct
<1> QED
  BY <1>1, <1>2, WaitingIs, SessionAssumption

LEMMA HoldTyped == ASSUME Types, NEW p \in Machines PROVE HoldEmulation(p) \in Emulator
<1>1. emu[p] \in Emulator
  BY DEF Types, WireTypes
<1>2. \A e \in Emulator : /\ [e EXCEPT !.paused = TRUE, !.held = TRUE] \in Emulator
                           /\ [e EXCEPT !.paused = FALSE, !.held = FALSE] \in Emulator
  BY DEF Emulator
<1> QED
  BY <1>1, <1>2 DEF HoldEmulation

-----------------------------------------------------------------------------
(* One machine is put in a new state, the others stay. *)
LEMMA Here ==
    ASSUME Shapely, NEW p \in Machines
    PROVE  /\ ses[p] \in Session /\ at[p] \in Places /\ hand[p] \in Maybe
           /\ Shape(p, ses[p]) /\ Standing(p, ses[p], at[p], hand[p])
           /\ ses = [ses EXCEPT ![p] = ses[p]] /\ at = [at EXCEPT ![p] = at[p]]
           /\ hand = [hand EXCEPT ![p] = hand[p]]
           /\ ses \in [Machines -> Session] /\ at \in [Machines -> Places]
           /\ hand \in [Machines -> Maybe] /\ mode \in {"udp", "tcp", "relay"} /\ mode \in Modes
           /\ Types /\ WireTypes
BY SessionAssumption DEF Shapely, Types

(* One machine moves; it alone has to be looked at. *)
LEMMA Put ==
    ASSUME Shapely, NEW p \in Machines, NEW s \in Session, NEW w \in Places, NEW h \in Maybe,
           mode' = mode, ses' = [ses EXCEPT ![p] = s], at' = [at EXCEPT ![p] = w],
           hand' = [hand EXCEPT ![p] = h], Shape(p, s), Standing(p, s, w, h), WireTypes'
    PROVE  Shapely'
<1>1. ses' \in [Machines -> Session] /\ at' \in [Machines -> Places] /\ hand' \in [Machines -> Maybe]
  BY DEF Shapely, Types
<1>2. Types'
  BY <1>1 DEF Shapely, Types
<1>3. ses'[p] = s /\ at'[p] = w /\ hand'[p] = h
  BY DEF Shapely, Types
<1>4. ASSUME NEW q \in Machines \ {p}
      PROVE  ses'[q] = ses[q] /\ at'[q] = at[q] /\ hand'[q] = hand[q]
  BY DEF Shapely, Types
<1>5. ASSUME NEW q \in Machines
      PROVE  (Shape(q, ses[q]) /\ Standing(q, ses[q], at[q], hand[q]))'
  <2>1. CASE q = p
    BY <1>3, <2>1 DEF Shape, Standing, Direct
  <2>2. CASE q # p
    <3>1. Shape(q, ses[q]) /\ Standing(q, ses[q], at[q], hand[q])
      BY DEF Shapely
    <3>2. ses'[q] = ses[q] /\ at'[q] = at[q] /\ hand'[q] = hand[q]
      BY <1>4, <2>2
    <3> QED
      BY <3>1, <3>2 DEF Shape, Standing, Direct
  <2> QED
    BY <2>1, <2>2
<1> QED
  BY <1>2, <1>5 DEF Shapely

LEMMA PutSes ==
    ASSUME Shapely, NEW p \in Machines, NEW s \in Session, ses' = [ses EXCEPT ![p] = s],
           UNCHANGED <<mode, at, hand>>, Shape(p, s), Standing(p, s, at[p], hand[p]), WireTypes'
    PROVE  Shapely'
<1>1. /\ at' = [at EXCEPT ![p] = at[p]] /\ hand' = [hand EXCEPT ![p] = hand[p]] /\ mode' = mode
      /\ at[p] \in Places /\ hand[p] \in Maybe
  BY Here
<1> QED
  BY <1>1, Put

LEMMA PutAt ==
    ASSUME Shapely, NEW p \in Machines, NEW w \in Places, NEW h \in Maybe, at' = [at EXCEPT ![p] = w],
           hand' = [hand EXCEPT ![p] = h],
           UNCHANGED <<mode, ses>>, Standing(p, ses[p], w, h), WireTypes'
    PROVE  Shapely'
<1>1. /\ ses' = [ses EXCEPT ![p] = ses[p]] /\ mode' = mode
      /\ ses[p] \in Session /\ Shape(p, ses[p])
  BY Here
<1> QED
  BY <1>1, Put

LEMMA PutNone ==
    ASSUME Shapely, UNCHANGED <<mode, ses, at, hand>>, WireTypes'
    PROVE  Shapely'
<1>1. Types'
  BY DEF Shapely, Types
<1>2. ASSUME NEW p \in Machines PROVE (Shape(p, ses[p]) /\ Standing(p, ses[p], at[p], hand[p]))'
  <2>1. Shape(p, ses[p]) /\ Standing(p, ses[p], at[p], hand[p])
    BY DEF Shapely
  <2> QED
    BY <2>1 DEF Shape, Standing, Direct
<1> QED
  BY <1>1, <1>2 DEF Shapely

(* A call of NetplayAdvanceState, or a handshake, comes back. *)
LEMMA PutReturn ==
    ASSUME Shapely, NEW p \in Machines, NEW s \in Session, ses' = [ses EXCEPT ![p] = s],
           Returns(p), hand' = [hand EXCEPT ![p] = None], mode' = mode, Shape(p, s), WireTypes'
    PROVE  Shapely'
<1>1. PICK w \in {"input", "keys"} : at' = [at EXCEPT ![p] = w]
  BY DEF Returns
<1>2. w \in Places /\ None \in Maybe /\ Standing(p, s, w, None)
  BY DEF Places, Maybe, Standing
<1> QED
  BY <1>1, <1>2, Put

LEMMA HangupTyped ==
    ASSUME WireTypes, NEW s, Hangup(s)
    PROVE  /\ room' \in [seats : Seq(Sockets), ready : BOOLEAN]
           /\ queue' \in [Sockets -> Seq(Frames)]
<1>1. <<>> \in Seq(Sockets) /\ <<>> \in Seq(Frames) /\ "bye" \in Frames
      /\ queue \in [Sockets -> Seq(Frames)] /\ room \in [seats : Seq(Sockets), ready : BOOLEAN]
  BY DEF Frames, WireTypes
<1>2. [queue EXCEPT ![s] = <<>>] \in [Sockets -> Seq(Frames)]
  BY <1>1
<1>3. ASSUME NEW x PROVE [queue EXCEPT ![x] = Append(@, "bye")] \in [Sockets -> Seq(Frames)]
  <2>1. \A y \in Sockets : Append(queue[y], "bye") \in Seq(Frames)
    BY <1>1
  <2> QED
    BY <1>1, <2>1
<1>4. [queue EXCEPT ![Other(s)] = Append(@, "bye"), ![s] = <<>>] \in [Sockets -> Seq(Frames)]
  BY <1>1, <1>3
<1>5. [seats |-> <<>>, ready |-> FALSE] \in [seats : Seq(Sockets), ready : BOOLEAN]
  BY <1>1
<1> QED
  BY <1>1, <1>2, <1>4, <1>5 DEF Hangup

LEMMA DropTyped ==
    ASSUME WireTypes, NEW p, NEW kept, Drop(p, kept), UNCHANGED <<rom, mail, owner>>,
           emu' \in [Machines -> Emulator]
    PROVE  WireTypes'
<1>1. /\ room' \in [seats : Seq(Sockets), ready : BOOLEAN]
      /\ queue' \in [Sockets -> Seq(Frames)]
  BY HangupTyped DEF Drop, WireTypes
<1>2. backlog' \subseteq Sockets
  BY DEF Drop, WireTypes
<1> QED
  BY <1>1, <1>2 DEF WireTypes

(* A session that is dropped altogether. *)
LEMMA ShapelyDropped ==
    ASSUME Shapely, NEW p \in Machines, NEW w \in {"keys", "input", "starting"},
           w = "starting" /\ Direct => p # Host, at[p] # "hello",
           Drop(p, {}), ses' = [ses EXCEPT ![p] = Idle(@)], at' = [at EXCEPT ![p] = w],
           emu' \in [Machines -> Emulator], UNCHANGED <<mode, hand, rom, mail, owner>>
    PROVE  Shapely'
<1>0. w \in Places
  BY DEF Places
<1>1. WireTypes'
  BY DropTyped, Here
<1>2. ses' = [ses EXCEPT ![p] = Idle(ses[p])]
  OBVIOUS
<1>3. Shape(p, Idle(ses[p]))
  BY Here, IdleFits
<1>4. Standing(p, Idle(ses[p]), w, hand[p])
  BY Here, IdleIs DEF Standing, Direct
<1>5. hand' = [hand EXCEPT ![p] = hand[p]]
  BY Here
<1>6. Idle(ses[p]) \in Session
  BY Here, IdleIs
<1> QED
  BY <1>0, <1>1, <1>2, <1>3, <1>4, <1>5, <1>6, Here, Put

LEMMA CallsIs ==
    ASSUME Shapely, NEW p \in Machines, Calls(p)
    PROVE  /\ emu' \in [Machines -> Emulator] /\ at[p] = "keys" /\ hand[p] = None
           /\ hand = [hand EXCEPT ![p] = None]
<1>1. HoldEmulation(p) \in Emulator /\ emu \in [Machines -> Emulator]
  BY HoldTyped, Here DEF WireTypes
<1> QED
  BY <1>1, Here DEF Calls, Standing

(* The panel and the keys. *)
LEMMA ShapelyPressHost == ASSUME Shapely, ConnTypeOK, NEW p \in Machines, PressHost(p) PROVE Shapely'
<1>0. /\ at[p] = "keys" /\ Direct /\ p = Host /\ backlog' = {} /\ hand[p] = None
      /\ UNCHANGED <<mode, emu, at, hand, rom, mail, room, queue>>
  BY Here DEF PressHost, Standing
<1>1. ASSUME born[p] < MaxSockets, owner' = Append(owner, p),
             ses' = [ses EXCEPT ![p] = Waiting(p, <<p, born[p] + 1>>, FALSE)],
             <<p, born[p] + 1>> \in Sockets
      PROVE  Shapely'
  <2>1. PICK w : w = Waiting(p, <<p, born[p] + 1>>, FALSE)
    OBVIOUS
  <2>2. w \in Session /\ Shape(p, w) /\ w.state = "waiting"
    BY <1>0, <1>1, <2>1, WaitingIs, WaitingFits, Here
  <2>3. Standing(p, w, at[p], hand[p])
    BY <1>0, <2>2 DEF Standing, Direct
  <2>4. WireTypes'
    BY <1>0, <1>1, Here DEF WireTypes
  <2> QED
    BY <1>0, <1>1, <2>1, <2>2, <2>3, <2>4, PutSes
<1>2. ASSUME ses' = [ses EXCEPT ![p] = Idle(@)], UNCHANGED owner PROVE Shapely'
  <2>1. PICK w : w = Idle(ses[p])
    OBVIOUS
  <2>2. w \in Session /\ Shape(p, w) /\ w.state = "idle"
    BY <2>1, IdleIs, IdleFits, Here
  <2>3. Standing(p, w, at[p], hand[p])
    BY <1>0, <2>2 DEF Standing, Direct
  <2>4. WireTypes'
    BY <1>0, <1>2, Here DEF WireTypes
  <2> QED
    BY <1>0, <1>2, <2>1, <2>2, <2>3, <2>4, PutSes
<1>3. ASSUME born[p] < MaxSockets, born[p] \in Nat
      PROVE  <<p, born[p] + 1>> \in Sockets
  BY <1>3, ConnectAssumption DEF Sockets
<1>4. born[p] \in Nat
  BY DEF ConnTypeOK
<1> QED
  BY <1>1, <1>2, <1>3, <1>4 DEF PressHost

LEMMA ShapelyPressJoin == ASSUME Shapely, NEW p \in Machines, PressJoin(p) PROVE Shapely'
<1>1. /\ at[p] = "keys" /\ (Direct => p # Host) /\ Drop(p, {}) /\ ses' = [ses EXCEPT ![p] = Idle(@)]
      /\ at' = [at EXCEPT ![p] = "starting"] /\ UNCHANGED <<mode, emu, hand, rom, mail, owner>>
  BY DEF PressJoin
<1>2. emu' \in [Machines -> Emulator]
  BY <1>1, Here DEF WireTypes
<1> QED
  BY <1>1, <1>2, ShapelyDropped

LEMMA ShapelyDisconnect == ASSUME Shapely, NEW p \in Machines, PressDisconnect(p) PROVE Shapely'
<1>1. /\ at[p] = "keys" /\ Drop(p, {}) /\ ses' = [ses EXCEPT ![p] = Idle(@)]
      /\ UNCHANGED <<mode, emu, at, hand, rom, mail, owner>>
  BY DEF PressDisconnect
<1>2. emu' \in [Machines -> Emulator] /\ at' = [at EXCEPT ![p] = "keys"]
  BY <1>1, Here DEF WireTypes
<1> QED
  BY <1>1, <1>2, ShapelyDropped

LEMMA JoiningIs ==
    ASSUME Shapely, NEW p \in Machines, at[p] = "starting", NEW g \in Games
    PROVE  LET s == [ses[p] EXCEPT !.game = g]
               j == [s EXCEPT !.state = "joining", !.relayed = ~Direct]
           IN  /\ s \in Session /\ Shape(p, s) /\ s.state = "idle"
               /\ j \in Session /\ Shape(p, j) /\ j.state = "joining"
<1>1. /\ ses[p] \in Session /\ Shape(p, ses[p]) /\ ses[p].state = "idle" /\ (Direct => p # Host)
      /\ "joining" \in States
  BY Here DEF Standing, States
<1> DEFINE s == [ses[p] EXCEPT !.game = g]
           d == ~Direct
           j == [s EXCEPT !.state = "joining", !.relayed = d]
<1>2. d \in BOOLEAN /\ (d <=> ~Direct)
  BY DEF Direct
<1> HIDE DEF d
<1>3. s \in Session /\ Shape(p, s) /\ s.state = "idle"
  BY <1>1 DEF Session, Shape
<1>4. j \in Session /\ j.state = "joining"
  BY <1>1, <1>2 DEF Session
<1>5. Shape(p, j)
  BY <1>1, <1>2 DEF Session, Shape
<1> QED
  BY <1>3, <1>4, <1>5 DEF d

LEMMA ShapelyStart == ASSUME Shapely, NEW p \in Machines, StartConnect(p) PROVE Shapely'
<1>1. /\ at[p] = "starting" /\ at' = [at EXCEPT ![p] = "keys"] /\ rom[p].game \in Games
      /\ UNCHANGED <<mode, emu, hand, rom, mail, backlog, room, queue, owner>>
      /\ hand' = [hand EXCEPT ![p] = hand[p]] /\ hand[p] = None
      /\ Types
  BY Here DEF StartConnect, netVars, WireTypes, Standing
<1>2. WireTypes'
  BY <1>1 DEF Types, WireTypes
<1>3. "keys" \in Places /\ hand[p] \in Maybe
  BY <1>1 DEF Places, Maybe
<1>4. PICK g \in Games : g = rom[p].game
  BY <1>1
<1>5. PICK s \in Session : /\ s.state \in {"idle", "joining"} /\ Shape(p, s)
                           /\ ses' = [ses EXCEPT ![p] = s]
  <2> DEFINE s == [ses[p] EXCEPT !.game = g]
             j == [s EXCEPT !.state = "joining", !.relayed = ~Direct]
  <2>1. ses' = [ses EXCEPT ![p] = s] \/ ses' = [ses EXCEPT ![p] = j]
    BY <1>4 DEF StartConnect
  <2>2. s \in Session /\ Shape(p, s) /\ s.state = "idle" /\ j \in Session /\ Shape(p, j) /\ j.state = "joining"
    BY <1>1, JoiningIs
  <2> QED
    BY <2>1, <2>2
<1>6. Standing(p, s, "keys", hand[p])
  BY <1>1, <1>5 DEF Standing
<1> QED
  BY <1>1, <1>2, <1>3, <1>5, <1>6, Put

LEMMA ShapelyKeys == ASSUME Shapely, NEW p \in Machines, PressPause(p) \/ LoadRom(p) PROVE Shapely'
<1>1. UNCHANGED <<mode, ses, at, hand, mail, backlog, room, queue, owner>>
  BY DEF PressPause, LoadRom, netVars
<1>2. WireTypes
  BY Here
<1>3. CASE PressPause(p)
  <2>1. emu' \in [Machines -> Emulator]
    <3>1. \A e \in Emulator : \A b, c \in BOOLEAN : [e EXCEPT !.paused = b, !.wish = c] \in Emulator
      BY DEF Emulator
    <3>2. emu[p].paused \in BOOLEAN /\ emu[p].wish \in BOOLEAN /\ emu[p] \in Emulator
      BY <1>2 DEF WireTypes, Emulator
    <3>3. PICK b \in BOOLEAN, c \in BOOLEAN : emu' = [emu EXCEPT ![p] = [emu[p] EXCEPT !.paused = b, !.wish = c]]
      BY <1>3, <3>2 DEF PressPause
    <3> QED
      BY <1>2, <3>1, <3>2, <3>3 DEF WireTypes
  <2> QED
    BY <1>1, <1>2, <1>3, <2>1, PutNone DEF PressPause, WireTypes
<1>4. CASE LoadRom(p)
  <2>1. emu' = [emu EXCEPT ![p].paused = FALSE, ![p].wish = FALSE, ![p].ran = 0]
    BY <1>4 DEF LoadRom
  <2>2. emu' \in [Machines -> Emulator]
    BY <1>2, <2>1 DEF WireTypes, Emulator
  <2>3. PICK g \in Games : rom' = [rom EXCEPT ![p] = [game |-> g, loads |-> @.loads + 1]]
    BY <1>4 DEF LoadRom
  <2>4. rom' \in [Machines -> [game : Games, loads : Nat]]
    BY <1>2, <2>3 DEF WireTypes
  <2> QED
    BY <1>1, <1>2, <2>2, <2>4, PutNone DEF WireTypes
<1> QED
  BY <1>3, <1>4

-----------------------------------------------------------------------------
(* Calls of NetplayAdvanceState. *)
LEMMA ShapelyNothing == ASSUME Shapely, NEW p \in Machines, Nothing(p) PROVE Shapely'
<1>1. /\ Calls(p) /\ Returns(p) /\ UNCHANGED <<mode, ses, hand, rom, mail, backlog, room, queue, owner>>
  BY DEF Nothing, netVars
<1>2. WireTypes'
  BY <1>1, CallsIs, Here DEF WireTypes
<1> QED
  BY <1>1, <1>2, CallsIs, Here, PutReturn

LEMMA ShapelyTurnAway == ASSUME Shapely, NEW p \in Machines, TurnAway(p) PROVE Shapely'
<1>1. /\ Calls(p) /\ Returns(p) /\ ses[p].state # "idle"
      /\ UNCHANGED <<mode, ses, hand, rom, room, queue, owner>>
  BY DEF TurnAway
<1>2. PICK s \in backlog : backlog' = backlog \ {s} /\ mail' = mail \cup {Hello(HostPort, s, 0, ses[p].game)}
  BY DEF TurnAway
<1>3. Hello(HostPort, s, 0, ses[p].game) \in Reply
  BY <1>1, Here DEF Hello, Reply, Shape, WireTypes
<1>4. WireTypes'
  BY <1>1, <1>2, <1>3, CallsIs, Here DEF WireTypes
<1> QED
  BY <1>1, <1>4, CallsIs, Here, PutReturn

LEMMA ShapelyAccept == ASSUME Shapely, ConnTypeOK, NEW p \in Machines, Accept(p) PROVE Shapely'
<1>1. /\ Calls(p) /\ Returns(p) /\ mode = "tcp" /\ ses[p].state = "waiting" /\ born[p] < MaxSockets
      /\ UNCHANGED <<mode, hand, rom, room, queue, owner>> /\ born' = [born EXCEPT ![p] = @ + 1]
  BY DEF Accept
<1>2. PICK s \in backlog :
        /\ backlog' = backlog \ {s}
        /\ \/ /\ mail' = mail \cup {Hello(HostPort, s, ses[p].token, ses[p].game)}
              /\ ses' = [ses EXCEPT ![p].client = <<p, born'[p]>>, ![p].peer = s,
                                    ![p].state = "handshaking"]
           \/ UNCHANGED <<mail, ses>>
  BY DEF Accept
<1>3. <<p, born'[p]>> \in Sockets /\ s \in Sockets
  BY <1>1, ConnectAssumption, Here DEF ConnTypeOK, Sockets, WireTypes
<1>4. Hello(HostPort, s, ses[p].token, ses[p].game) \in Reply
  BY <1>1, <1>3, Here DEF Hello, Reply, Shape, Session
<1>5. WireTypes'
  BY <1>1, <1>2, <1>4, CallsIs, Here DEF WireTypes
<1>6. CASE ses' = [ses EXCEPT ![p].client = <<p, born'[p]>>, ![p].peer = s, ![p].state = "handshaking"]
  <2>1. PICK c \in Sockets : c = <<p, born'[p]>>
    BY <1>3
  <2>2. PICK n : n = [ses[p] EXCEPT !.client = c, !.peer = s, !.state = "handshaking"]
    OBVIOUS
  <2>3. ses' = [ses EXCEPT ![p] = n]
    BY <1>6, <2>1, <2>2
  <2>4. ses[p] \in Session /\ Shape(p, ses[p]) /\ c # None /\ s # None
    BY <1>3, Here, PortApart
  <2>5. n \in Session
    BY <1>3, <2>2, <2>4 DEF Session, Maybe, States
  <2>6. Shape(p, n)
    BY <1>1, <2>2, <2>4 DEF Session, Shape, Direct
  <2> QED
    BY <1>1, <1>5, <2>3, <2>5, <2>6, CallsIs, PutReturn
<1>7. CASE UNCHANGED ses
  BY <1>1, <1>5, <1>7, CallsIs, Here, PutReturn
<1> QED
  BY <1>2, <1>6, <1>7

LEMMA ShapelyDismissed ==
    ASSUME Shapely, NEW p \in Machines, Calls(p), Returns(p), ses[p].state = "handshaking", Dismissed(p),
           UNCHANGED <<mode, hand, rom, mail, backlog, room, queue, owner>>
    PROVE  Shapely'
<1>1. WireTypes'
  BY CallsIs, Here DEF WireTypes
<1>2. PICK n : n = [ses[p] EXCEPT !.client = None, !.peer = None, !.state = "waiting"]
  OBVIOUS
<1>3. ses' = [ses EXCEPT ![p] = n]
  BY <1>2 DEF Dismissed
<1>4. ses[p] \in Session /\ Shape(p, ses[p])
  BY Here
<1>5. n \in Session
  BY <1>2, <1>4 DEF Session, Maybe, States
<1>6. Shape(p, n)
  BY <1>2, <1>4 DEF Session, Shape, Direct
<1>7. hand' = [hand EXCEPT ![p] = None] /\ mode' = mode
  BY CallsIs
<1> QED
  BY <1>1, <1>3, <1>5, <1>6, <1>7, PutReturn

LEMMA ShapelyAdmitted ==
    ASSUME Shapely, NEW p \in Machines, Calls(p), Returns(p), NEW m \in mail, Admits(p, m),
           ses[p].state = "handshaking" \/ UdpServes(p),
           ses' = [ses EXCEPT ![p] = Admitted(p, @, m)],
           UNCHANGED <<mode, hand, rom, mail, backlog, room, queue, owner>>
    PROVE  Shapely'
<1>1. WireTypes'
  BY CallsIs, Here DEF WireTypes
<1>2. m \in Question
  BY PortApart, Here DEF Admits, WireTypes, Reply
<1>3. PICK n : n = [ses[p] EXCEPT !.hello = m.token, !.peer = m.from]
  OBVIOUS
<1>8. ses[p] \in Session /\ Shape(p, ses[p]) /\ m.from \in Sockets /\ m.token \in Nat
  BY <1>2, Here DEF Question
<1>4. n \in Session /\ ses[p] \in Session /\ Shape(p, ses[p]) /\ m.from # None
  BY <1>3, <1>8, PortApart DEF Session, Maybe
<1>5. ses' = [ses EXCEPT ![p] = Timed(n)]
  BY <1>3 DEF Admitted
<1>6. Timed(n) \in Session
  BY <1>4, TimedIs
<1>7. Shape(p, Timed(n))
  <2>1. ASSUME NEW t \in Session, t.state = "connected", t.role = ses[p].role, t.token = ses[p].token,
               t.client = ses[p].client, t.peer = m.from, t.server = ses[p].server,
               t.relayed = ses[p].relayed, t.start, t.frames = 0, t.game = ses[p].game
        PROVE  Shape(p, t)
    BY <1>4, <2>1 DEF Shape, Direct, UdpServes
  <2>2. /\ n.role = ses[p].role /\ n.token = ses[p].token /\ n.client = ses[p].client /\ n.peer = m.from
        /\ n.server = ses[p].server /\ n.relayed = ses[p].relayed /\ n.game = ses[p].game
    BY <1>3, <1>4 DEF Session
  <2> QED
    BY <1>4, <1>6, <2>1, <2>2, TimedIs
<1> QED
  BY <1>1, <1>5, <1>6, <1>7, CallsIs, PutReturn

LEMMA ShapelyHandshakes ==
    ASSUME Shapely, NEW p \in Machines, HandshakeFails(p) \/ HandshakeHeard(p) \/ UdpAdmit(p)
    PROVE  Shapely'
<1>1. /\ Calls(p) /\ Returns(p)
      /\ UNCHANGED <<mode, hand, rom, mail, backlog, room, queue, owner>>
  BY DEF HandshakeFails, HandshakeHeard, UdpAdmit, netVars
<1>2. CASE HandshakeFails(p)
  BY <1>1, <1>2, ShapelyDismissed DEF HandshakeFails
<1>3. CASE HandshakeHeard(p)
  BY <1>1, <1>3, ShapelyDismissed, ShapelyAdmitted DEF HandshakeHeard
<1>4. CASE UdpAdmit(p)
  BY <1>1, <1>4, ShapelyAdmitted DEF UdpAdmit
<1> QED
  BY <1>2, <1>3, <1>4

LEMMA ShapelyChallenge == ASSUME Shapely, NEW p \in Machines, Challenge(p) PROVE Shapely'
<1>1. /\ Calls(p) /\ Returns(p) /\ ses[p].state = "waiting"
      /\ UNCHANGED <<mode, ses, hand, rom, backlog, room, queue, owner>>
  BY DEF Challenge, UdpServes
<1>2. PICK m \in mail : m.to = HostPort /\ mail' = mail \cup {Hello(HostPort, m.from, ses[p].token, ses[p].game)}
  BY DEF Challenge
<1>3. m \in Question
  BY <1>2, PortApart, Here DEF WireTypes, Reply
<1>4. Hello(HostPort, m.from, ses[p].token, ses[p].game) \in Reply
  BY <1>1, <1>3, Here DEF Hello, Reply, Question, Shape, Session
<1>5. WireTypes'
  BY <1>1, <1>2, <1>4, CallsIs, Here DEF WireTypes
<1> QED
  BY <1>1, <1>5, CallsIs, Here, PutReturn

(* A session given up while it was being joined. *)
LEMMA StillGivenUp ==
    ASSUME Shapely, NEW p \in Machines, ses[p].state = "joining"
    PROVE  /\ [ses[p] EXCEPT !.state = "idle", !.relayed = FALSE] \in Session
           /\ Shape(p, [ses[p] EXCEPT !.state = "idle", !.relayed = FALSE])
           /\ Direct => /\ [ses[p] EXCEPT !.state = "idle"] \in Session
                        /\ Shape(p, [ses[p] EXCEPT !.state = "idle"])
                        /\ \A t \in Nat : /\ [ses[p] EXCEPT !.state = "idle", !.token = t] \in Session
                                          /\ Shape(p, [ses[p] EXCEPT !.state = "idle", !.token = t])
<1>1. ses[p] \in Session /\ Shape(p, ses[p])
  BY Here
<1>2. ASSUME NEW s \in Session, Shape(p, s), s.state = "joining"
      PROVE  /\ [s EXCEPT !.state = "idle", !.relayed = FALSE] \in Session
             /\ Shape(p, [s EXCEPT !.state = "idle", !.relayed = FALSE])
             /\ Direct => /\ [s EXCEPT !.state = "idle"] \in Session
                          /\ Shape(p, [s EXCEPT !.state = "idle"])
                          /\ \A t \in Nat : /\ [s EXCEPT !.state = "idle", !.token = t] \in Session
                                            /\ Shape(p, [s EXCEPT !.state = "idle", !.token = t])
  BY <1>2 DEF Session, Shape, States
<1> QED
  BY <1>1, <1>2

LEMMA ShapelyTakeSocket == ASSUME Shapely, ConnInv, NEW p \in Machines, TakeSocket(p) PROVE Shapely'
<1>1. /\ Calls(p) /\ ses[p].state = "joining" /\ HandsOver(p) /\ Answer(p)
      /\ at' = [at EXCEPT ![p] = "hello"] /\ hand' = [hand EXCEPT ![p] = conn[p].sock]
      /\ UNCHANGED <<mode, ses, rom, backlog, room, queue, owner>>
      /\ mail' = mail \/ mail' = mail \cup {Hello(conn[p].sock, HostPort, 0, ses[p].game)}
  BY DEF TakeSocket
<1>2. conn[p].sock \in Sockets /\ conn[p].sock # None
  <2>1. wanted[p] # 0 /\ ~conn[p].active /\ conn[p].result = "ready"
    BY <1>1 DEF Answer, HandsOver
  <2>2. conn[p].sock \in open /\ open \subseteq Sockets
    BY <2>1 DEF ConnInv, AnswerSound, ConnTypeOK
  <2> QED
    BY <2>2, PortApart
<1>3. Hello(conn[p].sock, HostPort, 0, ses[p].game) \in Question
  BY <1>1, <1>2, Here DEF Hello, Question, Shape
<1>4. WireTypes'
  BY <1>1, <1>3, CallsIs, Here DEF WireTypes
<1>5. Standing(p, ses[p], "hello", conn[p].sock)
  BY <1>1, <1>2, Here DEF Standing, Shape
<1>6. "hello" \in Places /\ conn[p].sock \in Maybe
  BY <1>2 DEF Places, Maybe
<1> QED
  BY <1>1, <1>4, <1>5, <1>6, PutAt

LEMMA ShapelyConnectFails == ASSUME Shapely, NEW p \in Machines, ConnectFails(p) PROVE Shapely'
<1>1. /\ Calls(p) /\ Returns(p) /\ ses[p].state = "joining"
      /\ ses' = [ses EXCEPT ![p].state = "idle", ![p].relayed = FALSE]
      /\ UNCHANGED <<mode, hand, rom, mail, backlog, room, queue, owner>>
  BY DEF ConnectFails, netVars
<1>2. WireTypes'
  BY <1>1, CallsIs, Here DEF WireTypes
<1>3. PICK n : n = [ses[p] EXCEPT !.state = "idle", !.relayed = FALSE]
  OBVIOUS
<1>4. n \in Session /\ Shape(p, n) /\ ses' = [ses EXCEPT ![p] = n]
  BY <1>1, <1>3, StillGivenUp
<1>5. hand' = [hand EXCEPT ![p] = None] /\ mode' = mode
  BY <1>1, CallsIs
<1> QED
  BY <1>1, <1>2, <1>4, <1>5, PutReturn

(* What goes into a queue, and what is taken off. *)
LEMMA QueueSteps ==
    ASSUME NEW q \in [Sockets -> Seq(Frames)]
    PROVE  /\ \A x : \A f \in Frames : [q EXCEPT ![x] = Append(@, f)] \in [Sockets -> Seq(Frames)]
           /\ \A x : (x \in Sockets => q[x] # <<>>) => [q EXCEPT ![x] = Tail(@)] \in [Sockets -> Seq(Frames)]
<1>1. ASSUME NEW x, NEW f \in Frames PROVE [q EXCEPT ![x] = Append(@, f)] \in [Sockets -> Seq(Frames)]
  <2>1. \A y \in Sockets : Append(q[y], f) \in Seq(Frames)
    OBVIOUS
  <2> QED
    BY <2>1
<1>2. ASSUME NEW x, x \in Sockets => q[x] # <<>> PROVE [q EXCEPT ![x] = Tail(@)] \in [Sockets -> Seq(Frames)]
  <2>1. x \in Sockets => Tail(q[x]) \in Seq(Frames)
    BY <1>2
  <2> QED
    BY <2>1
<1> QED
  BY <1>1, <1>2

LEMMA ShapelyRelayHeard == ASSUME Shapely, NEW p \in Machines, RelayHeard(p) PROVE Shapely'
<1>1. /\ Calls(p) /\ ses[p].state = "relay waiting" /\ queue[ses[p].client] # <<>>
      /\ UNCHANGED <<mode, ses, hand, rom, mail, backlog, room, owner>>
  BY DEF RelayHeard
<1> DEFINE rest == [queue EXCEPT ![ses[p].client] = Tail(@)]
<1>2. \/ /\ at' = [at EXCEPT ![p] = "checking"]
         /\ queue' = [rest EXCEPT ![Other(ses[p].client)] = Append(@, ses[p].game)] \/ queue' = rest
      \/ Returns(p) /\ queue' = rest
  BY DEF RelayHeard
<1>3. queue \in [Sockets -> Seq(Frames)] /\ ses[p].game \in Frames
  BY <1>1, Here DEF WireTypes, Shape, Frames
<1>4. rest \in [Sockets -> Seq(Frames)]
  BY <1>1, <1>3, QueueSteps
<1> HIDE DEF rest
<1>10. \A x : \A f \in Frames : [rest EXCEPT ![x] = Append(@, f)] \in [Sockets -> Seq(Frames)]
  BY <1>4, QueueSteps
<1>5. queue' \in [Sockets -> Seq(Frames)]
  <2>1. CASE queue' = rest
    BY <1>4, <2>1
  <2>2. CASE queue' = [rest EXCEPT ![Other(ses[p].client)] = Append(@, ses[p].game)]
    BY <1>3, <1>10, <2>2
  <2> QED
    BY <1>2, <2>1, <2>2
<1>6. WireTypes'
  BY <1>1, <1>5, CallsIs, Here DEF WireTypes
<1>7. hand' = [hand EXCEPT ![p] = None] /\ mode' = mode /\ None \in Maybe /\ "checking" \in Places
  BY <1>1, CallsIs DEF Maybe, Places
<1>8. CASE at' = [at EXCEPT ![p] = "checking"]
  <2>1. Standing(p, ses[p], "checking", None)
    BY <1>1 DEF Standing
  <2> QED
    BY <1>1, <1>6, <1>7, <1>8, <2>1, PutAt
<1>9. CASE Returns(p)
  <2>1. ses' = [ses EXCEPT ![p] = ses[p]] /\ ses[p] \in Session /\ Shape(p, ses[p])
    BY <1>1, Here
  <2> QED
    BY <1>6, <1>7, <1>9, <2>1, PutReturn
<1> QED
  BY <1>2, <1>8, <1>9

LEMMA ShapelyRelayPing == ASSUME Shapely, NEW p \in Machines, RelayPing(p) PROVE Shapely'
<1>1. /\ Calls(p) /\ Returns(p) /\ queue' = [queue EXCEPT ![ses[p].client] = Append(@, "pong")]
      /\ UNCHANGED <<mode, ses, hand, rom, mail, backlog, room, owner>>
  BY DEF RelayPing
<1>2. queue' \in [Sockets -> Seq(Frames)]
  BY <1>1, QueueSteps, Here DEF WireTypes, Frames
<1>3. WireTypes'
  BY <1>1, <1>2, CallsIs, Here DEF WireTypes
<1> QED
  BY <1>1, <1>3, CallsIs, Here, PutReturn

LEMMA ShapelyRelayLost == ASSUME Shapely, NEW p \in Machines, RelayLost(p) PROVE Shapely'
<1>1. /\ Calls(p) /\ Returns(p) /\ Drop(p, {}) /\ ses' = [ses EXCEPT ![p] = Idle(@)]
      /\ UNCHANGED <<mode, hand, rom, mail, owner>>
  BY DEF RelayLost
<1>2. PICK w \in {"input", "keys"} : at' = [at EXCEPT ![p] = w]
  BY <1>1 DEF Returns
<1> QED
  BY <1>1, <1>2, CallsIs, ShapelyDropped

-----------------------------------------------------------------------------
(* The handshakes. *)
LEMMA ShapelyAnswered == ASSUME Shapely, NEW p \in Machines, Answered(p) PROVE Shapely'
<1>1. /\ at[p] = "hello" /\ Direct /\ UNCHANGED <<mode, emu, rom, backlog, room, queue, owner>>
      /\ Returns(p) /\ hand' = [hand EXCEPT ![p] = None]
  BY DEF Answered, GivesUp
<1>2. /\ ses[p] \in Session /\ Shape(p, ses[p]) /\ ses[p].state = "joining" /\ hand[p] \in Sockets /\ p # Host
      /\ hand[p] # None /\ WireTypes
  BY <1>1, Here, PortApart DEF Standing, Maybe
<1>3. PICK m \in mail :
        /\ m.to = hand[p]
        /\ \/ /\ m.token # 0 /\ m.game = ses[p].game
              /\ mail' = mail \cup {Hello(hand[p], HostPort, m.token, ses[p].game)}
              /\ ses' = [ses EXCEPT ![p] = Timed([@ EXCEPT !.token = m.token, !.client = hand[p]])]
           \/ ses' = [ses EXCEPT ![p].state = "idle", ![p].token = m.token] /\ UNCHANGED mail
           \/ ses' = [ses EXCEPT ![p].state = "idle"] /\ UNCHANGED mail
  BY DEF Answered
<1>4. m.token \in Nat
  BY <1>2 DEF WireTypes, Question, Reply
<1>5. Hello(hand[p], HostPort, m.token, ses[p].game) \in Question
  BY <1>2, <1>4 DEF Hello, Question, Shape
<1>6. WireTypes'
  BY <1>1, <1>2, <1>3, <1>5 DEF WireTypes
<1>7. ASSUME NEW n \in Session, Shape(p, n), ses' = [ses EXCEPT ![p] = n] PROVE Shapely'
  BY <1>1, <1>6, <1>7, PutReturn
<1>8. CASE /\ m.token # 0
           /\ ses' = [ses EXCEPT ![p] = Timed([@ EXCEPT !.token = m.token, !.client = hand[p]])]
  <2>1. PICK n : n = [ses[p] EXCEPT !.token = m.token, !.client = hand[p]]
    OBVIOUS
  <2>2. n \in Session
    BY <1>2, <1>4, <2>1 DEF Session, Maybe
  <2>3. /\ n.role = ses[p].role /\ n.token = m.token /\ n.client = hand[p] /\ n.peer = ses[p].peer
        /\ n.server = ses[p].server /\ n.relayed = ses[p].relayed /\ n.game = ses[p].game
    BY <1>2, <2>1 DEF Session
  <2>4. ASSUME NEW t \in Session, t.state = "connected", t.role = ses[p].role, t.token = m.token,
               t.client = hand[p], t.peer = ses[p].peer, t.server = ses[p].server,
               t.relayed = ses[p].relayed, t.start, t.frames = 0, t.game = ses[p].game
        PROVE  Shape(p, t)
    BY <1>1, <1>2, <1>8, <2>4 DEF Shape, Direct
  <2>5. Timed(n) \in Session /\ Shape(p, Timed(n))
    BY <2>2, <2>3, <2>4, TimedIs
  <2>6. ses' = [ses EXCEPT ![p] = Timed(n)]
    BY <1>8, <2>1
  <2> QED
    BY <1>7, <2>5, <2>6
<1>9. CASE ses' = [ses EXCEPT ![p].state = "idle", ![p].token = m.token]
  BY <1>1, <1>2, <1>4, <1>7, <1>9, StillGivenUp
<1>10. CASE ses' = [ses EXCEPT ![p].state = "idle"]
  BY <1>1, <1>2, <1>7, <1>10, StillGivenUp
<1> QED
  BY <1>3, <1>8, <1>9, <1>10

LEMMA ShapelyUnanswered == ASSUME Shapely, NEW p \in Machines, Unanswered(p) PROVE Shapely'
<1>1. /\ at[p] = "hello" /\ Direct
      /\ UNCHANGED <<mode, emu, rom, mail, backlog, room, queue, owner>>
  BY DEF Unanswered, netVars
<1>2. /\ ses[p] \in Session /\ ses[p].state = "joining" /\ WireTypes
  BY <1>1, Here DEF Standing
<1>3. WireTypes'
  BY <1>1, <1>2 DEF WireTypes
<1>4. CASE UNCHANGED <<hand, at, ses>>
  BY <1>1, <1>3, <1>4, PutNone
<1>5. CASE /\ ses' = [ses EXCEPT ![p].state = "idle"] /\ GivesUp(p)
  <2>1. PICK n : n = [ses[p] EXCEPT !.state = "idle"]
    OBVIOUS
  <2>2. n \in Session /\ Shape(p, n) /\ ses' = [ses EXCEPT ![p] = n]
    BY <1>1, <1>2, <1>5, <2>1, StillGivenUp
  <2>3. hand' = [hand EXCEPT ![p] = None] /\ mode' = mode /\ Returns(p)
    BY <1>1, <1>5 DEF GivesUp
  <2> QED
    BY <1>3, <2>2, <2>3, PutReturn
<1> QED
  BY <1>4, <1>5 DEF Unanswered

LEMMA ShapelySeat == ASSUME Shapely, NEW p \in Machines, TakeRelaySeat(p) PROVE Shapely'
<1>1. /\ at[p] = "hello" /\ ~Direct
      /\ UNCHANGED <<mode, emu, rom, mail, backlog, queue, owner>>
      /\ hand' = [hand EXCEPT ![p] = None] /\ Returns(p)
  BY DEF TakeRelaySeat, GivesUp
<1>2. /\ ses[p] \in Session /\ Shape(p, ses[p]) /\ ses[p].state = "joining" /\ hand[p] \in Sockets
      /\ hand[p] # None /\ WireTypes
  BY <1>1, Here, PortApart DEF Standing, Maybe
<1>3. CASE /\ room' = [room EXCEPT !.seats = Append(@, hand[p])]
           /\ ses' = [ses EXCEPT ![p].state = "relay waiting", ![p].client = hand[p],
                                ![p].role = (room.seats = <<>>)]
  <2>7. Append(room.seats, hand[p]) \in Seq(Sockets) /\ room \in [seats : Seq(Sockets), ready : BOOLEAN]
    BY <1>2 DEF WireTypes
  <2>8. room' \in [seats : Seq(Sockets), ready : BOOLEAN]
    BY <1>3, <2>7
  <2>1. WireTypes'
    BY <1>1, <1>2, <2>8 DEF WireTypes
  <2>2. PICK first \in BOOLEAN : first = (room.seats = <<>>)
    OBVIOUS
  <2>3. PICK n : n = [ses[p] EXCEPT !.state = "relay waiting", !.client = hand[p], !.role = first]
    OBVIOUS
  <2>4. ses' = [ses EXCEPT ![p] = n]
    BY <1>3, <2>2, <2>3
  <2>5. n \in Session
    BY <1>2, <2>3 DEF Session, Maybe, States
  <2>6. Shape(p, n)
    BY <1>1, <1>2, <2>3 DEF Session, Shape, Direct
  <2> QED
    BY <1>1, <2>1, <2>4, <2>5, <2>6, PutReturn
<1>4. CASE ses' = [ses EXCEPT ![p].state = "idle", ![p].relayed = FALSE] /\ UNCHANGED room
  <2>1. WireTypes'
    BY <1>1, <1>2, <1>4 DEF WireTypes
  <2>2. PICK n : n = [ses[p] EXCEPT !.state = "idle", !.relayed = FALSE]
    OBVIOUS
  <2>3. n \in Session /\ Shape(p, n) /\ ses' = [ses EXCEPT ![p] = n]
    BY <1>2, <1>4, <2>2, StillGivenUp
  <2> QED
    BY <1>1, <2>1, <2>3, PutReturn
<1> QED
  BY <1>3, <1>4 DEF TakeRelaySeat

LEMMA ShapelyChecked == ASSUME Shapely, NEW p \in Machines, GameHeard(p) \/ GameUnheard(p) PROVE Shapely'
<1>1. /\ at[p] = "checking" /\ UNCHANGED <<mode, emu, hand, rom, mail, owner>>
  BY DEF GameHeard, GameUnheard
<1>2. /\ ses[p] \in Session /\ Shape(p, ses[p]) /\ ses[p].state = "relay waiting" /\ hand[p] = None
      /\ WireTypes /\ hand = [hand EXCEPT ![p] = hand[p]] /\ emu' \in [Machines -> Emulator]
      /\ ses[p].client \in Sockets
  BY <1>1, Here, PortApart DEF Standing, Shape, Session, Maybe, WireTypes
<1>3. ASSUME Drop(p, {}), ses' = [ses EXCEPT ![p] = Idle(@)], Returns(p) PROVE Shapely'
  <2>1. PICK w \in {"input", "keys"} : at' = [at EXCEPT ![p] = w]
    BY <1>3 DEF Returns
  <2> QED
    BY <1>1, <1>2, <1>3, <2>1, ShapelyDropped
<1>4. ASSUME queue[ses[p].client] # <<>>, queue' = [queue EXCEPT ![ses[p].client] = Tail(@)],
             UNCHANGED <<room, backlog>>
      PROVE  WireTypes'
  <2>1. queue' \in [Sockets -> Seq(Frames)]
    BY <1>2, <1>4, QueueSteps DEF WireTypes
  <2> QED
    BY <1>1, <1>2, <1>4, <2>1 DEF WireTypes
<1>5. ASSUME ses' = [ses EXCEPT ![p] = Timed(@)], Returns(p), WireTypes' PROVE Shapely'
  <2>1. ASSUME NEW t \in Session, t.state = "connected", t.role = ses[p].role, t.token = ses[p].token,
               t.client = ses[p].client, t.peer = ses[p].peer, t.server = ses[p].server,
               t.relayed = ses[p].relayed, t.start, t.frames = 0, t.game = ses[p].game
        PROVE  Shape(p, t)
    BY <1>2, <2>1 DEF Shape, Direct
  <2>2. Timed(ses[p]) \in Session /\ Shape(p, Timed(ses[p]))
    BY <1>2, <2>1, TimedIs
  <2>3. ses' = [ses EXCEPT ![p] = Timed(ses[p])] /\ hand' = [hand EXCEPT ![p] = None] /\ mode' = mode
    BY <1>1, <1>2, <1>5
  <2> QED
    BY <1>5, <2>2, <2>3, PutReturn
<1>6. CASE GameUnheard(p)
  BY <1>3, <1>6 DEF GameUnheard
<1>7. CASE GameHeard(p)
  <2>1. queue[ses[p].client] # <<>>
    BY <1>7 DEF GameHeard
  <2>2. \/ /\ queue' = [queue EXCEPT ![ses[p].client] = Tail(@)] /\ UNCHANGED <<room, backlog>>
           /\ \/ ses' = [ses EXCEPT ![p] = Timed(@)] /\ Returns(p)
              \/ UNCHANGED <<ses, at>>
        \/ Drop(p, {}) /\ ses' = [ses EXCEPT ![p] = Idle(@)] /\ Returns(p)
    BY <1>7 DEF GameHeard
  <2> QED
    BY <1>1, <1>3, <1>4, <1>5, <2>1, <2>2, PutNone
<1> QED
  BY <1>6, <1>7

LEMMA ShapelyExchange == ASSUME Shapely, NEW p \in Machines, Exchange(p) PROVE Shapely'
<1>1. /\ at[p] = "input" /\ ses[p].state = "connected" /\ PeerInput(p)
      /\ ses' = [ses EXCEPT ![p].frames = @ + 1, ![p].hello = 0]
      /\ emu' = [emu EXCEPT ![p].ran = IF emu[p].paused THEN @ ELSE @ + 1]
      /\ at' = [at EXCEPT ![p] = "keys"]
      /\ UNCHANGED <<mode, hand, rom, mail, backlog, room, owner>>
  BY DEF Exchange, Exchanging
<1> DEFINE read == [queue EXCEPT ![ses[p].client] = Tail(@)]
<1>2. \/ queue' = queue
      \/ queue' = [queue EXCEPT ![Other(ses[p].client)] = Append(@, "input")]
      \/ /\ ses[p].relayed /\ ~(ses[p].frames < Delay)
         /\ queue' = [read EXCEPT ![Other(ses[p].client)] = Append(@, "input")] \/ queue' = read
  BY DEF Exchange
<1>3. /\ ses[p] \in Session /\ Shape(p, ses[p]) /\ hand[p] = None /\ WireTypes /\ "input" \in Frames
      /\ hand = [hand EXCEPT ![p] = hand[p]] /\ queue \in [Sockets -> Seq(Frames)]
  BY <1>1, Here DEF Standing, WireTypes, Frames
<1>4. ses[p].relayed /\ ~(ses[p].frames < Delay) => read \in [Sockets -> Seq(Frames)]
  BY <1>1, <1>3, QueueSteps DEF PeerInput
<1> HIDE DEF read
<1>5. queue' \in [Sockets -> Seq(Frames)]
  <2>1. \A x : [queue EXCEPT ![x] = Append(@, "input")] \in [Sockets -> Seq(Frames)]
    BY <1>3, QueueSteps
  <2>2. CASE ses[p].relayed /\ ~(ses[p].frames < Delay)
    <3>1. \A x : [read EXCEPT ![x] = Append(@, "input")] \in [Sockets -> Seq(Frames)]
      BY <1>3, <1>4, <2>2, QueueSteps
    <3> QED
      BY <1>2, <1>3, <1>4, <2>1, <2>2, <3>1
  <2> QED
    BY <1>2, <1>3, <2>1, <2>2
<1>6. emu' \in [Machines -> Emulator]
  <2>1. emu[p] \in Emulator /\ emu \in [Machines -> Emulator]
    BY <1>3 DEF WireTypes
  <2>2. PICK n \in Nat : n = IF emu[p].paused THEN emu[p].ran ELSE emu[p].ran + 1
    BY <2>1 DEF Emulator
  <2>3. emu' = [emu EXCEPT ![p] = [emu[p] EXCEPT !.ran = n]] /\ [emu[p] EXCEPT !.ran = n] \in Emulator
    BY <1>1, <2>1, <2>2 DEF Emulator
  <2> QED
    BY <2>1, <2>3
<1>7. WireTypes'
  BY <1>1, <1>3, <1>5, <1>6 DEF WireTypes
<1>8. PICK k \in Nat : k = ses[p].frames + 1
  BY <1>3 DEF Session
<1>11. PICK n : n = [ses[p] EXCEPT !.frames = k, !.hello = 0]
  OBVIOUS
<1>12. n \in Session /\ Shape(p, n)
  BY <1>1, <1>3, <1>11 DEF Session, Shape
<1>9. n \in Session /\ Shape(p, n) /\ ses' = [ses EXCEPT ![p] = n]
  BY <1>1, <1>8, <1>11, <1>12
<1>10. "keys" \in Places /\ Standing(p, n, "keys", None) /\ hand' = [hand EXCEPT ![p] = None] /\ None \in Maybe
       /\ mode' = mode
  BY <1>1, <1>3 DEF Places, Standing, Maybe
<1> QED
  BY <1>1, <1>7, <1>9, <1>10, Put

LEMMA ShapelyPass == ASSUME Shapely, NEW p \in Machines, Pass(p) PROVE Shapely'
<1>1. /\ at[p] = "input" /\ at' = [at EXCEPT ![p] = "keys"]
      /\ UNCHANGED <<mode, hand, rom, mail, backlog, room, queue, owner>>
      /\ \/ ses[p].state = "connected" /\ PowerCycle(p)
         \/ UNCHANGED <<ses, emu>>
  BY DEF Pass, netVars
<1>2. /\ ses[p] \in Session /\ Shape(p, ses[p]) /\ hand[p] = None /\ WireTypes
      /\ hand = [hand EXCEPT ![p] = hand[p]] /\ None \in Maybe /\ "keys" \in Places
  BY <1>1, Here DEF Standing, Maybe, Places
<1>3. CASE ses[p].state = "connected" /\ PowerCycle(p)
  <2>1. emu' = [emu EXCEPT ![p] = [emu[p] EXCEPT !.ran = 0]] /\ ses' = [ses EXCEPT ![p] = [ses[p] EXCEPT !.start = FALSE]]
    BY <1>3 DEF PowerCycle
  <2>2. \A e \in Emulator : [e EXCEPT !.ran = 0] \in Emulator
    BY DEF Emulator
  <2>3. WireTypes'
    BY <1>1, <1>2, <2>1, <2>2 DEF WireTypes
  <2>4. PICK n : n = [ses[p] EXCEPT !.start = FALSE]
    OBVIOUS
  <2>5. n \in Session /\ Shape(p, n) /\ n.state = "connected"
    BY <1>2, <1>3, <2>4 DEF Session, Shape
  <2>6. Standing(p, n, "keys", None)
    BY DEF Standing
  <2>7. ses' = [ses EXCEPT ![p] = n] /\ hand' = [hand EXCEPT ![p] = None] /\ mode' = mode
    BY <1>1, <1>2, <2>1, <2>4
  <2> QED
    BY <1>1, <1>2, <2>3, <2>5, <2>6, <2>7, Put
<1>4. CASE UNCHANGED <<ses, emu>>
  <2>1. WireTypes'
    BY <1>1, <1>2, <1>4 DEF WireTypes
  <2>2. Standing(p, ses[p], "keys", None) /\ hand' = [hand EXCEPT ![p] = None]
    BY <1>1, <1>2 DEF Standing
  <2> QED
    BY <1>1, <1>2, <1>4, <2>1, <2>2, PutAt
<1> QED
  BY <1>1, <1>3, <1>4

LEMMA ShapelyPeerLost == ASSUME Shapely, ConnTypeOK, NEW p \in Machines, PeerLost(p) PROVE Shapely'
<1>1. /\ at[p] = "input" /\ ses[p].state = "connected" /\ at' = [at EXCEPT ![p] = "keys"]
      /\ UNCHANGED <<mode, emu, hand, rom, mail>>
  BY DEF PeerLost, Exchanging
<1>2. /\ ses[p] \in Session /\ Shape(p, ses[p]) /\ hand[p] = None /\ WireTypes /\ Types
      /\ hand' = [hand EXCEPT ![p] = None] /\ None \in Maybe /\ "keys" \in Places
      /\ emu' \in [Machines -> Emulator] /\ born[p] \in 0..MaxSockets
  BY <1>1, Here DEF Standing, Maybe, Places, WireTypes, ConnTypeOK
<1>3. ASSUME NEW fd \in Sockets, owner' = Append(owner, p), p = Host, Direct, WireTypes',
             ses' = [ses EXCEPT ![p] = Waiting(p, fd, TRUE)]
      PROVE  Shapely'
  <2>1. PICK w : w = Waiting(p, fd, TRUE)
    OBVIOUS
  <2>2. w \in Session /\ Shape(p, w) /\ w.state = "waiting"
    BY <1>2, <1>3, <2>1, WaitingIs, WaitingFits
  <2>3. Standing(p, w, "keys", None)
    BY DEF Standing
  <2> QED
    BY <1>1, <1>2, <1>3, <2>1, <2>2, <2>3, Put
<1>4. CASE ses[p].role /\ ~ses[p].relayed /\ ses[p].server # None
  <2>1. /\ Drop(p, {ses[p].server}) /\ owner' = Append(owner, p)
        /\ ses' = [ses EXCEPT ![p] = Waiting(p, @.server, TRUE)]
    BY <1>4 DEF PeerLost
  <2>2. p = Host /\ Direct /\ ses[p].server \in Sockets
    BY <1>1, <1>2, <1>4 DEF Shape, Session, Maybe
  <2>3. /\ room' \in [seats : Seq(Sockets), ready : BOOLEAN]
        /\ queue' \in [Sockets -> Seq(Frames)] /\ backlog' \subseteq Sockets
    BY <1>2, <2>1, HangupTyped DEF Drop, WireTypes
  <2>4. owner' \in Seq(Machines)
    BY <1>2, <2>1 DEF WireTypes
  <2>5. WireTypes'
    BY <1>1, <1>2, <2>3, <2>4 DEF WireTypes
  <2> QED
    BY <1>3, <2>1, <2>2, <2>5
<1>5. CASE ses[p].role /\ ~ses[p].relayed /\ ses[p].server = None
  <2>1. /\ UNCHANGED <<backlog, room, queue>>
        /\ \/ /\ born[p] < MaxSockets /\ owner' = Append(owner, p)
              /\ ses' = [ses EXCEPT ![p] = Waiting(p, <<p, born[p] + 1>>, TRUE)]
           \/ ses' = [ses EXCEPT ![p] = Idle(@)] /\ UNCHANGED owner
    BY <1>5 DEF PeerLost
  <2>2. p = Host /\ Direct
    BY <1>1, <1>2, <1>5 DEF Shape
  <2>3. born[p] < MaxSockets => <<p, born[p] + 1>> \in Sockets
    BY <1>2, ConnectAssumption DEF Sockets
  <2>4. CASE born[p] < MaxSockets /\ owner' = Append(owner, p)
             /\ ses' = [ses EXCEPT ![p] = Waiting(p, <<p, born[p] + 1>>, TRUE)]
    <3>1. owner' \in Seq(Machines)
      BY <1>2, <2>4 DEF WireTypes
    <3>2. WireTypes'
      BY <1>1, <1>2, <2>1, <3>1 DEF WireTypes
    <3> QED
      BY <1>3, <2>2, <2>3, <2>4, <3>2
  <2>5. CASE ses' = [ses EXCEPT ![p] = Idle(@)] /\ UNCHANGED owner
    <3>1. WireTypes'
      BY <1>1, <1>2, <2>1, <2>5 DEF WireTypes
    <3>2. PICK n : n = Idle(ses[p])
      OBVIOUS
    <3>3. n \in Session /\ Shape(p, n) /\ ses' = [ses EXCEPT ![p] = n] /\ Standing(p, n, "keys", None)
      BY <1>2, <2>5, <3>2, IdleIs, IdleFits DEF Standing
    <3> QED
      BY <1>1, <1>2, <3>1, <3>3, Put
  <2> QED
    BY <2>1, <2>4, <2>5
<1>6. CASE ~(ses[p].role /\ ~ses[p].relayed)
  <2>1. Drop(p, {}) /\ ses' = [ses EXCEPT ![p] = Idle(@)] /\ UNCHANGED owner
    BY <1>6 DEF PeerLost
  <2> QED
    BY <1>1, <1>2, <2>1, ShapelyDropped
<1> QED
  BY <1>4, <1>5, <1>6

LEMMA ShapelyThread == ASSUME Shapely, ConnTypeOK, ConnectThread PROVE Shapely'
<1>1. UNCHANGED <<mode, ses, emu, at, hand, rom, mail, room, queue, owner>>
  BY DEF ConnectThread
<1>2. backlog' \subseteq Sockets
  BY DEF ConnectThread, Connected, ConnTypeOK, SocketOf, Sockets, Shapely, Types, WireTypes
<1>3. WireTypes'
  BY <1>1, <1>2 DEF Shapely, Types, WireTypes
<1> QED
  BY <1>1, <1>3, PutNone

LEMMA ShapelyAnnounce == ASSUME Shapely, Announce PROVE Shapely'
<1>1. /\ UNCHANGED <<mode, ses, emu, at, hand, rom, mail, backlog, owner>>
      /\ room' = [room EXCEPT !.ready = TRUE]
      /\ queue' = [s \in Sockets |-> IF Seated(s) THEN Append(queue[s], "ready") ELSE queue[s]]
  BY DEF Announce
<1>2. WireTypes /\ "ready" \in Frames
  BY DEF Shapely, Types, Frames
<1>3. \A s \in Sockets : Append(queue[s], "ready") \in Seq(Frames) /\ queue[s] \in Seq(Frames)
  BY <1>2 DEF WireTypes
<1>4. queue' \in [Sockets -> Seq(Frames)]
  BY <1>1, <1>3
<1>5. room' \in [seats : Seq(Sockets), ready : BOOLEAN]
  BY <1>1, <1>2 DEF WireTypes
<1>6. WireTypes'
  BY <1>1, <1>2, <1>4, <1>5 DEF WireTypes
<1> QED
  BY <1>1, <1>6, PutNone

LEMMA ShapelyStep == ASSUME Shapely, ConnInv, Next PROVE Shapely'
<1>1. ConnTypeOK
  BY DEF ConnInv
<1>2. ASSUME NEW p \in Machines, Panel(p) PROVE Shapely'
  BY <1>1, <1>2, ShapelyPressHost, ShapelyPressJoin, ShapelyDisconnect, ShapelyKeys DEF Panel
<1>3. ASSUME NEW p \in Machines, Advance(p) PROVE Shapely'
  BY <1>1, <1>3, ShapelyNothing, ShapelyTurnAway, ShapelyAccept, ShapelyHandshakes, ShapelyChallenge,
     ShapelyTakeSocket, ShapelyConnectFails, ShapelyRelayHeard, ShapelyRelayPing, ShapelyRelayLost
     DEF Advance
<1>4. ASSUME NEW p \in Machines, Blocked(p) PROVE Shapely'
  BY <1>4, ShapelyStart, ShapelyAnswered, ShapelyUnanswered, ShapelySeat, ShapelyChecked DEF Blocked
<1>5. ASSUME NEW p \in Machines, Rest(p) PROVE Shapely'
  BY <1>1, <1>5, ShapelyExchange, ShapelyPeerLost, ShapelyPass DEF Rest
<1> QED
  BY <1>1, <1>2, <1>3, <1>4, <1>5, ShapelyThread, ShapelyAnnounce DEF Next, Machine

-----------------------------------------------------------------------------
(* A step changes nothing of another machine, and no socket but its own. *)
(* A machine's step is its own business. *)
LEMMA Local ==
    ASSUME Shapely, NEW p \in Machines, Machine(p), NEW q \in Machines \ {p}
    PROVE  /\ ses'[q] = ses[q] /\ at'[q] = at[q] /\ hand'[q] = hand[q] /\ emu'[q] = emu[q]
           /\ mode' = mode
<1>0. /\ ses \in [Machines -> Session] /\ at \in [Machines -> Places] /\ hand \in [Machines -> Maybe]
      /\ emu \in [Machines -> Emulator]
  BY Here DEF WireTypes
<1>1. CASE Panel(p)
  BY <1>0, <1>1 DEF Panel, PressHost, PressJoin, PressDisconnect, PressPause, LoadRom
<1>2. CASE Nothing(p) \/ TurnAway(p) \/ Accept(p)
  BY <1>0, <1>2 DEF Nothing, TurnAway, Accept, Calls, Returns
<1>3. CASE HandshakeFails(p) \/ HandshakeHeard(p) \/ Challenge(p) \/ UdpAdmit(p)
  BY <1>0, <1>3 DEF HandshakeFails, HandshakeHeard, Challenge, UdpAdmit, Dismissed, Calls, Returns
<1>4. CASE TakeSocket(p) \/ ConnectFails(p) \/ RelayHeard(p) \/ RelayPing(p) \/ RelayLost(p)
  BY <1>0, <1>4 DEF TakeSocket, ConnectFails, RelayHeard, RelayPing, RelayLost, Calls, Returns
<1>5. CASE StartConnect(p) \/ Answered(p) \/ Unanswered(p) \/ TakeRelaySeat(p)
  BY <1>0, <1>5 DEF StartConnect, Answered, Unanswered, TakeRelaySeat, GivesUp, Returns
<1>6. CASE GameHeard(p) \/ GameUnheard(p)
  BY <1>0, <1>6 DEF GameHeard, GameUnheard, Returns
<1>7. CASE Rest(p)
  BY <1>0, <1>7 DEF Rest, Exchange, PeerLost, Pass, PowerCycle
<1> QED
  BY <1>1, <1>2, <1>3, <1>4, <1>5, <1>6, <1>7 DEF Machine, Advance, Blocked

LEMMA Owned ==
    ASSUME Held, ConnTypeOK, NEW p \in Machines
    PROVE  /\ \A x \in Mine(p) : x \in open /\ x \in Sockets /\ x[1] = p
           /\ \A x \in Pending(p) : x \in Sockets /\ x[1] = p /\ x \notin Mine(p)
           /\ conn[p].sock # None => conn[p].sock \in Sockets /\ conn[p].sock[1] = p
<1>1. Holding(p) /\ born[p] \in 0..MaxSockets
  BY DEF Held, ConnTypeOK
<1>2. \A x \in Drawn(p) : x \in Sockets /\ x[1] = p
  BY <1>1, ConnectAssumption DEF Drawn, Sockets
<1> QED
  BY <1>1, <1>2 DEF Holding, Pending

(* What one machine asks of its connect thread, and the sockets it opens    *)
(* and closes, leave the others as they are.                                *)
LEMMA Moves ==
    ASSUME Held, ConnInv, NEW p \in Machines,
           \/ Ask(p, born'[p]) /\ born'[p] > born[p]
           \/ AskInVain(p) \/ Abandon(p) \/ Answer(p)
           \/ UNCHANGED <<conn, threads, wanted>>,
           born' \in [Machines -> 0..MaxSockets], born'[p] >= born[p],
           \A q \in Machines \ {p} : /\ born'[q] = born[q] /\ ses'[q] = ses[q]
                                     /\ hand'[q] = hand[q] /\ at'[q] = at[q],
           open' \subseteq Sockets, \A x \in open \ open' : x[1] = p,
           Pending(p)' \cap open \subseteq open', Holding(p)'
    PROVE  CallerStep /\ Held'
<1>0. /\ conn \in [Machines -> Statics] /\ born \in [Machines -> 0..MaxSockets] /\ threads \subseteq Threads
      /\ ConnTypeOK
  BY DEF ConnInv, ConnTypeOK, Statics, Threads
<1>1. ASSUME NEW q \in Machines \ {p}
      PROVE  /\ conn'[q] = conn[q] /\ \A t \in threads' : t.owner = q => t \in threads
             /\ \A t \in threads : t.owner = q => t \in threads'
  BY <1>0 DEF Ask, AskInVain, Abandon, Answer, Thread
<1>2. ASSUME NEW q \in Machines \ {p} PROVE Pending(q)' \cap open \subseteq open'
  <2>1. Pending(q)' \subseteq Pending(q)
    BY <1>1 DEF Pending, SocketOf
  <2>2. \A x \in Pending(q) : x[1] # p
    BY <1>0, Owned
  <2> QED
    BY <2>1, <2>2
<1>3. ASSUME NEW q \in Machines \ {p} PROVE Holding(q)'
  <2>1. Holding(q) /\ Mine(q)' = Mine(q) /\ Drawn(q)' = Drawn(q)
    BY DEF Held, Mine, Drawn
  <2>2. Mine(q)' \subseteq open'
    BY <1>0, <2>1, Owned
  <2>3. \A t \in threads' : t.owner = q => SocketOf(t)' \in Drawn(q) \ Mine(q)
    BY <1>1, <2>1 DEF Holding, SocketOf
  <2>4. /\ ses'[q].client # None => ses'[q].client # ses'[q].server
        /\ conn'[q].sock # None => conn'[q].sock \in Drawn(q) \ Mine(q)
        /\ at'[q] = "starting" => born'[q] < MaxSockets
    BY <1>1, <2>1 DEF Holding
  <2> QED
    BY <2>1, <2>2, <2>3, <2>4 DEF Holding
<1>4. \A q \in Machines : born'[q] >= born[q]
  BY <1>0
<1>5. \A q \in Machines : Pending(q)' \cap open \subseteq open'
  BY <1>2
<1>6. CallerStep
  BY <1>4, <1>5 DEF CallerStep
<1>7. Held'
  BY <1>3 DEF Held
<1> QED
  BY <1>6, <1>7

Goes(p) == \A q \in Machines \ {p} : ses'[q] = ses[q] /\ at'[q] = at[q] /\ hand'[q] = hand[q]

LEMMA Quiet ==
    ASSUME Held, NEW p \in Machines, Goes(p), UNCHANGED connVars, Mine(p)' \subseteq Mine(p),
           ses'[p].client # None => ses'[p].client # ses'[p].server,
           at'[p] = "starting" => at[p] = "starting"
    PROVE  Held' /\ [ConnNext]_connVars
<1>1. ASSUME NEW q \in Machines PROVE Holding(q)'
  <2>1. Mine(q)' \subseteq Mine(q) /\ Drawn(q)' = Drawn(q)
    BY DEF Goes, Mine, Drawn, connVars
  <2>2. Holding(q)
    BY DEF Held
  <2>3. ses'[q].client # None => ses'[q].client # ses'[q].server
    BY <2>2 DEF Holding, Goes
  <2>4. at'[q] = "starting" => at[q] = "starting"
    BY DEF Goes
  <2> QED
    BY <2>1, <2>2, <2>3, <2>4 DEF Holding, connVars, SocketOf
<1> QED
  BY <1>1 DEF Held

(* Nobody's sockets change. *)
LEMMA QuietKept ==
    ASSUME Held, NEW p \in Machines, Goes(p), UNCHANGED connVars, hand'[p] = hand[p],
           ses'[p].client = ses[p].client, ses'[p].server = ses[p].server, at'[p] # "starting"
    PROVE  Held' /\ [ConnNext]_connVars
<1>1. Mine(p)' \subseteq Mine(p)
  BY DEF Mine
<1>2. ses'[p].client # None => ses'[p].client # ses'[p].server
  BY DEF Held, Holding
<1> QED
  BY <1>1, <1>2, Quiet

(* NetplayDisconnectSession: whatever is closed was the machine's own, and   *)
(* what a thread still has in hand is not.                                   *)
LEMMA Abandons ==
    ASSUME ConnInv, Held, NEW p \in Machines, Goes(p), Abandon(p), NEW closed,
           closed \subseteq Mine(p) \cup {None} \cup ClosedByCancel(p), ClosedByCancel(p) \subseteq closed,
           NEW fd, fd = <<p, born[p] + 1>>,
           \/ /\ open' = open \ closed /\ UNCHANGED born
              /\ Mine(p)' \subseteq Mine(p) \ closed
           \/ /\ open' = (open \ closed) \cup {fd} /\ born' = [born EXCEPT ![p] = @ + 1]
              /\ born[p] < MaxSockets
              /\ Mine(p)' \subseteq (Mine(p) \ closed) \cup {fd},
           ses'[p].client # None => ses'[p].client # ses'[p].server,
           at'[p] = "starting" => born'[p] < MaxSockets
    PROVE  Held' /\ CallerStep
<1>0. /\ ConnTypeOK /\ OneAtATime /\ Holding(p) /\ born \in [Machines -> 0..MaxSockets]
      /\ conn \in [Machines -> Statics] /\ born[p] \in 0..MaxSockets
  BY DEF ConnInv, Held, ConnTypeOK, Statics
<1>1. /\ UNCHANGED threads /\ conn' = [conn EXCEPT ![p] = Cancelled(conn[p])]
  BY DEF Abandon
<1>2. conn'[p].sock = IF conn[p].active THEN conn[p].sock ELSE None
  BY <1>0, <1>1 DEF Cancelled, Statics
<1>3. /\ born' \in [Machines -> 0..MaxSockets] /\ born'[p] >= born[p]
      /\ \A q \in Machines \ {p} : born'[q] = born[q]
  BY <1>0, ConnectAssumption
<1>9. born[p] < MaxSockets => fd \in Sockets
  BY <1>0, ConnectAssumption DEF Sockets
<1>4. open' \subseteq Sockets /\ \A x \in open \ open' : x[1] = p
  <2>1. \A x \in closed : x \in Sockets => x[1] = p
    BY <1>0, Owned, PortApart DEF ClosedByCancel
  <2> QED
    BY <1>0, <1>9, <2>1 DEF ConnTypeOK
<1>5. Pending(p)' \subseteq Pending(p) /\ Pending(p)' \cap closed = {}
  <2>1. CASE conn[p].active
    <3>1. ClosedByCancel(p) = {} /\ conn'[p].sock = conn[p].sock
      BY <1>2, <2>1 DEF ClosedByCancel
    <3>2. Pending(p)' = Pending(p)
      BY <1>1, <3>1 DEF Pending, SocketOf
    <3>3. \A x \in Pending(p) : x \in Sockets /\ x \notin Mine(p)
      BY <1>0, Owned
    <3> QED
      BY <3>1, <3>2, <3>3, PortApart
  <2>2. CASE ~conn[p].active
    <3>1. Pending(p)' = {}
      BY <1>0, <1>1, <1>2, <2>2 DEF OneAtATime, Pending
    <3> QED
      BY <3>1
  <2> QED
    BY <2>1, <2>2
<1>6. Pending(p)' \cap open \subseteq open'
  BY <1>5
<1>7. Holding(p)'
  <2>5. born'[p] \in Nat /\ born'[p] >= born[p] /\ (born' = [born EXCEPT ![p] = @ + 1] => born'[p] = born[p] + 1)
    BY <1>0, <1>3
  <2>6. Drawn(p) \subseteq Drawn(p)' /\ (born'[p] = born[p] + 1 => fd \in Drawn(p)')
    BY <1>0, <2>5 DEF Drawn
  <2>7. Mine(p) \subseteq open \cap Drawn(p)
    BY <1>0 DEF Holding
  <2>1. Drawn(p) \subseteq Drawn(p)' /\ Mine(p)' \subseteq open' \cap Drawn(p)'
    BY <2>5, <2>6, <2>7
  <2>2. \A x \in Drawn(p) \ Mine(p) : x \in Drawn(p)' \ Mine(p)'
    <3>1. fd \notin Drawn(p)
      BY <1>0 DEF Drawn
    <3> QED
      BY <2>1, <3>1
  <2>3. conn'[p].sock # None => conn'[p].sock \in Drawn(p)' \ Mine(p)'
    BY <1>0, <1>2, <2>2 DEF Holding
  <2>4. \A t \in threads' : t.owner = p => SocketOf(t)' \in Drawn(p)' \ Mine(p)'
    BY <1>0, <1>1, <2>2 DEF Holding, SocketOf
  <2> QED
    BY <2>1, <2>3, <2>4 DEF Holding
<1>8. CallerStep /\ Held'
  BY <1>3, <1>4, <1>6, <1>7, Moves DEF Goes
<1> QED
  BY <1>8

LEMMA GoesLocal == ASSUME Shapely, NEW p \in Machines, Machine(p) PROVE Goes(p)
BY Local DEF Goes

LEMMA SocketsDropped ==
    ASSUME Shapely, ConnInv, Held, NEW p \in Machines, Goes(p), Drop(p, {}), UNCHANGED <<born, hand>>,
           ses'[p] = Idle(ses[p]), at[p] # "hello", at'[p] = "starting" => born[p] < MaxSockets
    PROVE  Held' /\ [ConnNext]_connVars
<1>7. ses[p] \in Session /\ Standing(p, ses[p], at[p], hand[p])
  BY Here
<1>1. hand[p] = None /\ ses'[p].client = None /\ ses'[p].server = None
  BY <1>7, IdleIs DEF Standing
<1>2. Mine(p)' = {}
  BY <1>1 DEF Mine
<1> DEFINE closed == {ses[p].client, ses[p].server} \cup ClosedByCancel(p)
<1>3. /\ Abandon(p) /\ open' = open \ closed /\ UNCHANGED born
      /\ closed \subseteq Mine(p) \cup {None} \cup ClosedByCancel(p) /\ ClosedByCancel(p) \subseteq closed
  BY DEF Drop, Mine
<1> HIDE DEF closed
<1>4. Mine(p)' \subseteq Mine(p) \ closed
  BY <1>2
<1>5. PICK fd : fd = <<p, born[p] + 1>>
  OBVIOUS
<1>6. Held' /\ CallerStep
  BY <1>1, <1>3, <1>4, <1>5, Abandons
<1> QED
  BY <1>6 DEF ConnNext

LEMMA SocketsPressHost ==
    ASSUME Shapely, ConnInv, Held, NEW p \in Machines, PressHost(p) PROVE Held' /\ [ConnNext]_connVars
<1> DEFINE closed == {ses[p].client, ses[p].server} \cup ClosedByCancel(p)
<1>5. /\ Standing(p, ses[p], at[p], hand[p]) /\ ses[p] \in Session /\ Types /\ born[p] \in Nat /\ Goes(p)
  BY GoesLocal, Here DEF Machine, Panel, ConnInv, ConnTypeOK
<1>0. Goes(p) /\ at[p] = "keys" /\ at'[p] = "keys" /\ hand'[p] = None /\ hand[p] = None /\ born[p] \in Nat
  BY <1>5 DEF PressHost, Standing
<1>1. PICK fd : fd = <<p, born[p] + 1>>
  OBVIOUS
<1>2. /\ Abandon(p) /\ Direct
      /\ closed \subseteq Mine(p) \cup {None} \cup ClosedByCancel(p) /\ ClosedByCancel(p) \subseteq closed
      /\ \/ /\ open' = (open \ closed) \cup {fd} /\ born[p] < MaxSockets
            /\ born' = [born EXCEPT ![p] = @ + 1] /\ owner' = Append(owner, p)
            /\ ses'[p] = Waiting(p, fd, FALSE)
         \/ open' = open \ closed /\ UNCHANGED born /\ ses'[p] = Idle(ses[p])
  BY <1>1, Here DEF PressHost, Mine
<1> HIDE DEF closed
<1>3. CASE /\ open' = (open \ closed) \cup {fd} /\ born[p] < MaxSockets
           /\ born' = [born EXCEPT ![p] = @ + 1] /\ owner' = Append(owner, p)
           /\ ses'[p] = Waiting(p, fd, FALSE)
  <2>1. fd \in Sockets
    BY <1>0, <1>1, <1>3, ConnectAssumption DEF Sockets
  <2>2. /\ ses'[p].client = IF mode = "udp" THEN fd ELSE None
        /\ ses'[p].server = IF mode = "tcp" THEN fd ELSE None
    <3>1. PICK w : w = Waiting(p, fd, FALSE)
      OBVIOUS
    <3>2. /\ w.client = IF mode = "udp" THEN fd ELSE None
          /\ w.server = IF mode = "tcp" THEN fd ELSE None
      BY <1>3, <1>5, <2>1, <3>1, WaitingIs
    <3> QED
      BY <1>3, <3>1, <3>2
  <2>3. /\ Mine(p)' \subseteq (Mine(p) \ closed) \cup {fd}
        /\ ses'[p].client # None => ses'[p].client # ses'[p].server
    BY <1>0, <2>2 DEF Mine
  <2>4. Held' /\ CallerStep
    BY <1>0, <1>1, <1>2, <1>3, <2>3, Abandons
  <2> QED
    BY <2>4 DEF ConnNext
<1>4. CASE open' = open \ closed /\ UNCHANGED born /\ ses'[p] = Idle(ses[p])
  <2>1. ses'[p].client = None /\ ses'[p].server = None
    BY <1>4, <1>5, IdleIs
  <2>2. Mine(p)' = {}
    BY <1>0, <2>1 DEF Mine
  <2>3. Held' /\ CallerStep
    BY <1>0, <1>1, <1>2, <1>4, <2>1, <2>2, Abandons
  <2> QED
    BY <2>3 DEF ConnNext
<1> QED
  BY <1>2, <1>3, <1>4

LEMMA SocketsPeerLost ==
    ASSUME Shapely, ConnInv, Held, NEW p \in Machines, PeerLost(p) PROVE Held' /\ [ConnNext]_connVars
<1>5. /\ Standing(p, ses[p], at[p], hand[p]) /\ ses[p] \in Session /\ Types /\ born[p] \in Nat /\ Goes(p)
      /\ Shape(p, ses[p]) /\ at \in [Machines -> Places]
  BY GoesLocal, Here DEF Machine, Rest, ConnInv, ConnTypeOK
<1>0. /\ Goes(p) /\ at[p] = "input" /\ at'[p] = "keys" /\ hand'[p] = None /\ hand[p] = None
      /\ UNCHANGED hand /\ ses[p].state = "connected" /\ born[p] \in Nat /\ Shape(p, ses[p])
  BY <1>5 DEF PeerLost, Exchanging, Standing
<1>1. PICK fd : fd = <<p, born[p] + 1>>
  OBVIOUS
<1>2. CASE ses[p].role /\ ~ses[p].relayed /\ ses[p].server # None
  <2> DEFINE closed == ({ses[p].client, ses[p].server} \ {ses[p].server}) \cup ClosedByCancel(p)
  <2>1. /\ Abandon(p) /\ open' = open \ closed /\ UNCHANGED born /\ owner' = Append(owner, p)
        /\ ses'[p] = Waiting(p, ses[p].server, TRUE)
    BY <1>2, Here DEF PeerLost, Drop
  <2>2. ses[p].server \in Sockets /\ mode = "tcp"
    BY <1>0, <1>2, Here, PortApart DEF Shape, Session, Maybe
  <2>3. ses'[p].client = None /\ ses'[p].server = ses[p].server
    <3>1. PICK w : w = Waiting(p, ses[p].server, TRUE)
      OBVIOUS
    <3>2. /\ w.client = IF mode = "udp" THEN ses[p].server ELSE None
          /\ w.server = IF mode = "tcp" THEN ses[p].server ELSE None
      BY <1>5, <2>1, <2>2, <3>1, WaitingIs
    <3> QED
      BY <2>1, <2>2, <3>1, <3>2
  <2>4. closed \subseteq Mine(p) \cup {None} \cup ClosedByCancel(p) /\ ClosedByCancel(p) \subseteq closed
    BY DEF Mine
  <2>5. ses[p].server \notin ClosedByCancel(p) /\ ses[p].server \in Mine(p)
    BY <1>2 DEF ClosedByCancel, Held, Holding, Mine
  <2>6. Mine(p)' \subseteq Mine(p) \ closed
    BY <1>0, <2>3, <2>5 DEF Mine
  <2> HIDE DEF closed
  <2>7. Held' /\ CallerStep
    BY <1>0, <1>1, <2>1, <2>3, <2>4, <2>6, Abandons
  <2> QED
    BY <2>7 DEF ConnNext
<1>3. CASE ses[p].role /\ ~ses[p].relayed /\ ses[p].server = None
  <2> DEFINE closed == {ses[p].client} \cup ClosedByCancel(p)
  <2>1. /\ Abandon(p)
        /\ closed \subseteq Mine(p) \cup {None} \cup ClosedByCancel(p) /\ ClosedByCancel(p) \subseteq closed
        /\ \/ /\ open' = (open \ closed) \cup {fd} /\ born[p] < MaxSockets
              /\ born' = [born EXCEPT ![p] = @ + 1] /\ owner' = Append(owner, p)
              /\ ses'[p] = Waiting(p, fd, TRUE)
           \/ open' = open \ closed /\ UNCHANGED born /\ ses'[p] = Idle(ses[p])
    BY <1>1, <1>3, Here DEF PeerLost, Mine
  <2> HIDE DEF closed
  <2>2. CASE /\ open' = (open \ closed) \cup {fd} /\ born[p] < MaxSockets
             /\ born' = [born EXCEPT ![p] = @ + 1] /\ owner' = Append(owner, p)
             /\ ses'[p] = Waiting(p, fd, TRUE)
    <3>1. fd \in Sockets
      BY <1>0, <1>1, <2>2, ConnectAssumption DEF Sockets
    <3>2. /\ ses'[p].client = IF mode = "udp" THEN fd ELSE None
          /\ ses'[p].server = IF mode = "tcp" THEN fd ELSE None
      <4>1. PICK w : w = Waiting(p, fd, TRUE)
        OBVIOUS
      <4>2. /\ w.client = IF mode = "udp" THEN fd ELSE None
            /\ w.server = IF mode = "tcp" THEN fd ELSE None
        BY <1>5, <2>2, <3>1, <4>1, WaitingIs
      <4> QED
        BY <2>2, <4>1, <4>2
    <3>3. /\ Mine(p)' \subseteq (Mine(p) \ closed) \cup {fd}
          /\ ses'[p].client # None => ses'[p].client # ses'[p].server
      BY <1>0, <3>2 DEF Mine
    <3>4. Held' /\ CallerStep
      BY <1>0, <1>1, <2>1, <2>2, <3>3, Abandons
    <3> QED
      BY <3>4 DEF ConnNext
  <2>3. CASE open' = open \ closed /\ UNCHANGED born /\ ses'[p] = Idle(ses[p])
    <3>1. ses'[p].client = None /\ ses'[p].server = None
      BY <1>5, <2>3, IdleIs
    <3>2. Mine(p)' = {}
      BY <1>0, <3>1 DEF Mine
    <3>3. Held' /\ CallerStep
      BY <1>0, <1>1, <2>1, <2>3, <3>1, <3>2, Abandons
    <3> QED
      BY <3>3 DEF ConnNext
  <2> QED
    BY <2>1, <2>2, <2>3
<1>4. CASE ~(ses[p].role /\ ~ses[p].relayed)
  <2>1. Drop(p, {}) /\ ses'[p] = Idle(ses[p]) /\ UNCHANGED born
    BY <1>4, Here DEF PeerLost
  <2> QED
    BY <1>0, <2>1, SocketsDropped
<1> QED
  BY <1>2, <1>3, <1>4

-----------------------------------------------------------------------------
LEMMA SocketsPanel ==
    ASSUME Shapely, ConnInv, Held, NEW p \in Machines, Panel(p) PROVE Held' /\ [ConnNext]_connVars
<1>0. Goes(p) /\ at[p] = "keys"
  BY GoesLocal DEF Machine, Panel, PressHost, PressJoin, PressDisconnect, PressPause, LoadRom
<1>1. CASE PressJoin(p)
  <2>1. born[p] < MaxSockets
    <3>1. mode \in Modes
      BY Here
    <3>2. Bounds[mode].joins[p] \in 0..MaxSockets
      BY <3>1, SessionAssumption
    <3>3. born[p] < Bounds[mode].joins[p] /\ born[p] \in 0..MaxSockets
      BY <1>1 DEF PressJoin, ConnInv, ConnTypeOK
    <3> QED
      BY <3>2, <3>3, ConnectAssumption
  <2>2. Drop(p, {}) /\ UNCHANGED <<born, hand>> /\ ses'[p] = Idle(ses[p])
    BY <1>1, Here DEF PressJoin
  <2> QED
    BY <1>0, <2>1, <2>2, SocketsDropped
<1>2. CASE PressDisconnect(p)
  <2>1. Drop(p, {}) /\ UNCHANGED <<born, hand, at>> /\ ses'[p] = Idle(ses[p])
    BY <1>2, Here DEF PressDisconnect
  <2> QED
    BY <1>0, <2>1, SocketsDropped
<1>3. CASE PressPause(p) \/ LoadRom(p)
  <2>1. UNCHANGED <<connVars, ses, at, hand>>
    BY <1>3 DEF PressPause, LoadRom
  <2> QED
    BY <1>0, <2>1, QuietKept
<1> QED
  BY <1>1, <1>2, <1>3, SocketsPressHost DEF Panel

(* A socket is closed that was the machine's own, or none. *)
LEMMA Closes ==
    ASSUME ConnInv, Held, NEW p \in Machines, Goes(p), UNCHANGED <<conn, threads, wanted, born>>,
           NEW x \in Mine(p) \cup {None}, open' = open \ {x}, Mine(p)' \subseteq Mine(p) \ {x},
           ses'[p].client # None => ses'[p].client # ses'[p].server,
           at'[p] # "starting"
    PROVE  Held' /\ [ConnNext]_connVars
<1>0. ConnTypeOK /\ Holding(p)
  BY DEF ConnInv, Held
<1>1. /\ born' \in [Machines -> 0..MaxSockets] /\ born'[p] >= born[p] /\ open' \subseteq Sockets
      /\ \A y \in open \ open' : y[1] = p
  BY <1>0, Owned, PortApart DEF ConnTypeOK
<1>2. Pending(p)' \cap open \subseteq open'
  <2>1. Pending(p)' = Pending(p)
    BY DEF Pending, SocketOf
  <2>2. x \notin Pending(p)
    BY <1>0, Owned, PortApart
  <2> QED
    BY <2>1, <2>2
<1>3. Holding(p)'
  <2>1. Drawn(p)' = Drawn(p) /\ \A t \in threads : SocketOf(t)' = SocketOf(t)
    BY DEF Drawn, SocketOf
  <2>2. Mine(p)' \subseteq open' \cap Drawn(p)'
    BY <1>0, <2>1 DEF Holding
  <2> QED
    BY <1>0, <2>1, <2>2 DEF Holding
<1>4. CallerStep /\ Held'
  BY <1>1, <1>2, <1>3, Moves DEF Goes
<1> QED
  BY <1>4 DEF ConnNext

LEMMA SocketsAdvance ==
    ASSUME Shapely, ConnInv, Held, NEW p \in Machines,
           \/ Nothing(p) \/ TurnAway(p) \/ Challenge(p) \/ UdpAdmit(p) \/ RelayHeard(p) \/ RelayPing(p)
           \/ HandshakeFails(p) \/ HandshakeHeard(p) \/ RelayLost(p)
    PROVE  Held' /\ [ConnNext]_connVars
<1>0. /\ Goes(p) /\ at \in [Machines -> Places] /\ ses \in [Machines -> Session] /\ hand[p] = None
      /\ ses[p] \in Session /\ at[p] = "keys" /\ Shape(p, ses[p])
  <2>1. Calls(p) /\ Machine(p)
    BY DEF Machine, Advance, Nothing, TurnAway, Challenge, UdpAdmit, RelayHeard, RelayPing, HandshakeFails,
           HandshakeHeard, RelayLost
  <2> QED
    BY <2>1, GoesLocal, CallsIs, Here
<1>1. at'[p] # "starting"
  BY <1>0 DEF Nothing, TurnAway, Challenge, UdpAdmit, RelayHeard, RelayPing, HandshakeFails,
              HandshakeHeard, RelayLost, Returns
<1>2. CASE Nothing(p) \/ TurnAway(p) \/ Challenge(p) \/ RelayHeard(p) \/ RelayPing(p)
  <2>1. UNCHANGED <<connVars, ses, hand>>
    BY <1>2 DEF Nothing, TurnAway, Challenge, RelayHeard, RelayPing
  <2> QED
    BY <1>0, <1>1, <2>1, QuietKept
<1>3. ASSUME NEW m \in mail, ses' = [ses EXCEPT ![p] = Admitted(p, @, m)], UNCHANGED <<connVars, hand>>,
             m \in Question
      PROVE  Held' /\ [ConnNext]_connVars
  <2>1. PICK n : n = [ses[p] EXCEPT !.hello = m.token, !.peer = m.from]
    OBVIOUS
  <2>2. n \in Session /\ n.client = ses[p].client /\ n.server = ses[p].server
    BY <1>0, <1>3, <2>1 DEF Session, Question, Maybe
  <2>3. ses'[p] = Timed(n)
    BY <1>0, <1>3, <2>1 DEF Admitted
  <2>4. ses'[p].client = ses[p].client /\ ses'[p].server = ses[p].server
    BY <2>2, <2>3, TimedIs
  <2> QED
    BY <1>0, <1>1, <1>3, <2>4, QuietKept
<1>4. ASSUME ses[p].state = "handshaking", Dismissed(p), UNCHANGED <<conn, threads, wanted, born, hand>>
      PROVE  Held' /\ [ConnNext]_connVars
  <2>1. /\ ses'[p].client = None /\ ses'[p].server = ses[p].server /\ open' = open \ {ses[p].client}
        /\ hand'[p] = None
    BY <1>0, <1>4 DEF Dismissed, Session
  <2>2. ses[p].client \in Mine(p) \cup {None}
    BY DEF Mine
  <2>3. ses[p].client # None /\ ses[p].client # ses[p].server
    BY <1>0, <1>4 DEF Shape, Held, Holding
  <2>4. Mine(p)' \subseteq Mine(p) \ {ses[p].client}
    BY <2>1, <2>3 DEF Mine
  <2> QED
    BY <1>0, <1>1, <1>4, <2>1, <2>2, <2>4, Closes
<1>5. \A m \in mail : m.to = HostPort => m \in Question
  BY PortApart DEF Shapely, Types, WireTypes, Reply
<1>6. CASE UdpAdmit(p) \/ HandshakeHeard(p) \/ HandshakeFails(p)
  <2>1. /\ UNCHANGED <<conn, threads, wanted, born, hand>>
        /\ \/ ses[p].state = "handshaking" /\ Dismissed(p)
           \/ \E m \in mail : /\ m.to = HostPort /\ ses' = [ses EXCEPT ![p] = Admitted(p, @, m)]
                              /\ UNCHANGED <<connVars, hand>>
    BY <1>6 DEF UdpAdmit, HandshakeHeard, HandshakeFails, Admits, connVars
  <2> QED
    BY <1>3, <1>4, <1>5, <2>1
<1>7. CASE RelayLost(p)
  <2>1. Drop(p, {}) /\ ses'[p] = Idle(ses[p]) /\ UNCHANGED <<born, hand>>
    BY <1>0, <1>7 DEF RelayLost
  <2> QED
    BY <1>0, <1>1, <2>1, SocketsDropped
<1> QED
  BY <1>2, <1>6, <1>7

LEMMA SocketsAccept ==
    ASSUME Shapely, ConnInv, Held, NEW p \in Machines, Accept(p) PROVE Held' /\ [ConnNext]_connVars
<1>0. /\ Goes(p) /\ at \in [Machines -> Places] /\ ses \in [Machines -> Session] /\ hand[p] = None
      /\ ses[p] \in Session /\ at[p] = "keys" /\ Shape(p, ses[p]) /\ at'[p] # "starting"
  <2>1. Calls(p) /\ Machine(p) /\ Returns(p)
    BY DEF Machine, Advance, Accept
  <2> QED
    BY <2>1, GoesLocal, CallsIs, Here DEF Returns
<1>1. /\ UNCHANGED <<conn, threads, wanted, hand>> /\ born' = [born EXCEPT ![p] = @ + 1] /\ born[p] < MaxSockets
      /\ mode = "tcp" /\ ses[p].state = "waiting"
  BY DEF Accept
<1>2. /\ ConnTypeOK /\ Holding(p) /\ born[p] \in 0..MaxSockets
  BY DEF ConnInv, ConnTypeOK, Held
<1>3. born'[p] = born[p] + 1 /\ born' \in [Machines -> 0..MaxSockets] /\ \A q \in Machines \ {p} : born'[q] = born[q]
  BY <1>1, <1>2, ConnectAssumption DEF ConnTypeOK
<1>4. PICK fd : fd = <<p, born[p] + 1>>
  OBVIOUS
<1>5. \/ /\ open' = open \cup {fd}
         /\ ses'[p].client = fd /\ ses'[p].server = ses[p].server
      \/ UNCHANGED <<open, ses>>
  BY <1>0, <1>3, <1>4 DEF Accept, Session
<1>6. /\ fd \in Drawn(p)' /\ fd \notin Drawn(p) /\ Drawn(p) \subseteq Drawn(p)' /\ fd \in Sockets
  BY <1>1, <1>2, <1>3, <1>4, ConnectAssumption DEF Drawn, Sockets
<1>7. ses[p].client = None
  BY <1>0, <1>1 DEF Shape
<1>8. /\ Mine(p)' \subseteq Mine(p) \cup {fd} /\ Mine(p)' \subseteq open' /\ open \subseteq open' /\ open' \subseteq Sockets
      /\ ses'[p].client # None => ses'[p].client # ses'[p].server
  <2>1. Mine(p) \subseteq open \cap Drawn(p) /\ (ses[p].server # None => ses[p].server \in Drawn(p))
    BY <1>2 DEF Holding, Mine
  <2>2. CASE open' = open \cup {fd} /\ ses'[p].client = fd /\ ses'[p].server = ses[p].server
    <3>1. Mine(p)' \subseteq Mine(p) \cup {fd}
      BY <1>1, <2>2 DEF Mine
    <3>2. fd # ses[p].server
      BY <1>6, <2>1, PortApart
    <3> QED
      BY <1>2, <1>6, <2>1, <2>2, <3>1, <3>2 DEF ConnTypeOK
  <2>3. CASE UNCHANGED <<open, ses>>
    <3>1. Mine(p)' = Mine(p)
      BY <1>1, <2>3 DEF Mine
    <3> QED
      BY <1>2, <1>7, <2>1, <2>3, <3>1 DEF ConnTypeOK
  <2> QED
    BY <1>5, <2>2, <2>3
<1>9. Holding(p)'
  <2>1. Mine(p)' \subseteq open' \cap Drawn(p)'
    BY <1>2, <1>6, <1>8 DEF Holding
  <2>2. \A x \in Drawn(p) \ Mine(p) : x \in Drawn(p)' \ Mine(p)'
    BY <1>6, <1>8
  <2>3. \A t \in threads : SocketOf(t)' = SocketOf(t)
    BY DEF SocketOf
  <2> QED
    BY <1>0, <1>1, <1>2, <1>8, <2>1, <2>2, <2>3 DEF Holding
<1>10. born'[p] >= born[p] /\ \A x \in open \ open' : x[1] = p
  BY <1>2, <1>3, <1>8
<1>11. Pending(p)' \cap open \subseteq open'
  BY <1>8
<1>12. CallerStep /\ Held'
  BY <1>0, <1>1, <1>3, <1>8, <1>9, <1>10, <1>11, Moves DEF Goes
<1> QED
  BY <1>12 DEF ConnNext

(* The answers of a poll: what is handed over leaves the statics. *)
LEMMA SocketsPolled ==
    ASSUME Shapely, ConnInv, Held, NEW p \in Machines, TakeSocket(p) \/ ConnectFails(p)
    PROVE  Held' /\ [ConnNext]_connVars
<1>0. /\ Goes(p) /\ at \in [Machines -> Places] /\ ses \in [Machines -> Session] /\ hand[p] = None
      /\ hand \in [Machines -> Maybe] /\ ses[p] \in Session /\ at[p] = "keys" /\ Shape(p, ses[p])
      /\ Answer(p) /\ ses[p].state = "joining" /\ UNCHANGED <<born, open>>
  <2>1. Calls(p) /\ Machine(p)
    BY DEF Machine, Advance, TakeSocket, ConnectFails
  <2> QED
    BY <2>1, GoesLocal, CallsIs, Here DEF TakeSocket, ConnectFails
<1>1. at'[p] # "starting"
  BY <1>0 DEF TakeSocket, ConnectFails, Returns
<1>2. ConnTypeOK /\ Holding(p) /\ OneAtATime /\ conn \in [Machines -> Statics] /\ AnswerSound(p)
  BY DEF ConnInv, ConnTypeOK, Held, Statics
<1>3. /\ ses[p].client = None /\ ses[p].server = None
      /\ ses'[p].client = None /\ ses'[p].server = None
  <2>1. ses[p].client = None /\ ses[p].server = None
    BY <1>0 DEF Shape
  <2>2. ses'[p].client = ses[p].client /\ ses'[p].server = ses[p].server
    BY <1>0 DEF TakeSocket, ConnectFails, Session
  <2> QED
    BY <2>1, <2>2
<1>4. ~conn[p].active /\ UNCHANGED threads /\ \A t \in threads : t.owner # p
  BY <1>0, <1>2 DEF Answer, HandsOver, Refuses, OneAtATime
<1>5. \/ conn'[p].sock = None /\ hand'[p] = conn[p].sock /\ conn[p].sock \in open
      \/ conn'[p].sock = conn[p].sock /\ hand'[p] = None
  <2>1. CASE TakeSocket(p)
    <3>1. HandsOver(p) /\ wanted[p] # 0 /\ conn' = [conn EXCEPT ![p] = HandedOver(conn[p])]
          /\ hand' = [hand EXCEPT ![p] = conn[p].sock]
      BY <1>2, <2>1 DEF TakeSocket, Answer, HandsOver, Refuses
    <3>2. hand'[p] = conn[p].sock /\ conn'[p] = HandedOver(conn[p]) /\ conn[p] \in Statics
      BY <1>0, <1>2, <3>1
    <3>3. HandedOver(conn[p]).sock = None
      BY <3>2 DEF HandedOver, Statics
    <3>4. conn[p].sock \in open
      BY <1>2, <3>1 DEF HandsOver, AnswerSound
    <3> QED
      BY <3>2, <3>3, <3>4
  <2>2. CASE ConnectFails(p)
    <3>1. Refuses(p) /\ conn' = [conn EXCEPT ![p] = Reported(conn[p])] /\ UNCHANGED hand
      BY <1>2, <2>2 DEF ConnectFails, Answer, HandsOver, Refuses
    <3>2. hand'[p] = None /\ conn'[p] = Reported(conn[p]) /\ conn[p] \in Statics
      BY <1>0, <1>2, <3>1
    <3>3. Reported(conn[p]).sock = conn[p].sock
      BY <3>2 DEF Reported, Statics
    <3> QED
      BY <3>2, <3>3
  <2> QED
    BY <2>1, <2>2
<1>6. Holding(p)'
  <2>1. Drawn(p)' = Drawn(p)
    BY <1>0 DEF Drawn
  <2>2. Mine(p)' \subseteq open /\ Mine(p)' \subseteq Drawn(p) /\ (conn'[p].sock # None => conn'[p].sock \notin Mine(p)')
    BY <1>2, <1>3, <1>5 DEF Mine, Holding
  <2>3. \A t \in threads' : t.owner # p
    BY <1>4
  <2> QED
    BY <1>0, <1>1, <1>2, <1>3, <1>5, <2>1, <2>2, <2>3 DEF Holding
<1>7. Pending(p)' \cap open \subseteq open'
  BY <1>0
<1>8. /\ born' \in [Machines -> 0..MaxSockets] /\ born'[p] >= born[p] /\ open' \subseteq Sockets
      /\ \A q \in Machines \ {p} : born'[q] = born[q]
  BY <1>0, <1>2 DEF ConnTypeOK
<1>9. CallerStep /\ Held'
  BY <1>0, <1>6, <1>7, <1>8, Moves DEF Goes
<1> QED
  BY <1>9 DEF ConnNext

LEMMA SocketsStart ==
    ASSUME Shapely, ConnInv, Held, NEW p \in Machines, StartConnect(p) PROVE Held' /\ [ConnNext]_connVars
<1>0. /\ Goes(p) /\ at \in [Machines -> Places] /\ ses \in [Machines -> Session]
      /\ ses[p] \in Session /\ at[p] = "starting" /\ Shape(p, ses[p]) /\ ses[p].state = "idle" /\ hand[p] = None
      /\ at'[p] = "keys" /\ UNCHANGED <<open, hand>>
  <2>1. Machine(p) /\ at[p] = "starting"
    BY DEF Machine, Blocked, StartConnect
  <2> QED
    BY <2>1, GoesLocal, Here DEF Standing, StartConnect
<1>2. ConnTypeOK /\ Holding(p) /\ OneAtATime /\ conn \in [Machines -> Statics] /\ born[p] \in 0..MaxSockets
      /\ born[p] < MaxSockets
  BY <1>0 DEF ConnInv, ConnTypeOK, Held, Statics, Holding
<1>3. ses'[p].client = None /\ ses'[p].server = None
  <2>1. ses[p].client = None /\ ses[p].server = None
    BY <1>0 DEF Shape
  <2>2. ses'[p].client = ses[p].client /\ ses'[p].server = ses[p].server
    <3>1. PICK g : g = rom[p].game
      OBVIOUS
    <3>2. PICK d : d = ~Direct
      OBVIOUS
    <3>3. PICK s : s = [ses[p] EXCEPT !.game = g]
      OBVIOUS
    <3>4. PICK j : j = [s EXCEPT !.state = "joining", !.relayed = d]
      OBVIOUS
    <3>5. ses'[p] = s \/ ses'[p] = j
      BY <1>0, <3>1, <3>2, <3>3, <3>4 DEF StartConnect
    <3>6. s.client = ses[p].client /\ s.server = ses[p].server /\ j.client = ses[p].client /\ j.server = ses[p].server
      BY <1>0, <3>3, <3>4 DEF Session
    <3> QED
      BY <3>5, <3>6
  <2> QED
    BY <2>1, <2>2
<1>4. Mine(p)' = {}
  BY <1>0, <1>3 DEF Mine
<1>5. ASSUME AskInVain(p) \/ (conn[p].active /\ UNCHANGED <<conn, threads, wanted>>), UNCHANGED born
      PROVE  Held' /\ [ConnNext]_connVars
  <2>1. UNCHANGED threads /\ (conn'[p].sock = None \/ conn'[p].sock = conn[p].sock)
    BY <1>2, <1>5 DEF AskInVain, StartedInVain, Started
  <2>2. Drawn(p)' = Drawn(p) /\ \A t \in threads : SocketOf(t)' = SocketOf(t)
    BY <1>5 DEF Drawn, SocketOf
  <2>3. Holding(p)'
    BY <1>0, <1>2, <1>3, <1>4, <2>1, <2>2 DEF Holding
  <2>4. /\ born' \in [Machines -> 0..MaxSockets] /\ born'[p] >= born[p] /\ open' \subseteq Sockets
        /\ \A q \in Machines \ {p} : born'[q] = born[q]
    BY <1>0, <1>2, <1>5 DEF ConnTypeOK
  <2>5. CallerStep /\ Held'
    BY <1>0, <1>5, <2>3, <2>4, Moves DEF Goes
  <2> QED
    BY <2>5 DEF ConnNext
<1>6. ASSUME born' = [born EXCEPT ![p] = @ + 1], Ask(p, born'[p])
      PROVE  Held' /\ [ConnNext]_connVars
  <2>1. /\ born' \in [Machines -> 0..MaxSockets] /\ born'[p] = born[p] + 1 /\ open' \subseteq Sockets
        /\ \A q \in Machines \ {p} : born'[q] = born[q]
    BY <1>0, <1>2, <1>6, ConnectAssumption DEF ConnTypeOK
  <2>2. /\ threads' = threads \cup {Thread(p, born'[p])} /\ conn'[p].sock = None
        /\ \A t \in threads : t.owner # p
    BY <1>2, <1>6 DEF Ask, Started, OneAtATime
  <2>3. <<p, born'[p]>> \in Drawn(p)'
    BY <1>2, <2>1 DEF Drawn
  <2>4. \A t \in threads' : t.owner = p => SocketOf(t)' \in Drawn(p)'
    <3>1. \A t \in threads' : t.owner = p => t = Thread(p, born'[p])
      BY <2>2
    <3>2. SocketOf(Thread(p, born'[p])) = <<p, born'[p]>>
      BY DEF SocketOf, Thread
    <3> QED
      BY <2>3, <3>1, <3>2 DEF SocketOf
  <2>5. Holding(p)'
    BY <1>0, <1>3, <1>4, <2>2, <2>4 DEF Holding
  <2>6. born'[p] > born[p] /\ born'[p] >= born[p]
    BY <1>2, <2>1
  <2>7. CallerStep /\ Held'
    BY <1>0, <1>6, <2>1, <2>5, <2>6, Moves DEF Goes
  <2> QED
    BY <2>7 DEF ConnNext
<1> QED
  BY <1>5, <1>6 DEF StartConnect

LEMMA SocketsBlocked ==
    ASSUME Shapely, ConnInv, Held, NEW p \in Machines, Answered(p) \/ Unanswered(p) \/ TakeRelaySeat(p)
    PROVE  Held' /\ [ConnNext]_connVars
<1>0. /\ Goes(p) /\ at \in [Machines -> Places] /\ ses \in [Machines -> Session] /\ hand \in [Machines -> Maybe]
      /\ ses[p] \in Session /\ at[p] = "hello" /\ Shape(p, ses[p]) /\ ses[p].state = "joining" /\ hand[p] # None
      /\ UNCHANGED <<conn, threads, wanted, born>>
  <2>1. Machine(p) /\ at[p] = "hello"
    BY DEF Machine, Blocked, Answered, Unanswered, TakeRelaySeat
  <2> QED
    BY <2>1, GoesLocal, Here DEF Standing, Answered, Unanswered, TakeRelaySeat
<1>1. ses[p].client = None /\ ses[p].server = None /\ Mine(p) = {hand[p]}
  BY <1>0 DEF Shape, Mine
<1>2. at'[p] # "starting"
  BY <1>0 DEF Answered, Unanswered, TakeRelaySeat, GivesUp, Returns
<1>3. ASSUME GivesUp(p), ses'[p].client = None, ses'[p].server = None
      PROVE  Held' /\ [ConnNext]_connVars
  <2>1. Mine(p)' = {}
    BY <1>0, <1>3 DEF GivesUp, Mine
  <2>2. hand[p] \in Mine(p) \cup {None} /\ open' = open \ {hand[p]}
    BY <1>1, <1>3 DEF GivesUp
  <2> QED
    BY <1>0, <1>2, <1>3, <2>1, <2>2, Closes
<1>4. ASSUME ses'[p].client = hand[p], ses'[p].server = None, hand' = [hand EXCEPT ![p] = None], UNCHANGED open
      PROVE  Held' /\ [ConnNext]_connVars
  <2>1. Mine(p)' \subseteq Mine(p)
    BY <1>0, <1>1, <1>4 DEF Mine
  <2> QED
    BY <1>0, <1>1, <1>2, <1>4, <2>1, Quiet DEF connVars
<1>5. CASE Answered(p)
  <2>3. PICK m \in mail :
          \/ /\ GivesUp(p)
             /\ \/ ses' = [ses EXCEPT ![p] = [ses[p] EXCEPT !.state = "idle", !.token = m.token]]
                \/ ses' = [ses EXCEPT ![p] = [ses[p] EXCEPT !.state = "idle"]]
          \/ /\ ses' = [ses EXCEPT ![p] = Timed([ses[p] EXCEPT !.token = m.token, !.client = hand[p]])]
             /\ hand' = [hand EXCEPT ![p] = None] /\ UNCHANGED open
    BY <1>5 DEF Answered
  <2>4. /\ [ses[p] EXCEPT !.state = "idle", !.token = m.token].client = None
        /\ [ses[p] EXCEPT !.state = "idle", !.token = m.token].server = None
        /\ [ses[p] EXCEPT !.state = "idle"].client = None
        /\ [ses[p] EXCEPT !.state = "idle"].server = None
    BY <1>0, <1>1 DEF Session
  <2>1. \/ GivesUp(p) /\ ses'[p].client = None /\ ses'[p].server = None
        \/ /\ \E n \in mail : ses'[p] = Timed([ses[p] EXCEPT !.token = n.token, !.client = hand[p]])
           /\ hand' = [hand EXCEPT ![p] = None] /\ UNCHANGED open
    <3>1. CASE GivesUp(p) /\ ses' = [ses EXCEPT ![p] = [ses[p] EXCEPT !.state = "idle", !.token = m.token]]
      BY <1>0, <2>4, <3>1
    <3>2. CASE GivesUp(p) /\ ses' = [ses EXCEPT ![p] = [ses[p] EXCEPT !.state = "idle"]]
      BY <1>0, <2>4, <3>2
    <3>3. CASE /\ ses' = [ses EXCEPT ![p] = Timed([ses[p] EXCEPT !.token = m.token, !.client = hand[p]])]
               /\ hand' = [hand EXCEPT ![p] = None] /\ UNCHANGED open
      BY <1>0, <3>3
    <3> QED
      BY <2>3, <3>1, <3>2, <3>3
  <2>2. ASSUME NEW n \in mail, ses'[p] = Timed([ses[p] EXCEPT !.token = n.token, !.client = hand[p]])
        PROVE  ses'[p].client = hand[p] /\ ses'[p].server = None
    <3>1. n.token \in Nat /\ hand[p] \in Maybe
      BY <1>0, Here DEF WireTypes, Question, Reply
    <3>2. PICK s : s = [ses[p] EXCEPT !.token = n.token, !.client = hand[p]]
      OBVIOUS
    <3>3. s \in Session /\ s.client = hand[p] /\ s.server = None
      BY <1>0, <1>1, <3>1, <3>2 DEF Session
    <3> QED
      BY <2>2, <3>2, <3>3, TimedIs
  <2> QED
    BY <1>3, <1>4, <2>1, <2>2
<1>6. CASE Unanswered(p)
  <2>1. \/ GivesUp(p) /\ ses'[p].client = None /\ ses'[p].server = None
        \/ UNCHANGED <<open, hand, at, ses>>
    BY <1>0, <1>1, <1>6 DEF Unanswered, Session
  <2>2. ASSUME UNCHANGED <<open, hand, at, ses>> PROVE Held' /\ [ConnNext]_connVars
    BY <1>0, <1>2, <2>2, QuietKept DEF connVars
  <2> QED
    BY <1>3, <2>1, <2>2
<1>7. CASE TakeRelaySeat(p)
  <2>2. PICK first : first = (room.seats = <<>>)
    OBVIOUS
  <2>3. \/ GivesUp(p) /\ ses' = [ses EXCEPT ![p] = [ses[p] EXCEPT !.state = "idle", !.relayed = FALSE]]
        \/ /\ ses' = [ses EXCEPT ![p] = [ses[p] EXCEPT !.state = "relay waiting", !.client = hand[p],
                                                      !.role = first]]
           /\ hand' = [hand EXCEPT ![p] = None] /\ UNCHANGED open
    BY <1>7, <2>2 DEF TakeRelaySeat
  <2>4. /\ [ses[p] EXCEPT !.state = "idle", !.relayed = FALSE].client = None
        /\ [ses[p] EXCEPT !.state = "idle", !.relayed = FALSE].server = None
        /\ [ses[p] EXCEPT !.state = "relay waiting", !.client = hand[p], !.role = first].client = hand[p]
        /\ [ses[p] EXCEPT !.state = "relay waiting", !.client = hand[p], !.role = first].server = None
    BY <1>0, <1>1 DEF Session
  <2>1. \/ GivesUp(p) /\ ses'[p].client = None /\ ses'[p].server = None
        \/ /\ ses'[p].client = hand[p] /\ ses'[p].server = None
           /\ hand' = [hand EXCEPT ![p] = None] /\ UNCHANGED open
    <3>1. CASE GivesUp(p) /\ ses' = [ses EXCEPT ![p] = [ses[p] EXCEPT !.state = "idle", !.relayed = FALSE]]
      BY <1>0, <2>4, <3>1
    <3>2. CASE /\ ses' = [ses EXCEPT ![p] = [ses[p] EXCEPT !.state = "relay waiting", !.client = hand[p],
                                                          !.role = first]]
               /\ hand' = [hand EXCEPT ![p] = None] /\ UNCHANGED open
      BY <1>0, <2>4, <3>2
    <3> QED
      BY <2>3, <3>1, <3>2
  <2> QED
    BY <1>3, <1>4, <2>1
<1> QED
  BY <1>5, <1>6, <1>7

LEMMA SocketsChecked ==
    ASSUME Shapely, ConnInv, Held, NEW p \in Machines, GameHeard(p) \/ GameUnheard(p)
    PROVE  Held' /\ [ConnNext]_connVars
<1>0. /\ Goes(p) /\ at \in [Machines -> Places] /\ ses \in [Machines -> Session]
      /\ ses[p] \in Session /\ at[p] = "checking" /\ UNCHANGED <<born, hand>>
  <2>1. Machine(p) /\ at[p] = "checking"
    BY DEF Machine, Blocked, GameHeard, GameUnheard
  <2> QED
    BY <2>1, GoesLocal, Here DEF GameHeard, GameUnheard
<1>1. at'[p] # "starting"
  BY <1>0 DEF GameHeard, GameUnheard, Returns
<1>2. \/ Drop(p, {}) /\ ses'[p] = Idle(ses[p])
      \/ UNCHANGED connVars /\ ses'[p] \in {ses[p], Timed(ses[p])}
  BY <1>0 DEF GameHeard, GameUnheard, connVars
<1>3. ASSUME UNCHANGED connVars, ses'[p] \in {ses[p], Timed(ses[p])}
      PROVE  Held' /\ [ConnNext]_connVars
  <2>1. ses'[p].client = ses[p].client /\ ses'[p].server = ses[p].server
    BY <1>0, <1>3, TimedIs
  <2> QED
    BY <1>0, <1>1, <1>3, <2>1, QuietKept
<1> QED
  BY <1>0, <1>1, <1>2, <1>3, SocketsDropped

LEMMA SocketsRest ==
    ASSUME Shapely, ConnInv, Held, NEW p \in Machines, Rest(p) PROVE Held' /\ [ConnNext]_connVars
<1>0. /\ Goes(p) /\ at \in [Machines -> Places] /\ ses \in [Machines -> Session] /\ ses[p] \in Session
  BY GoesLocal, Here DEF Machine
<1>1. CASE Exchange(p) \/ Pass(p)
  <2>1. UNCHANGED <<connVars, hand>> /\ at'[p] = "keys"
    BY <1>0, <1>1 DEF Exchange, Pass
  <2>2. ses'[p].client = ses[p].client /\ ses'[p].server = ses[p].server
    BY <1>0, <1>1 DEF Exchange, Pass, PowerCycle, Session
  <2> QED
    BY <1>0, <2>1, <2>2, QuietKept
<1> QED
  BY <1>1, SocketsPeerLost DEF Rest

LEMMA SocketsThread ==
    ASSUME Shapely, ConnInv, Held, ConnectThread PROVE Held' /\ [ConnNext]_connVars
<1>0. /\ UNCHANGED <<ses, at, hand, born>> /\ ConnTypeOK /\ conn \in [Machines -> Statics] /\ threads \subseteq Threads
  BY DEF ConnectThread, ConnInv, ConnTypeOK, Statics, Threads, Resolve, Reach, Miss, LastTest, StoreSock,
         StoreReady, StoreFailed, Return, Connected
<1>1. ThreadStep
  BY DEF ConnectThread, ThreadStep, Connected
<1>2. PICK t \in threads : /\ \A u \in threads' : \E v \in threads : u.owner = v.owner /\ u.request = v.request
                           /\ \A x \in open \ open' : x = SocketOf(t)
                           /\ \A p \in Machines : conn'[p].sock = conn[p].sock \/ (t.owner = p /\ conn'[p].sock = SocketOf(t))
  <2>1. PICK t \in threads : Resolve(t) \/ Reach(t) \/ Miss(t) \/ LastTest(t) \/ StoreSock(t) \/ StoreReady(t)
                             \/ StoreFailed(t) \/ Return(t)
    BY <1>1 DEF ThreadStep
  <2>2. \A s : [t EXCEPT !.at = s].owner = t.owner /\ [t EXCEPT !.at = s].request = t.request
    BY <1>0 DEF Threads
  <2>3. ASSUME NEW u \in threads' PROVE \E v \in threads : u.owner = v.owner /\ u.request = v.request
    <3>1. u \in threads \/ \E s : u = [t EXCEPT !.at = s]
      BY <2>1 DEF Resolve, Reach, Miss, LastTest, StoreSock, StoreReady, StoreFailed, Return, Moved
    <3> QED
      BY <2>2, <3>1
  <2>4. \A x \in open \ open' : x = SocketOf(t)
    BY <2>1 DEF Resolve, Reach, Miss, LastTest, StoreSock, StoreReady, StoreFailed, Return
  <2>5. \A p \in Machines : conn'[p].sock = conn[p].sock \/ (t.owner = p /\ conn'[p].sock = SocketOf(t))
    BY <1>0, <2>1 DEF Resolve, Reach, Miss, LastTest, StoreSock, StoreReady, StoreFailed, Return, Statics
  <2> QED
    BY <2>3, <2>4, <2>5
<1>3. ASSUME NEW p \in Machines PROVE Holding(p)'
  <2>1. Holding(p) /\ Mine(p)' = Mine(p) /\ Drawn(p)' = Drawn(p)
    BY <1>0 DEF Held, Mine, Drawn
  <2>2. Mine(p) \subseteq open'
    <3>1. SocketOf(t) \notin Mine(p)
      <4>1. t.owner \in Machines /\ Holding(t.owner)
        BY <1>0 DEF Threads, Held
      <4>2. CASE t.owner = p
        BY <2>1, <4>2 DEF Holding
      <4>3. CASE t.owner # p
        BY <1>0, <4>3, Owned DEF SocketOf
      <4> QED
        BY <4>2, <4>3
    <3> QED
      BY <1>2, <2>1, <3>1 DEF Holding
  <2>5. /\ conn[p].sock # None => conn[p].sock \in Drawn(p) \ Mine(p)
        /\ t.owner = p => SocketOf(t) \in Drawn(p) \ Mine(p)
    BY <2>1 DEF Holding
  <2>3. conn'[p].sock # None => conn'[p].sock \in Drawn(p) \ Mine(p)
    <3>1. conn'[p].sock = conn[p].sock \/ (t.owner = p /\ conn'[p].sock = SocketOf(t))
      BY <1>2
    <3>2. CASE conn'[p].sock = conn[p].sock
      BY <2>5, <3>2
    <3>3. CASE t.owner = p /\ conn'[p].sock = SocketOf(t)
      BY <2>5, <3>3
    <3> QED
      BY <3>1, <3>2, <3>3
  <2>4. \A u \in threads' : u.owner = p => SocketOf(u)' \in Drawn(p) \ Mine(p)
    BY <1>2, <2>1 DEF Holding, SocketOf
  <2> QED
    BY <1>0, <2>1, <2>2, <2>3, <2>4 DEF Holding
<1> QED
  BY <1>1, <1>3 DEF Held, ConnNext

LEMMA SocketsStep == ASSUME Shapely, ConnInv, Held, Next PROVE Held' /\ [ConnNext]_connVars
<1>1. ASSUME NEW p \in Machines, Machine(p) PROVE Held' /\ [ConnNext]_connVars
  BY <1>1, SocketsPanel, SocketsAdvance, SocketsAccept, SocketsPolled, SocketsStart, SocketsBlocked,
     SocketsChecked, SocketsRest DEF Machine, Advance, Blocked
<1>2. CASE Announce
  <2>1. UNCHANGED <<connVars, ses, at, hand>>
    BY <1>2 DEF Announce
  <2>2. PICK p \in Machines : TRUE
    BY SessionAssumption
  <2>3. \A q \in Machines : Holding(q)'
    BY <2>1 DEF Held, Holding, Mine, Drawn, SocketOf, connVars
  <2> QED
    BY <2>1, <2>3 DEF Held
<1> QED
  BY <1>1, <1>2, SocketsThread DEF Next

LEMMA InitFits == Init => Shapely /\ ConnInv /\ Held
<1> SUFFICES ASSUME Init PROVE Shapely /\ ConnInv /\ Held
  OBVIOUS
<1>1. ConnInv
  BY ConnInvInit DEF Init
<1>2. PICK s : s = Fresh
  OBVIOUS
<1>3. /\ s \in Session /\ s.state = "idle" /\ ~s.role /\ s.token = 0 /\ s.client = None /\ s.peer = None
      /\ s.server = None /\ ~s.relayed /\ ~s.start /\ s.frames = 0
  BY <1>2, FreshIs
<1>4. /\ ses = [p \in Machines |-> s] /\ at = [p \in Machines |-> "keys"] /\ hand = [p \in Machines |-> None]
  BY <1>2 DEF Init
<1>5. Types
  <2>1. rom \in [Machines -> [game : Games, loads : Nat]]
    <3>1. PICK roms \in Bounds[mode].roms : rom = [p \in Machines |-> [game |-> roms[p], loads |-> 0]]
      BY DEF Init
    <3>2. roms \in [Machines -> Games]
      BY SessionAssumption DEF Init
    <3> QED
      BY <3>1, <3>2
  <2>2. emu \in [Machines -> Emulator] /\ mail = {} /\ backlog = {} /\ mode \in Modes
    BY DEF Init, Emulator
  <2>3. /\ room \in [seats : Seq(Sockets), ready : BOOLEAN]
        /\ queue \in [Sockets -> Seq(Frames)]
        /\ owner \in Seq(Machines)
    BY DEF Init
  <2>4. ses \in [Machines -> Session] /\ at \in [Machines -> Places] /\ hand \in [Machines -> Maybe]
    BY <1>3, <1>4 DEF Places, Maybe
  <2> QED
    BY <2>1, <2>2, <2>3, <2>4 DEF Types, WireTypes
<1>6. ASSUME NEW p \in Machines PROVE Shape(p, ses[p]) /\ Standing(p, ses[p], at[p], hand[p])
  <2>1. ses[p] = s /\ at[p] = "keys" /\ hand[p] = None
    BY <1>4
  <2>2. Shape(p, s)
    BY <1>3, IdleShape
  <2>3. Standing(p, s, "keys", None)
    BY <1>3 DEF Standing
  <2> QED
    BY <2>1, <2>2, <2>3
<1>7. ASSUME NEW p \in Machines PROVE Holding(p)
  <2>1. ses[p] = s /\ at[p] = "keys" /\ hand[p] = None
    BY <1>4
  <2>2. Mine(p) = {}
    BY <1>3, <2>1 DEF Mine
  <2>3. conn[p].sock = None /\ threads = {}
    BY DEF Init, ConnInit
  <2> QED
    BY <1>3, <2>1, <2>2, <2>3 DEF Holding
<1> QED
  BY <1>1, <1>5, <1>6, <1>7 DEF Shapely, Held

LEMMA StaysStill ==
    ASSUME Shapely, ConnInv, Held, UNCHANGED vars
    PROVE  Shapely' /\ Held' /\ [ConnNext]_connVars
<1>1. UNCHANGED <<mode, ses, emu, at, hand, rom, mail, backlog, room, queue, owner>> /\ UNCHANGED connVars
  BY DEF vars, netVars
<1>2. WireTypes'
  BY <1>1, Here DEF Shapely, Types, WireTypes
<1>3. Shapely'
  BY <1>1, <1>2, PutNone
<1>4. \A q \in Machines : Holding(q)'
  BY <1>1 DEF Held, Holding, Mine, Drawn, SocketOf, connVars
<1> QED
  BY <1>1, <1>3, <1>4 DEF Held

(* The session keeps to the rules of the connect thread. *)
Sane == Shapely /\ ConnInv /\ Held

LEMMA SaneInit == Init => Sane
BY InitFits DEF Sane

LEMMA SaneNext == Sane /\ [Next]_vars => Sane' /\ [ConnNext]_connVars
<1> SUFFICES ASSUME Sane, [Next]_vars PROVE Sane' /\ [ConnNext]_connVars
  OBVIOUS
<1>1. Shapely' /\ Held' /\ [ConnNext]_connVars
  BY ShapelyStep, SocketsStep, StaysStill DEF Sane
<1> QED
  BY <1>1, ConnInvNext DEF Sane

(* Of any session: whatever the players, the network and the relay do, the  *)
(* session calls net_connect_start, _poll and _cancel only as CallerStep    *)
(* allows.  It starts no thread while one is at work, and closes no socket  *)
(* that is still to be taken (net/netplay.c:401, 429, 561 and 709).         *)
THEOREM CallsAreAllowed == Spec => ConnectUsedRight
<1>1. Init => ConnInit
  BY DEF Init
<1> QED
  BY <1>1, SaneInit, SaneNext, PTL DEF Spec, ConnectUsedRight

(* So what is proved of any caller holds of this one: the socket a session  *)
(* takes is open and of its own request, and no answer is lost.             *)
THEOREM HandoverHolds == Spec => []HandoverSound
BY CallsAreAllowed, AnswersAreOwn, PTL DEF ConnectUsedRight, ConnSpec

(* Every socket a session uses is open, belongs to nobody else, and a host  *)
(* that waits can be reached, also after NetplayPeerLost.                   *)
THEOREM SocketsAreSound == Spec => []SocketsSound
<1>1. Sane => SocketsSound
  <2> SUFFICES ASSUME Sane, NEW p \in Machines
               PROVE  LET mine == {ses[p].client, ses[p].server, hand[p]} \ {None}
                      IN  /\ mine \subseteq open
                          /\ mine \cap Pending(p) = {}
                          /\ ses[p].state = "waiting" =>
                                \/ mode = "tcp" /\ ses[p].server # None /\ ses[p].client = None
                                \/ mode = "udp" /\ ses[p].client # None /\ ses[p].peer = None
    BY Zenon DEF SocketsSound
  <2>1. Mine(p) \subseteq open /\ Mine(p) \cap Pending(p) = {}
    BY Owned DEF Sane, ConnInv
  <2>2. Shape(p, ses[p]) /\ mode \in {"udp", "tcp", "relay"}
    BY Here DEF Sane
  <2> QED
    BY <2>1, <2>2 DEF Shape, Direct, Mine
<1> QED
  BY <1>1, SaneInit, SaneNext, PTL DEF Spec

-----------------------------------------------------------------------------
(* The pause. *)
LEMMA HoldKeepsWish ==
    ASSUME Types, NEW p \in Machines, IF emu[p].held THEN ~emu[p].wish ELSE emu[p].paused = emu[p].wish,
           emu' = [emu EXCEPT ![p] = HoldEmulation(p)]
    PROVE  /\ IF emu'[p].held THEN ~emu'[p].wish ELSE emu'[p].paused = emu'[p].wish
           /\ emu'[p].ran = emu[p].ran
           /\ ~SessionPending(p) => (~emu[p].paused => ~emu'[p].paused)
<1>1. PICK e \in Emulator : e = emu[p] /\ emu'[p] = HoldEmulation(p)
  BY DEF Types, WireTypes
<1>2. PICK hold \in BOOLEAN : hold = (SessionPending(p) /\ ~ses[p].keep)
  OBVIOUS
<1>3. emu'[p] = IF hold /\ ~e.paused THEN [e EXCEPT !.paused = TRUE, !.held = TRUE]
                ELSE IF ~hold /\ e.held THEN [e EXCEPT !.paused = FALSE, !.held = FALSE]
                ELSE e
  BY <1>1, <1>2 DEF HoldEmulation
<1>4. CASE hold /\ ~e.paused
  <2>1. PICK n : n = [e EXCEPT !.paused = TRUE, !.held = TRUE]
    OBVIOUS
  <2>2. n.paused /\ n.held /\ (n.wish <=> e.wish) /\ n.ran = e.ran /\ emu'[p] = n
    BY <1>3, <1>4, <2>1 DEF Emulator
  <2>3. ~e.wish
    BY <1>1, <1>4 DEF Emulator
  <2> QED
    BY <1>1, <1>2, <1>4, <2>2, <2>3
<1>5. CASE ~hold /\ e.held
  <2>1. PICK n : n = [e EXCEPT !.paused = FALSE, !.held = FALSE]
    OBVIOUS
  <2>2. ~n.paused /\ ~n.held /\ (n.wish <=> e.wish) /\ n.ran = e.ran /\ n \in Emulator
    BY <2>1 DEF Emulator
  <2>3. ~e.wish
    BY <1>1, <1>5
  <2>4. n.paused = n.wish
    BY <2>2, <2>3 DEF Emulator
  <2>5. emu'[p] = n
    BY <1>3, <1>5, <2>1
  <2> QED
    BY <1>1, <2>2, <2>4, <2>5
<1>6. CASE (hold => e.paused) /\ (hold \/ ~e.held)
  <2>1. emu'[p] = e
    BY <1>3, <1>6
  <2> QED
    BY <1>1, <2>1
<1> QED
  BY <1>4, <1>5, <1>6

(* What a machine's step does to its emulator. *)
LEMMA EmulatorSteps ==
    ASSUME Shapely, NEW p \in Machines, Machine(p)
    PROVE  \/ UNCHANGED emu
           \/ emu' = [emu EXCEPT ![p] = HoldEmulation(p)]
           \/ PressPause(p)
           \/ LoadRom(p)
           \/ Exchange(p)
           \/ Pass(p)
BY DEF Machine, Panel, Advance, Blocked, Rest, PressHost, PressJoin, PressDisconnect, Nothing, TurnAway, Accept,
       HandshakeFails, HandshakeHeard, Challenge, UdpAdmit, TakeSocket, ConnectFails, RelayHeard, RelayPing,
       RelayLost, StartConnect, Answered, Unanswered, TakeRelaySeat, GameHeard, GameUnheard, PeerLost, Calls

PauseKept(p) == IF emu[p].held THEN ~emu[p].wish ELSE emu[p].paused = emu[p].wish

LEMMA PauseSteps == ASSUME Shapely, PlayersPauseKept, [Next]_vars PROVE PlayersPauseKept'
<1>1. ASSUME UNCHANGED emu PROVE PlayersPauseKept'
  BY <1>1 DEF PlayersPauseKept
<1>2. ASSUME NEW p \in Machines, Machine(p) PROVE PlayersPauseKept'
  <2>0. emu \in [Machines -> Emulator] /\ Types
    BY DEF Shapely, Types, WireTypes
  <2>1. \A q \in Machines \ {p} : emu'[q] = emu[q]
    BY <1>2, Local
  <2>2. ASSUME PauseKept(p)' PROVE PlayersPauseKept'
    BY <2>1, <2>2 DEF PauseKept, PlayersPauseKept
  <2>3. PauseKept(p)
    BY DEF PauseKept, PlayersPauseKept
  <2>4. CASE emu' = [emu EXCEPT ![p] = HoldEmulation(p)]
    <3>1. PauseKept(p)'
      BY <2>0, <2>3, <2>4, HoldKeepsWish DEF PauseKept
    <3> QED
      BY <2>2, <3>1
  <2>5. PICK e \in Emulator : e = emu[p]
    BY <2>0
  <2>6. CASE PressPause(p)
    <3>1. emu'[p] = [e EXCEPT !.paused = ~e.paused, !.wish = IF e.held THEN e.wish ELSE ~e.wish]
      BY <2>0, <2>5, <2>6 DEF PressPause
    <3>2. PauseKept(p)'
      BY <2>3, <2>5, <3>1 DEF PauseKept, Emulator
    <3> QED
      BY <2>2, <3>2
  <2>7. CASE LoadRom(p)
    <3>1. emu'[p] = [e EXCEPT !.paused = FALSE, !.wish = FALSE, !.ran = 0]
      BY <2>0, <2>5, <2>7 DEF LoadRom
    <3>2. PauseKept(p)'
      BY <2>3, <2>5, <3>1 DEF PauseKept, Emulator
    <3> QED
      BY <2>2, <3>2
  <2>8. CASE Exchange(p) \/ Pass(p)
    <3>1. emu'[p] = e \/ \E n : emu'[p] = [e EXCEPT !.ran = n]
      BY <2>0, <2>5, <2>8 DEF Exchange, Pass, PowerCycle
    <3>2. PauseKept(p)'
      BY <2>3, <2>5, <3>1 DEF PauseKept, Emulator
    <3> QED
      BY <2>2, <3>2
  <2> QED
    BY <1>1, <1>2, <2>4, <2>6, <2>7, <2>8, EmulatorSteps
<1> QED
  BY <1>1, <1>2 DEF Next, Announce, ConnectThread, vars

(* NetplayHoldEmulation never takes a pause of the player's for its own,    *)
(* nor its own for the player's (net/netplay.c:580).                        *)
THEOREM PausesArePlayers == Spec => []PlayersPauseKept
<1>1. Init => PlayersPauseKept
  <2> SUFFICES ASSUME Init, NEW p \in Machines
               PROVE  IF emu[p].held THEN ~emu[p].wish ELSE emu[p].paused = emu[p].wish
    BY DEF PlayersPauseKept
  <2>1. ~emu[p].held /\ emu[p].paused = emu[p].wish
    BY DEF Init
  <2> QED
    BY <2>1
<1>2. Sane /\ PlayersPauseKept /\ [Next]_vars => PlayersPauseKept'
  BY PauseSteps DEF Sane
<1> QED
  BY <1>1, <1>2, SaneInit, SaneNext, PTL DEF Spec

(* A machine's turn: what a step does to its session.  A host offers a token *)
(* while it waits for a guest.                                               *)
Offering(s) == s.role /\ s.state \in {"waiting", "handshaking"}

Still(p) == ses'[p] = ses[p] /\ UNCHANGED owner

Outside(p) ==
    /\ ses[p].state # "connected" /\ ses'[p].state # "connected" /\ UNCHANGED owner
    /\ \/ ses'[p].token \in {0, ses[p].token}
       \/ Direct /\ p # Host /\ \E m \in mail : ses'[p].token = m.token
    /\ Offering(ses'[p]) => Offering(ses[p]) /\ ses'[p].token = ses[p].token

Leaves(p) ==
    /\ ses[p].state = "connected" /\ ses'[p].state = "idle" /\ UNCHANGED owner
    /\ ses'[p].token = 0 /\ ~ses'[p].role

Draws(p) ==
    /\ Direct /\ p = Host /\ owner' = Append(owner, p) /\ ses'[p].state = "waiting"
    /\ ses'[p].role /\ ses'[p].token = Len(owner')

Connects(p) ==
    /\ ses[p].state # "connected" /\ ses'[p].state = "connected" /\ ses'[p].start
    /\ ses'[p].frames = 0 /\ ses'[p].game = ses[p].game /\ ses'[p].role = ses[p].role /\ UNCHANGED owner

GuestEnters(p) ==
    /\ Connects(p) /\ Direct /\ p # Host /\ at[p] = "hello" /\ hand'[p] = None /\ ses[p].state = "joining"
    /\ \E m \in mail : /\ m.to = hand[p] /\ m.token # 0 /\ m.game = ses[p].game
                       /\ mail' = mail \cup {Hello(hand[p], HostPort, m.token, ses[p].game)}
                       /\ said' = Names(p, m.token, ses[p].game)
                       /\ ses'[p].token = m.token
    /\ ses'[p].client = hand[p]

HostEnters(p) ==
    /\ Connects(p) /\ Direct /\ Offering(ses[p]) /\ UNCHANGED <<mail, said>>
    /\ \E m \in mail : Admits(p, m) /\ ses'[p].peer = m.from
    /\ ses'[p].token = ses[p].token /\ ses'[p].client = ses[p].client

RelayEnters(p) ==
    /\ Connects(p) /\ ~Direct /\ at[p] = "checking" /\ UNCHANGED <<mail, said>>
    /\ queue[ses[p].client] # <<>> /\ Head(queue[ses[p].client]) = ses[p].game
    /\ ses'[p].token = ses[p].token /\ ses'[p].client = ses[p].client

Plays(p) ==
    /\ Exchange(p) /\ UNCHANGED owner
    /\ \E h : ses'[p] = [ses[p] EXCEPT !.frames = @ + 1, !.hello = h]

Begins(p) ==
    /\ Pass(p) /\ ses[p].start /\ ses[p].state = "connected" /\ ~emu[p].paused /\ UNCHANGED <<owner, said>>
    /\ ses'[p] = [ses[p] EXCEPT !.start = FALSE] /\ emu'[p].ran = 0 /\ emu'[p].paused = emu[p].paused

Quits(p) == Outside(p) \/ Leaves(p)

LEMMA Quitting ==
    ASSUME Shapely, NEW p \in Machines, ses' = [ses EXCEPT ![p] = Idle(@)], UNCHANGED owner PROVE Quits(p)
<1>1. PICK n : n = Idle(ses[p])
  OBVIOUS
<1>2. n.state = "idle" /\ n.token = 0 /\ ~n.role
  BY <1>1, IdleIs, Here
<1>3. ses'[p] = n
  BY <1>1, Here
<1> QED
  BY <1>2, <1>3 DEF Quits, Outside, Leaves, Offering

LEMMA Drawing ==
    ASSUME Shapely, NEW p \in Machines, p = Host, Direct, NEW fd \in Sockets, NEW keep \in BOOLEAN,
           ses' = [ses EXCEPT ![p] = Waiting(p, fd, keep)], owner' = Append(owner, p)
    PROVE  Draws(p)
<1>1. PICK n : n = Waiting(p, fd, keep)
  OBVIOUS
<1>2. n.state = "waiting" /\ n.role /\ n.token = Len(owner')
  BY <1>1, WaitingIs, Here
<1>3. ses'[p] = n
  BY <1>1, Here
<1> QED
  BY <1>2, <1>3 DEF Draws

LEMMA TurnPanel ==
    ASSUME Shapely, ConnTypeOK, NEW p \in Machines, Panel(p) PROVE Still(p) \/ Quits(p) \/ Draws(p)
<1>1. CASE PressHost(p)
  <2>1. CASE ses' = [ses EXCEPT ![p] = Idle(@)] /\ UNCHANGED owner
    BY <2>1, Quitting
  <2>2. CASE /\ born[p] < MaxSockets /\ owner' = Append(owner, p)
             /\ ses' = [ses EXCEPT ![p] = Waiting(p, <<p, born[p] + 1>>, FALSE)]
    <3>1. born[p] \in Nat
      BY DEF ConnTypeOK
    <3>2. <<p, born[p] + 1>> \in Sockets
      BY <2>2, <3>1, ConnectAssumption DEF Sockets
    <3> QED
      BY <1>1, <2>2, <3>2, Drawing DEF PressHost
  <2> QED
    BY <1>1, <2>1, <2>2 DEF PressHost
<1>2. CASE PressJoin(p) \/ PressDisconnect(p)
  BY <1>2, Quitting DEF PressJoin, PressDisconnect
<1>3. CASE PressPause(p) \/ LoadRom(p)
  BY <1>3 DEF PressPause, LoadRom, Still
<1> QED
  BY <1>1, <1>2, <1>3 DEF Panel

LEMMA TurnEntering ==
    ASSUME Shapely, NEW p \in Machines, NEW s \in Session, ses' = [ses EXCEPT ![p] = Timed(s)], UNCHANGED owner,
           ses[p].state # "connected", s.game = ses[p].game, s.role = ses[p].role
    PROVE  Connects(p) /\ ses'[p].token = s.token /\ ses'[p].client = s.client /\ ses'[p].peer = s.peer
<1>1. PICK n : n = Timed(s)
  OBVIOUS
<1>2. ses'[p] = n
  BY <1>1, Here
<1> QED
  BY <1>1, <1>2, TimedIs DEF Connects

LEMMA TurnHandshake ==
    ASSUME Shapely, NEW p \in Machines,
           HandshakeFails(p) \/ HandshakeHeard(p) \/ UdpAdmit(p) \/ Accept(p)
    PROVE  Still(p) \/ Outside(p) \/ HostEnters(p)
<1>1. ses[p] \in Session /\ Shape(p, ses[p]) /\ ses \in [Machines -> Session] /\ WireTypes
  BY Here
<1>2. ASSUME Dismissed(p), ses[p].state = "handshaking", UNCHANGED owner PROVE Outside(p)
  <2>1. PICK n : n = [ses[p] EXCEPT !.client = None, !.peer = None, !.state = "waiting"]
    OBVIOUS
  <2>2. n.state = "waiting" /\ n.role = ses[p].role /\ n.token = ses[p].token
    BY <1>1, <2>1 DEF Session
  <2>3. ses'[p] = n /\ ses[p].role
    BY <1>1, <1>2, <2>1 DEF Dismissed, Shape
  <2> QED
    BY <1>2, <2>2, <2>3 DEF Outside, Offering
<1>3. ASSUME NEW m \in mail, Admits(p, m), UNCHANGED <<owner, mail, said>>,
             ses[p].state \in {"waiting", "handshaking"}, ses' = [ses EXCEPT ![p] = Admitted(p, @, m)]
      PROVE  HostEnters(p)
  <2>1. m \in Question
    BY <1>1, <1>3, PortApart DEF Admits, WireTypes, Reply
  <2>2. PICK s : s = [ses[p] EXCEPT !.hello = m.token, !.peer = m.from]
    OBVIOUS
  <2>3. /\ s.game = ses[p].game /\ s.role = ses[p].role /\ s.token = ses[p].token
        /\ s.client = ses[p].client /\ s.peer = m.from
    BY <1>1, <2>2 DEF Session
  <2>4. s \in Session
    BY <1>1, <2>1, <2>2 DEF Session, Question, Maybe
  <2>5. ses' = [ses EXCEPT ![p] = Timed(s)]
    BY <1>3, <2>2 DEF Admitted
  <2>6. Connects(p) /\ ses'[p].token = s.token /\ ses'[p].client = s.client /\ ses'[p].peer = s.peer
    BY <1>3, <2>3, <2>4, <2>5, TurnEntering
  <2>7. Offering(ses[p]) /\ Direct
    BY <1>1, <1>3 DEF Shape, Offering
  <2> QED
    BY <1>3, <2>3, <2>6, <2>7 DEF HostEnters
<1>4. CASE HandshakeFails(p)
  BY <1>2, <1>4 DEF HandshakeFails
<1>5. CASE HandshakeHeard(p)
  BY <1>2, <1>3, <1>5 DEF HandshakeHeard, netVars
<1>6. CASE UdpAdmit(p)
  BY <1>3, <1>6 DEF UdpAdmit, UdpServes, netVars
<1>7. CASE Accept(p)
  <2>1. CASE UNCHANGED ses
    BY <1>7, <2>1 DEF Accept, Still
  <2>2. CASE \E fd, x : ses' = [ses EXCEPT ![p].client = fd, ![p].peer = x, ![p].state = "handshaking"]
    <3>1. PICK fd, x : ses' = [ses EXCEPT ![p].client = fd, ![p].peer = x, ![p].state = "handshaking"]
      BY <2>2
    <3>2. PICK n : n = [ses[p] EXCEPT !.client = fd, !.peer = x, !.state = "handshaking"]
      OBVIOUS
    <3>3. n.state = "handshaking" /\ n.role = ses[p].role /\ n.token = ses[p].token
      BY <1>1, <3>2 DEF Session
    <3>4. ses'[p] = n /\ ses[p].state = "waiting" /\ ses[p].role
      BY <1>1, <1>7, <3>1, <3>2 DEF Accept, Shape
    <3> QED
      BY <1>7, <3>3, <3>4 DEF Outside, Offering, Accept
  <2> QED
    BY <1>7, <2>1, <2>2 DEF Accept
<1> QED
  BY <1>4, <1>5, <1>6, <1>7

LEMMA TurnCalls ==
    ASSUME Shapely, NEW p \in Machines, Advance(p)
    PROVE  Still(p) \/ Quits(p) \/ HostEnters(p)
<1>1. ses[p] \in Session /\ Shape(p, ses[p]) /\ ses \in [Machines -> Session]
  BY Here
<1>2. CASE Nothing(p) \/ TurnAway(p) \/ Challenge(p) \/ TakeSocket(p) \/ RelayHeard(p) \/ RelayPing(p)
  BY <1>2 DEF Nothing, TurnAway, Challenge, TakeSocket, RelayHeard, RelayPing, Still
<1>3. CASE RelayLost(p)
  BY <1>3, Quitting DEF RelayLost
<1>4. CASE ConnectFails(p)
  <2>1. PICK n : n = [ses[p] EXCEPT !.state = "idle", !.relayed = FALSE]
    OBVIOUS
  <2>2. n.state = "idle" /\ n.token = ses[p].token
    BY <1>1, <2>1 DEF Session
  <2>3. ses'[p] = n /\ ses[p].state = "joining" /\ UNCHANGED owner
    BY <1>1, <1>4, <2>1 DEF ConnectFails
  <2> QED
    BY <2>2, <2>3 DEF Quits, Outside, Offering
<1> QED
  BY <1>2, <1>3, <1>4, TurnHandshake DEF Advance, Quits

LEMMA TurnBlocked ==
    ASSUME Shapely, NEW p \in Machines, Blocked(p)
    PROVE  Still(p) \/ Quits(p) \/ GuestEnters(p) \/ RelayEnters(p)
<1>1. /\ ses[p] \in Session /\ Shape(p, ses[p]) /\ ses \in [Machines -> Session] /\ WireTypes
      /\ hand \in [Machines -> Maybe] /\ Standing(p, ses[p], at[p], hand[p])
  BY Here
<1>2. ASSUME NEW n \in Session, ses'[p] = n, n.state \in {"idle", "joining", "relay waiting"},
             n.token = ses[p].token \/ (Direct /\ p # Host /\ \E m \in mail : n.token = m.token),
             ses[p].state # "connected", UNCHANGED owner
      PROVE  Outside(p)
  BY <1>2 DEF Outside, Offering
<1>3. CASE StartConnect(p)
  <2>1. PICK g \in Games : g = rom[p].game
    BY <1>1 DEF WireTypes
  <2> DEFINE s == [ses[p] EXCEPT !.game = g]
             j == [s EXCEPT !.state = "joining", !.relayed = ~Direct]
  <2>2. at[p] = "starting" /\ UNCHANGED owner /\ (ses' = [ses EXCEPT ![p] = s] \/ ses' = [ses EXCEPT ![p] = j])
    BY <1>3, <2>1 DEF StartConnect
  <2>3. s \in Session /\ s.state = "idle" /\ j \in Session /\ j.state = "joining"
    BY <2>2, JoiningIs
  <2>4. s.token = ses[p].token /\ j.token = ses[p].token
    BY <1>1 DEF Session
  <2>5. ses'[p] \in {s, j} /\ ses[p].state = "idle"
    BY <1>1, <2>2 DEF Standing
  <2> HIDE DEF s, j
  <2>6. Outside(p)
    BY <1>2, <2>2, <2>3, <2>4, <2>5
  <2> QED
    BY <2>6 DEF Quits
<1>4. CASE Answered(p)
  <2>1. /\ at[p] = "hello" /\ Direct /\ UNCHANGED owner /\ ses[p].state = "joining" /\ p # Host
        /\ hand'[p] = None /\ hand[p] \in Sockets /\ hand[p] # None
    BY <1>1, <1>4, PortApart DEF Answered, GivesUp, Standing, Maybe
  <2>2. PICK m \in mail :
          /\ m.to = hand[p]
          /\ \/ /\ m.token # 0 /\ m.game = ses[p].game
                /\ mail' = mail \cup {Hello(hand[p], HostPort, m.token, ses[p].game)}
                /\ said' = Names(p, m.token, ses[p].game)
                /\ ses' = [ses EXCEPT ![p] = Timed([@ EXCEPT !.token = m.token, !.client = hand[p]])]
             \/ ses' = [ses EXCEPT ![p].state = "idle", ![p].token = m.token]
             \/ ses' = [ses EXCEPT ![p].state = "idle"]
    BY <1>4 DEF Answered
  <2>3. m.token \in Nat
    BY <1>1 DEF WireTypes, Question, Reply
  <2>4. CASE ses' = [ses EXCEPT ![p].state = "idle", ![p].token = m.token]
    <3>1. PICK n : n = [ses[p] EXCEPT !.state = "idle", !.token = m.token]
      OBVIOUS
    <3>2. n \in Session /\ n.state = "idle" /\ n.token = m.token /\ ses'[p] = n
      BY <1>1, <2>3, <2>4, <3>1 DEF Session, States
    <3> QED
      BY <1>2, <2>1, <3>2 DEF Quits
  <2>5. CASE ses' = [ses EXCEPT ![p].state = "idle"]
    <3>1. PICK n : n = [ses[p] EXCEPT !.state = "idle"]
      OBVIOUS
    <3>2. n \in Session /\ n.state = "idle" /\ n.token = ses[p].token /\ ses'[p] = n
      BY <1>1, <2>5, <3>1 DEF Session, States
    <3> QED
      BY <1>2, <2>1, <3>2 DEF Quits
  <2>6. CASE /\ m.token # 0 /\ m.game = ses[p].game
             /\ mail' = mail \cup {Hello(hand[p], HostPort, m.token, ses[p].game)}
             /\ said' = Names(p, m.token, ses[p].game)
             /\ ses' = [ses EXCEPT ![p] = Timed([@ EXCEPT !.token = m.token, !.client = hand[p]])]
    <3>1. PICK s : s = [ses[p] EXCEPT !.token = m.token, !.client = hand[p]]
      OBVIOUS
    <3>2. s \in Session /\ s.game = ses[p].game /\ s.role = ses[p].role /\ s.token = m.token /\ s.client = hand[p]
      BY <1>1, <2>3, <3>1 DEF Session
    <3>3. ses' = [ses EXCEPT ![p] = Timed(s)]
      BY <2>6, <3>1
    <3>4. Connects(p) /\ ses'[p].token = s.token /\ ses'[p].client = s.client
      BY <2>1, <3>2, <3>3, TurnEntering
    <3> QED
      BY <2>1, <2>2, <2>6, <3>2, <3>4 DEF GuestEnters
  <2> QED
    BY <2>2, <2>4, <2>5, <2>6
<1>5. CASE Unanswered(p)
  <2>1. CASE UNCHANGED ses
    BY <1>5, <2>1 DEF Unanswered, Still
  <2>2. CASE ses' = [ses EXCEPT ![p].state = "idle"]
    <3>1. PICK n : n = [ses[p] EXCEPT !.state = "idle"]
      OBVIOUS
    <3>2. n \in Session /\ n.state = "idle" /\ n.token = ses[p].token /\ ses'[p] = n
      BY <1>1, <2>2, <3>1 DEF Session, States
    <3>3. ses[p].state = "joining" /\ UNCHANGED owner
      BY <1>1, <1>5 DEF Unanswered, Standing
    <3> QED
      BY <1>2, <3>2, <3>3 DEF Quits
  <2> QED
    BY <1>5, <2>1, <2>2 DEF Unanswered
<1>6. CASE TakeRelaySeat(p)
  <2>1. ses[p].state = "joining" /\ UNCHANGED owner
    BY <1>1, <1>6 DEF TakeRelaySeat, Standing
  <2>2. CASE ses' = [ses EXCEPT ![p].state = "relay waiting", ![p].client = hand[p],
                                ![p].role = (room.seats = <<>>)]
    <3>1. PICK r \in BOOLEAN : r = (room.seats = <<>>)
      OBVIOUS
    <3>2. PICK n : n = [ses[p] EXCEPT !.state = "relay waiting", !.client = hand[p], !.role = r]
      OBVIOUS
    <3>3. n.state = "relay waiting" /\ n.token = ses[p].token
      BY <1>1, <3>2 DEF Session
    <3>4. ses'[p] = n
      BY <1>1, <2>2, <3>1, <3>2
    <3> QED
      BY <2>1, <3>3, <3>4 DEF Quits, Outside, Offering
  <2>3. CASE ses' = [ses EXCEPT ![p].state = "idle", ![p].relayed = FALSE]
    <3>2. PICK n : n = [ses[p] EXCEPT !.state = "idle", !.relayed = FALSE]
      OBVIOUS
    <3>3. n.state = "idle" /\ n.token = ses[p].token /\ ses'[p] = n
      BY <1>1, <2>3, <3>2 DEF Session
    <3> QED
      BY <2>1, <3>3 DEF Quits, Outside, Offering
  <2> QED
    BY <1>6, <2>2, <2>3 DEF TakeRelaySeat
<1>7. CASE GameHeard(p)
  <2>1. CASE UNCHANGED ses
    BY <1>7, <2>1 DEF GameHeard, Still
  <2>2. CASE ses' = [ses EXCEPT ![p] = Idle(@)]
    BY <1>7, <2>2, Quitting DEF GameHeard
  <2>3. CASE Head(queue[ses[p].client]) = ses[p].game /\ ses' = [ses EXCEPT ![p] = Timed(@)]
    <3>1. PICK s : s = ses[p]
      OBVIOUS
    <3>2. ses' = [ses EXCEPT ![p] = Timed(s)] /\ s \in Session
      BY <1>1, <2>3, <3>1
    <3>3. ses[p].state = "relay waiting" /\ ~Direct /\ UNCHANGED <<owner, mail, said>>
          /\ at[p] = "checking" /\ queue[ses[p].client] # <<>>
      BY <1>1, <1>7 DEF GameHeard, Standing, Shape
    <3>4. Connects(p) /\ ses'[p].token = s.token /\ ses'[p].client = s.client
      BY <3>1, <3>2, <3>3, TurnEntering
    <3> QED
      BY <2>3, <3>1, <3>3, <3>4 DEF RelayEnters
  <2> QED
    BY <1>7, <2>1, <2>2, <2>3 DEF GameHeard
<1>8. CASE GameUnheard(p)
  BY <1>8, Quitting DEF GameUnheard
<1> QED
  BY <1>3, <1>4, <1>5, <1>6, <1>7, <1>8 DEF Blocked

LEMMA TurnRest ==
    ASSUME Shapely, ConnTypeOK, NEW p \in Machines, Rest(p)
    PROVE  Still(p) \/ Leaves(p) \/ Draws(p) \/ Plays(p) \/ Begins(p)
<1>1. ses[p] \in Session /\ Shape(p, ses[p]) /\ ses \in [Machines -> Session] /\ WireTypes
  BY Here
<1>2. CASE Exchange(p)
  <2>1. ses' = [ses EXCEPT ![p].frames = @ + 1, ![p].hello = 0] /\ UNCHANGED owner
    BY <1>2 DEF Exchange
  <2>2. ses'[p] = [ses[p] EXCEPT !.frames = @ + 1, !.hello = 0]
    BY <1>1, <2>1
  <2> QED
    BY <1>2, <2>1, <2>2 DEF Plays
<1>3. CASE Pass(p)
  <2>1. CASE UNCHANGED ses
    BY <1>3, <2>1 DEF Pass, Still
  <2>2. CASE ses[p].start /\ ses[p].state = "connected" /\ ~emu[p].paused /\ PowerCycle(p)
    <3>1. ses'[p] = [ses[p] EXCEPT !.start = FALSE]
      BY <1>1, <2>2 DEF PowerCycle
    <3>2. PICK e \in Emulator : e = emu[p]
      BY <1>1 DEF WireTypes
    <3>3. PICK n : n = [e EXCEPT !.ran = 0]
      OBVIOUS
    <3>4. emu'[p] = n
      BY <1>1, <2>2, <3>2, <3>3 DEF PowerCycle, WireTypes
    <3>5. n.ran = 0 /\ n.paused = e.paused
      BY <3>2, <3>3 DEF Emulator
    <3> QED
      BY <1>3, <2>2, <3>1, <3>2, <3>4, <3>5 DEF Begins, Pass
  <2> QED
    BY <1>3, <2>1, <2>2 DEF Pass
<1>4. CASE PeerLost(p)
  <2>1. ses[p].state = "connected"
    BY <1>4 DEF PeerLost, Exchanging
  <2>2. CASE ses' = [ses EXCEPT ![p] = Idle(@)] /\ UNCHANGED owner
    BY <2>1, <2>2, Quitting DEF Quits, Outside
  <2>3. CASE /\ ses[p].role /\ ~ses[p].relayed /\ owner' = Append(owner, p)
             /\ \/ /\ ses[p].server # None
                   /\ ses' = [ses EXCEPT ![p] = Waiting(p, @.server, TRUE)]
                \/ /\ born[p] < MaxSockets
                   /\ ses' = [ses EXCEPT ![p] = Waiting(p, <<p, born[p] + 1>>, TRUE)]
    <3>1. Direct /\ p = Host
      BY <1>1, <2>1, <2>3 DEF Shape
    <3>2. born[p] \in Nat
      BY DEF ConnTypeOK
    <3>3. born[p] < MaxSockets => <<p, born[p] + 1>> \in Sockets
      BY <3>2, ConnectAssumption DEF Sockets
    <3>4. ses[p].server # None => ses[p].server \in Sockets
      BY <1>1 DEF Session, Maybe
    <3>5. PICK fd \in Sockets : ses' = [ses EXCEPT ![p] = Waiting(p, fd, TRUE)]
      BY <2>3, <3>3, <3>4
    <3> QED
      BY <2>3, <3>1, <3>5, Drawing
  <2> QED
    BY <1>4, <2>2, <2>3 DEF PeerLost
<1> QED
  BY <1>2, <1>3, <1>4 DEF Rest

LEMMA Turns ==
    ASSUME Shapely, ConnTypeOK, NEW p \in Machines, Machine(p)
    PROVE  \/ Still(p) \/ Quits(p) \/ Draws(p) \/ Plays(p) \/ Begins(p)
           \/ HostEnters(p) \/ GuestEnters(p) \/ RelayEnters(p)
BY TurnPanel, TurnCalls, TurnBlocked, TurnRest DEF Machine, Quits

-----------------------------------------------------------------------------
(* Frames exchanged and frames run. *)
Counting(p) ==
    /\ Exchanging(p) => ~emu[p].paused /\ ses[p].frames = emu[p].ran
    /\ ses[p].state = "connected" /\ ses[p].start => ses[p].frames = 0
Counted == \A p \in Machines : Counting(p)

LEMMA CountingSteps ==
    ASSUME Shapely, ConnTypeOK, Counted, ~Meddling, PlayersPauseKept, NEW p \in Machines, Machine(p)
    PROVE  Counting(p)'
<1>1. /\ ses[p] \in Session /\ Shape(p, ses[p]) /\ ses \in [Machines -> Session] /\ Counting(p)
      /\ emu \in [Machines -> Emulator] /\ Types
  BY Here DEF WireTypes, Counted
<1>2. ASSUME Still(p) PROVE Counting(p)'
  <2>1. ses'[p] = ses[p]
    BY <1>2 DEF Still
  <2>2. CASE Exchanging(p)
    <3>1. CASE UNCHANGED emu
      BY <1>1, <2>1, <3>1 DEF Counting, Exchanging
    <3>2. CASE emu' = [emu EXCEPT ![p] = HoldEmulation(p)]
      <4>1. ~SessionPending(p)
        BY <2>2 DEF Exchanging, SessionPending
      <4>2. emu'[p].ran = emu[p].ran /\ ~emu'[p].paused
        BY <1>1, <2>2, <3>2, <4>1, HoldKeepsWish DEF PlayersPauseKept, Counting
      <4> QED
        BY <1>1, <2>1, <4>2 DEF Counting, Exchanging
    <3>3. CASE PressPause(p) \/ LoadRom(p)
      BY <2>2, <3>3 DEF PressPause, LoadRom
    <3>4. CASE Exchange(p)
      <4>1. ses' = [ses EXCEPT ![p].frames = @ + 1, ![p].hello = 0]
        BY <3>4 DEF Exchange
      <4>2. ses'[p].frames = ses[p].frames + 1
        BY <1>1, <4>1 DEF Session
      <4> QED
        BY <1>1, <2>1, <4>2 DEF Session
    <3>5. CASE Pass(p)
      BY <2>2, <3>5 DEF Pass
    <3> QED
      BY <3>1, <3>2, <3>3, <3>4, <3>5, EmulatorSteps
  <2>3. CASE ~Exchanging(p)
    BY <1>1, <2>1, <2>3 DEF Counting, Exchanging
  <2> QED
    BY <2>2, <2>3
<1>3. CASE Quits(p) \/ Draws(p)
  <2>1. ses'[p].state # "connected"
    BY <1>3 DEF Quits, Outside, Leaves, Draws
  <2> QED
    BY <2>1 DEF Counting, Exchanging
<1>4. CASE HostEnters(p) \/ GuestEnters(p) \/ RelayEnters(p)
  <2>1. ses'[p].start /\ ses'[p].frames = 0
    BY <1>4 DEF HostEnters, GuestEnters, RelayEnters, Connects
  <2> QED
    BY <2>1 DEF Counting, Exchanging
<1>5. CASE Plays(p)
  <2>1. PICK h : ses'[p] = [ses[p] EXCEPT !.frames = @ + 1, !.hello = h]
    BY <1>5 DEF Plays
  <2>2. PICK n : n = [ses[p] EXCEPT !.frames = @ + 1, !.hello = h]
    OBVIOUS
  <2>3. n.frames = ses[p].frames + 1 /\ n.state = ses[p].state /\ (n.start <=> ses[p].start) /\ ses'[p] = n
    BY <1>1, <2>1, <2>2 DEF Session
  <2>4. Exchanging(p) /\ Exchange(p)
    BY <1>5 DEF Plays, Exchange
  <2>5. PICK e \in Emulator : e = emu[p]
    BY <1>1
  <2>6. ~e.paused /\ ses[p].frames = e.ran
    BY <1>1, <2>4, <2>5 DEF Counting
  <2>7. emu'[p] = [e EXCEPT !.ran = e.ran + 1]
    BY <1>1, <2>4, <2>5, <2>6 DEF Exchange
  <2>8. PICK f : f = [e EXCEPT !.ran = e.ran + 1]
    OBVIOUS
  <2>9. emu'[p] = f /\ (f.paused <=> e.paused) /\ f.ran = e.ran + 1
    BY <2>5, <2>7, <2>8 DEF Emulator
  <2> QED
    BY <2>3, <2>4, <2>6, <2>9 DEF Counting, Exchanging
<1>6. CASE Begins(p)
  <2>1. PICK n : n = [ses[p] EXCEPT !.start = FALSE]
    OBVIOUS
  <2>2. n.frames = ses[p].frames /\ n.state = ses[p].state /\ ~n.start /\ ses'[p] = n
    BY <1>1, <1>6, <2>1 DEF Session, Begins
  <2>3. ses[p].frames = 0 /\ emu'[p].ran = 0 /\ ~emu'[p].paused
    BY <1>1, <1>6 DEF Begins, Counting
  <2> QED
    BY <2>2, <2>3 DEF Counting, Exchanging
<1> QED
  BY <1>2, <1>3, <1>4, <1>5, <1>6, Turns

LEMMA CountedNext ==
    ASSUME Sane, Counted, ~Meddling, PlayersPauseKept, [Next]_vars PROVE Counted'
<1>1. ASSUME NEW p \in Machines, Machine(p) PROVE Counted'
  <2>1. Counting(p)'
    BY <1>1, CountingSteps DEF Sane, Counted, ConnInv
  <2>2. ASSUME NEW q \in Machines \ {p} PROVE Counting(q)'
    <3>1. ses'[q] = ses[q] /\ emu'[q] = emu[q]
      BY <1>1, Local DEF Sane
    <3> QED
      BY <3>1 DEF Counted, Counting, Exchanging
  <2> QED
    BY <2>1, <2>2 DEF Counted
<1>2. ASSUME UNCHANGED <<ses, emu>> PROVE Counted'
  BY <1>2 DEF Counted, Counting, Exchanging
<1> QED
  BY <1>1, <1>2 DEF Next, Announce, ConnectThread, vars

(* From the power cycle on a frame of input is exchanged for every frame    *)
(* the console runs (net/netplay.h:15), as long as the player neither       *)
(* pauses nor loads a game while inputs are exchanged.                      *)
THEOREM ExchangesRunFrames == ASSUME ~Meddling PROVE Spec => []ExchangesAreFrames
<1>1. Init => Counted /\ PlayersPauseKept
  <2> SUFFICES ASSUME Init, NEW p \in Machines
               PROVE  /\ Counting(p)
                      /\ IF emu[p].held THEN ~emu[p].wish ELSE emu[p].paused = emu[p].wish
    BY DEF PlayersPauseKept, Counted
  <2>1. ses[p] = Fresh /\ ~emu[p].held /\ emu[p].paused = emu[p].wish
    BY DEF Init
  <2> QED
    BY <2>1, FreshIs DEF Counting, Exchanging
<1>2. Sane /\ PlayersPauseKept /\ Counted /\ [Next]_vars => PlayersPauseKept' /\ Counted'
  BY PauseSteps, CountedNext DEF Sane
<1>3. Counted => ExchangesAreFrames
  BY DEF Counted, Counting, ExchangesAreFrames
<1> QED
  BY <1>1, <1>2, <1>3, SaneInit, SaneNext, PTL DEF Spec

-----------------------------------------------------------------------------
(* A socket that carries words. *)
(* A socket nothing has been sent on never was a used one. *)
LEMMA UnusedByConnect ==
    ASSUME ConnInv, [ConnNext]_connVars, NEW q \in Machines
    PROVE  /\ born'[q] >= born[q]
           /\ conn'[q].sock \in {conn[q].sock, None} \cup {SocketOf(t) : t \in threads}
           /\ \A u \in threads' : \/ \E v \in threads : SocketOf(u) = SocketOf(v)
                                  \/ u.request > born[u.owner]
<1>0. /\ conn \in [Machines -> Statics] /\ threads \subseteq Threads /\ born \in [Machines -> 0..MaxSockets]
  BY DEF ConnInv, ConnTypeOK, Statics, Threads
<1>1. CASE UNCHANGED connVars
  BY <1>0, <1>1 DEF connVars
<1>2. CASE ThreadStep
  <2>1. PICK t \in threads : Resolve(t) \/ Reach(t) \/ Miss(t) \/ LastTest(t) \/ StoreSock(t) \/ StoreReady(t)
                             \/ StoreFailed(t) \/ Return(t)
    BY <1>2 DEF ThreadStep
  <2>2. \A s : SocketOf([t EXCEPT !.at = s]) = SocketOf(t)
    BY <1>0 DEF Threads, SocketOf
  <2>3. \A u \in threads' : u \in threads \/ \E s : u = [t EXCEPT !.at = s]
    BY <2>1 DEF Resolve, Reach, Miss, LastTest, StoreSock, StoreReady, StoreFailed, Return, Moved
  <2>4. conn'[q].sock = conn[q].sock \/ conn'[q].sock = SocketOf(t)
    BY <1>0, <2>1 DEF Resolve, Reach, Miss, LastTest, StoreSock, StoreReady, StoreFailed, Return, Statics
  <2>5. UNCHANGED born
    BY <2>1 DEF Resolve, Reach, Miss, LastTest, StoreSock, StoreReady, StoreFailed, Return
  <2> QED
    BY <1>0, <2>2, <2>3, <2>4, <2>5
<1>3. CASE CallerStep
  <2>1. born'[q] >= born[q]
    BY <1>3 DEF CallerStep
  <2>2. conn'[q].sock \in {conn[q].sock, None}
    <3>1. UNCHANGED conn \/ \E p \in Machines :
             \/ conn' = [conn EXCEPT ![p] = Started] \/ conn' = [conn EXCEPT ![p] = StartedInVain]
             \/ conn' = [conn EXCEPT ![p] = Cancelled(@)] \/ conn' = [conn EXCEPT ![p] = HandedOver(@)]
             \/ conn' = [conn EXCEPT ![p] = Reported(@)]
      BY <1>3 DEF CallerStep, Ask, AskInVain, Abandon, Answer
    <3>2. PICK c \in Statics : c = conn[q]
      BY <1>0
    <3>3. conn'[q] \in {c, Started, StartedInVain, Cancelled(c), HandedOver(c), Reported(c)}
      BY <1>0, <3>1, <3>2
    <3>4. /\ Started.sock = None /\ StartedInVain.sock = None /\ Cancelled(c).sock \in {c.sock, None}
          /\ HandedOver(c).sock = None /\ Reported(c).sock = c.sock
      BY <3>2 DEF Started, StartedInVain, Cancelled, HandedOver, Reported, Statics
    <3> QED
      BY <3>2, <3>3, <3>4
  <2>3. \A u \in threads' : u \in threads \/ \E p \in Machines : u = Thread(p, born'[p]) /\ born'[p] > born[p]
    BY <1>3 DEF CallerStep, Ask, AskInVain, Abandon, Answer
  <2>4. \A p \in Machines : Thread(p, born'[p]).request = born'[p] /\ Thread(p, born'[p]).owner = p
    BY DEF Thread
  <2> QED
    BY <2>1, <2>2, <2>3, <2>4
<1> QED
  BY <1>1, <1>2, <1>3 DEF ConnNext

LEMMA HandsMove ==
    ASSUME Shapely, [Next]_vars, NEW q \in Machines PROVE hand'[q] \in {None, hand[q], conn[q].sock}
<1>0. hand \in [Machines -> Maybe]
  BY Here
<1>1. CASE UNCHANGED hand
  BY <1>1
<1>2. ASSUME NEW p \in Machines, Machine(p)
      PROVE  UNCHANGED hand \/ hand' = [hand EXCEPT ![p] = None] \/ hand' = [hand EXCEPT ![p] = conn[p].sock]
  BY <1>2 DEF Machine, Panel, Advance, Blocked, Rest, PressHost, PressJoin, PressDisconnect, PressPause, LoadRom,
       Nothing, TurnAway, Accept, HandshakeFails, HandshakeHeard, Challenge, UdpAdmit, TakeSocket, ConnectFails,
       RelayHeard, RelayPing, RelayLost, StartConnect, Answered, Unanswered, TakeRelaySeat, GameHeard, GameUnheard,
       Exchange, PeerLost, Pass, GivesUp
<1> QED
  BY <1>0, <1>1, <1>2 DEF Next, Announce, ConnectThread, vars

LEMMA UnusedShrinks ==
    ASSUME Sane, [Next]_vars, NEW x \in Sockets, Unused(x)' PROVE Unused(x)
<1>0. x[1] \in Machines /\ x[2] \in Nat /\ x = <<x[1], x[2]>> /\ x # None
  BY PortApart DEF Sockets
<1>1. /\ born \in [Machines -> 0..MaxSockets] /\ born' \in [Machines -> 0..MaxSockets]
      /\ threads \subseteq Threads /\ threads' \subseteq Threads
  BY SaneNext DEF Sane, ConnInv, ConnTypeOK, Threads
<1>2. PICK q \in Machines : q = x[1]
  BY <1>0
<1>3. /\ born'[q] >= born[q]
      /\ conn'[q].sock \in {conn[q].sock, None} \cup {SocketOf(t) : t \in threads}
      /\ \A u \in threads' : \/ \E v \in threads : SocketOf(u) = SocketOf(v)
                             \/ u.request > born[u.owner]
      /\ hand'[q] \in {None, hand[q], conn[q].sock}
  BY SaneNext, UnusedByConnect, HandsMove DEF Sane
<1>4. CASE x[2] > born'[q]
  BY <1>0, <1>1, <1>2, <1>3, <1>4 DEF Unused
<1>5. CASE x \in {hand'[q], conn'[q].sock}
  BY <1>0, <1>2, <1>3, <1>5 DEF Unused
<1>6. CASE \E u \in threads' : x = SocketOf(u)
  <2>1. PICK u \in threads' : x = SocketOf(u)
    BY <1>6
  <2>2. CASE \E v \in threads : SocketOf(u) = SocketOf(v)
    BY <2>1, <2>2 DEF Unused
  <2>3. CASE u.request > born[u.owner]
    <3>1. x[1] = u.owner /\ x[2] = u.request
      BY <2>1 DEF SocketOf
    <3> QED
      BY <1>2, <2>3, <3>1 DEF Unused
  <2> QED
    BY <1>3, <2>1, <2>2, <2>3
<1> QED
  BY <1>2, <1>4, <1>5, <1>6 DEF Unused, SocketOf

-----------------------------------------------------------------------------
(* Direct sessions: tokens and hellos. *)
(* What was said over a direct connection: every token is one the host drew  *)
(* and named with the game; a second hello names what its sender has named,  *)
(* and no socket carries two; whoever is in a session has such a hello.      *)
Named(p, m) == [by |-> p, token |-> m.token, game |-> m.game] \in said
Second(m) == m.to = HostPort /\ m.token # 0
SecondIs(m) == Named(m.from[1], m) /\ m.from[1] # Host /\ ~Unused(m.from)
Link(p) == IF ses[p].role THEN ses[p].peer ELSE ses[p].client
Greeting(p) == Hello(Link(p), HostPort, ses[p].token, ses[p].game)
Greeted(p) == Direct /\ ses[p].state = "connected" => Greeting(p) \in mail

TokensDrawn ==
    /\ \A i \in 1..Len(owner) : owner[i] = Host
    /\ \A p \in Machines : ses[p].token <= Len(owner)

MailSound ==
    /\ \A m \in mail : m.token <= Len(owner) /\ (m.token # 0 => Named(Host, m))
    /\ \A m \in mail : Second(m) => SecondIs(m)
    /\ \A m, n \in mail : Second(m) /\ Second(n) /\ m.from = n.from => m = n

Words == TokensDrawn /\ MailSound /\ \A p \in Machines : Greeted(p)

LEMMA TokensNext ==
    ASSUME Sane, TokensDrawn, \A m \in mail : m.token <= Len(owner), NEW p \in Machines, Machine(p)
    PROVE  TokensDrawn' /\ (UNCHANGED owner \/ owner' = Append(owner, Host)) /\ Len(owner') >= Len(owner)
<1>0. Shapely /\ Shapely'
  BY SaneNext DEF Next, Sane
<1>1. /\ ses[p] \in Session /\ ses \in [Machines -> Session] /\ owner \in Seq(Machines)
      /\ ses'[p] \in Session /\ Host \in Machines
  BY <1>0, SessionAssumption DEF WireTypes, Shapely, Types
<1>2. Still(p) \/ Quits(p) \/ Draws(p) \/ Plays(p) \/ Begins(p) \/ HostEnters(p) \/ GuestEnters(p) \/ RelayEnters(p)
  BY Turns DEF Sane, ConnInv
<1>3. \A q \in Machines \ {p} : ses'[q] = ses[q]
  BY Local DEF Sane
<1>4. ASSUME NEW h PROVE /\ [ses[p] EXCEPT !.frames = @ + 1, !.hello = h].token = ses[p].token
                         /\ [ses[p] EXCEPT !.start = FALSE].token = ses[p].token
  BY <1>1 DEF Session
<1>5. CASE Draws(p)
  <2>1. /\ owner' = Append(owner, Host) /\ Len(owner') = Len(owner) + 1 /\ ses'[p].token = Len(owner')
        /\ Len(owner) \in Nat
    BY <1>1, <1>5 DEF Draws
  <2>2. \A i \in 1..Len(owner') : owner'[i] = Host
    BY <1>1, <2>1 DEF TokensDrawn
  <2>3. \A q \in Machines : ses[q].token \in Nat
    BY <1>1 DEF Session
  <2>4. \A q \in Machines : ses'[q].token <= Len(owner')
    BY <1>3, <2>1, <2>3 DEF TokensDrawn
  <2> QED
    BY <2>1, <2>2, <2>4 DEF TokensDrawn
<1>6. CASE ~Draws(p)
  <2>1. UNCHANGED owner
    BY <1>2, <1>6 DEF Still, Quits, Outside, Leaves, Plays, Begins, HostEnters, GuestEnters, RelayEnters, Connects
  <2>2. ses'[p].token \in {0, ses[p].token} \/ \E m \in mail : ses'[p].token = m.token
    BY <1>2, <1>4, <1>6 DEF Still, Quits, Outside, Leaves, Plays, Begins, HostEnters, GuestEnters, RelayEnters
  <2>3. Len(owner) \in Nat
    BY <1>1
  <2>4. \A q \in Machines : ses'[q].token <= Len(owner)
    BY <1>3, <2>2, <2>3 DEF TokensDrawn
  <2> QED
    BY <2>1, <2>3, <2>4 DEF TokensDrawn
<1> QED
  BY <1>5, <1>6

(* What a step says. *)
HostSays(p) ==
    /\ p = Host /\ said' = Names(p, ses[p].token, ses[p].game)
    /\ \E s \in Sockets : mail' = mail \cup {Hello(HostPort, s, ses[p].token, ses[p].game)}
Asks(p) ==
    /\ UNCHANGED said
    /\ \E s : mail' = mail \cup {Hello(s, HostPort, 0, ses[p].game)}
Refused(p) ==
    /\ UNCHANGED said
    /\ \E s \in Sockets : mail' = mail \cup {Hello(HostPort, s, 0, ses[p].game)}

LEMMA AnsweredSays ==
    ASSUME Shapely, NEW p \in Machines, Answered(p) PROVE UNCHANGED <<mail, said>> \/ GuestEnters(p)
<1> SUFFICES ASSUME ~UNCHANGED <<mail, said>> PROVE GuestEnters(p)
  OBVIOUS
<1>1. Still(p) \/ Quits(p) \/ GuestEnters(p) \/ RelayEnters(p)
  BY TurnBlocked DEF Blocked
<1>2. ~RelayEnters(p)
  BY DEF RelayEnters
<1>3. ses'[p].state = "connected"
  <2>1. PICK m \in mail : ses' = [ses EXCEPT ![p] = Timed([@ EXCEPT !.token = m.token, !.client = hand[p]])]
    BY DEF Answered
  <2>2. PICK s : s = [ses[p] EXCEPT !.token = m.token, !.client = hand[p]]
    OBVIOUS
  <2>3. m.token \in Nat /\ hand[p] \in Maybe /\ ses \in [Machines -> Session] /\ ses[p] \in Session
    BY Here DEF WireTypes, Question, Reply
  <2>4. s \in Session
    BY <2>2, <2>3 DEF Session
  <2>5. ses'[p] = Timed(s)
    BY <2>1, <2>2, <2>3
  <2> QED
    BY <2>4, <2>5, TimedIs
<1>4. ses[p].state = "joining"
  BY Here DEF Answered, Standing
<1> QED
  BY <1>1, <1>2, <1>3, <1>4 DEF Still, Quits, Outside, Leaves

LEMMA MailSteps ==
    ASSUME Shapely, NEW p \in Machines, Machine(p)
    PROVE  \/ UNCHANGED mail /\ said \subseteq said'
           \/ HostSays(p) \/ Asks(p) \/ Refused(p) \/ GuestEnters(p)
<1>1. ses[p] \in Session /\ Shape(p, ses[p]) /\ WireTypes
  BY Here
<1>2. CASE Accept(p)
  <2>1. ses[p].state = "waiting" /\ p = Host
    BY <1>1, <1>2 DEF Accept, Shape
  <2>2. backlog \subseteq Sockets
    BY <1>1 DEF WireTypes
  <2> QED
    BY <1>2, <2>1, <2>2 DEF Accept, HostSays
<1>3. CASE Challenge(p)
  <2>1. ses[p].state = "waiting" /\ p = Host
    BY <1>1, <1>3 DEF Challenge, UdpServes, Shape
  <2>2. PICK m \in mail : /\ m.to = HostPort
                          /\ mail' = mail \cup {Hello(HostPort, m.from, ses[p].token, ses[p].game)}
    BY <1>3 DEF Challenge
  <2>3. m.from \in Sockets
    BY <1>1, <2>2, PortApart DEF WireTypes, Question, Reply
  <2> QED
    BY <1>3, <2>1, <2>2, <2>3 DEF Challenge, HostSays
<1>4. CASE TurnAway(p)
  BY <1>1, <1>4 DEF TurnAway, Refused, WireTypes
<1>5. CASE TakeSocket(p)
  BY <1>5 DEF TakeSocket, Asks
<1>6. CASE Answered(p)
  BY <1>6, AnsweredSays
<1>7. CASE ~(Accept(p) \/ Challenge(p) \/ TurnAway(p) \/ TakeSocket(p) \/ Answered(p))
  <2>1. CASE RelayHeard(p)
    BY <2>1 DEF RelayHeard, Names
  <2>2. CASE ~RelayHeard(p)
    <3>1. UNCHANGED <<mail, said>>
      BY <1>7, <2>2 DEF Machine, Panel, Advance, Blocked, Rest, PressHost, PressJoin, PressDisconnect, PressPause,
         LoadRom, Nothing, HandshakeFails, HandshakeHeard, UdpAdmit, ConnectFails, RelayPing, RelayLost, StartConnect,
         Unanswered, TakeRelaySeat, GameHeard, GameUnheard, Exchange, PeerLost, Pass, netVars
    <3> QED
      BY <3>1
  <2> QED
    BY <2>1, <2>2
<1> QED
  BY <1>2, <1>3, <1>4, <1>5, <1>6, <1>7

LEMMA SecondsAsk ==
    ASSUME Shapely, NEW m \in mail, Second(m)
    PROVE  m \in Question /\ m.from \in Sockets /\ m.from[1] \in Machines
<1>1. mail \subseteq Question \cup Reply
  BY Here, SessionAssumption DEF WireTypes, Shapely, Types
<1>2. m \in Question
  BY <1>1, PortApart DEF Second, Reply
<1> QED
  BY <1>2 DEF Question, Sockets

LEMMA MailKept ==
    ASSUME Sane, MailSound, [Next]_vars, owner \in Seq(Machines), Len(owner') \in Nat, Len(owner') >= Len(owner),
           said \subseteq said', NEW m \in mail
    PROVE  /\ m.token <= Len(owner') /\ (m.token # 0 => Named(Host, m)')
           /\ Second(m) => SecondIs(m)'
<1>1. m.token \in Nat /\ Len(owner) \in Nat
  BY DEF Sane, Shapely, Types, WireTypes, Question, Reply
<1>2. m.token <= Len(owner') /\ (m.token # 0 => Named(Host, m)')
  BY <1>1 DEF MailSound, Named
<1>3. ASSUME Second(m) PROVE SecondIs(m)'
  <2>1. SecondIs(m) /\ m.from \in Sockets
    BY <1>3, SecondsAsk DEF Sane, MailSound
  <2>2. ~Unused(m.from)'
    BY <2>1, UnusedShrinks DEF SecondIs
  <2> QED
    BY <2>1, <2>2 DEF SecondIs, Named
<1> QED
  BY <1>2, <1>3

LEMMA MailAdds ==
    ASSUME Sane, MailSound, [Next]_vars, owner \in Seq(Machines), Len(owner') \in Nat, Len(owner') >= Len(owner),
           said \subseteq said', NEW n, mail' = mail \cup {n}, n.token <= Len(owner'),
           n.token # 0 => Named(Host, n)', Second(n) => SecondIs(n)' /\ Unused(n.from)
    PROVE  MailSound'
<1>1. \A m \in mail : /\ m.token <= Len(owner') /\ (m.token # 0 => Named(Host, m)')
                      /\ Second(m) => SecondIs(m)'
  BY MailKept
<1>2. \A m \in mail : Second(m) => ~Unused(m.from)
  BY DEF MailSound, SecondIs
<1>3. \A m, k \in mail' : Second(m) /\ Second(k) /\ m.from = k.from => m = k
  BY <1>2 DEF MailSound
<1> QED
  BY <1>1, <1>3 DEF MailSound, Second, HostPort

LEMMA MailSame ==
    ASSUME Sane, MailSound, [Next]_vars, owner \in Seq(Machines), Len(owner') \in Nat, Len(owner') >= Len(owner),
           said \subseteq said', UNCHANGED mail
    PROVE  MailSound'
<1>1. \A m \in mail : /\ m.token <= Len(owner') /\ (m.token # 0 => Named(Host, m)')
                      /\ Second(m) => SecondIs(m)'
  BY MailKept
<1> QED
  BY <1>1 DEF MailSound, Second, HostPort

LEMMA HelloIs ==
    ASSUME NEW a, NEW b, NEW t, NEW g
    PROVE  /\ Hello(a, b, t, g).from = a /\ Hello(a, b, t, g).to = b /\ Hello(a, b, t, g).token = t
           /\ Hello(a, b, t, g).game = g
BY DEF Hello

LEMMA MailNext ==
    ASSUME Sane, TokensDrawn, MailSound, NEW p \in Machines, Machine(p) PROVE MailSound'
<1>0. [Next]_vars /\ Sane'
  BY SaneNext DEF Next
<1>1. /\ owner \in Seq(Machines) /\ owner' \in Seq(Machines) /\ ses[p] \in Session /\ Shape(p, ses[p])
      /\ Standing(p, ses[p], at[p], hand[p]) /\ hand[p] \in Maybe
  BY <1>0, Here DEF Sane, Shapely, Types, WireTypes
<1>2. Len(owner') \in Nat /\ Len(owner') >= Len(owner) /\ TokensDrawn' /\ ses[p].token <= Len(owner) /\ Len(owner) \in Nat
  BY <1>1, TokensNext DEF MailSound, TokensDrawn
<1>3. CASE UNCHANGED mail /\ said \subseteq said'
  BY <1>0, <1>1, <1>2, <1>3, MailSame
<1>4. CASE HostSays(p)
  <2>1. PICK s \in Sockets : mail' = mail \cup {Hello(HostPort, s, ses[p].token, ses[p].game)}
    BY <1>4 DEF HostSays
  <2>2. PICK n : n = Hello(HostPort, s, ses[p].token, ses[p].game)
    OBVIOUS
  <2>3. n.to = s /\ n.token = ses[p].token /\ n.game = ses[p].game
    BY <2>2, HelloIs
  <2>4. said' = Names(p, ses[p].token, ses[p].game) /\ p = Host
    BY <1>4 DEF HostSays
  <2>5. said \subseteq said' /\ Named(Host, n)'
    BY <2>3, <2>4 DEF Names, Named
  <2>6. ~Second(n)
    BY <2>3, PortApart DEF Second
  <2>7. n.token <= Len(owner') /\ mail' = mail \cup {n}
    BY <1>1, <1>2, <2>1, <2>2, <2>3 DEF Session
  <2> QED
    BY <1>0, <1>1, <1>2, <2>5, <2>6, <2>7, MailAdds
<1>5. CASE Asks(p) \/ Refused(p)
  <2>1. PICK a, b : mail' = mail \cup {Hello(a, b, 0, ses[p].game)}
    BY <1>5 DEF Asks, Refused
  <2>2. PICK n : n = Hello(a, b, 0, ses[p].game)
    OBVIOUS
  <2>3. n.token = 0
    BY <2>2, HelloIs
  <2>4. ~Second(n) /\ said \subseteq said' /\ mail' = mail \cup {n}
    BY <1>5, <2>1, <2>2, <2>3 DEF Second, Asks, Refused
  <2>5. n.token <= Len(owner')
    BY <1>2, <2>3
  <2> QED
    BY <1>0, <1>1, <1>2, <2>3, <2>4, <2>5, MailAdds
<1>6. CASE GuestEnters(p)
  <2>1. PICK m \in mail : /\ m.token # 0 /\ m.game = ses[p].game
                          /\ mail' = mail \cup {Hello(hand[p], HostPort, m.token, ses[p].game)}
                          /\ said' = Names(p, m.token, ses[p].game)
    BY <1>6 DEF GuestEnters
  <2>2. PICK n : n = Hello(hand[p], HostPort, m.token, ses[p].game)
    OBVIOUS
  <2>3. n.from = hand[p] /\ n.token = m.token /\ n.game = ses[p].game /\ n.game = m.game
    BY <2>1, <2>2, HelloIs
  <2>4. /\ p # Host /\ at[p] = "hello" /\ hand'[p] = None /\ ses'[p].client = hand[p]
    BY <1>6 DEF GuestEnters
  <2>5. hand[p] # None /\ hand[p] \in Mine(p)'
    BY <1>1, <2>4 DEF Standing, Mine
  <2>6. hand[p] \in Sockets /\ hand[p][1] = p /\ Holding(p)'
    <3>1. Holding(p) /\ Holding(p)' /\ hand[p] \in Mine(p)
      BY <1>0, <2>5 DEF Sane, Held, Mine
    <3> QED
      BY <3>1, <2>5, Owned DEF Sane, ConnInv
  <2>13. PICK x : x = hand[p]
    OBVIOUS
  <2>7. Unused(x)
    BY <2>6, <2>13 DEF Unused
  <2>8. ~Unused(x)'
    <3>1. /\ born'[p] \in Nat /\ x \in {p} \X (1..born'[p])
      BY <1>0, <2>5, <2>6, <2>13 DEF Holding, Drawn, Sane, ConnInv, ConnTypeOK
    <3>2. x[1] = p /\ ~(x[2] > born'[p]) /\ x # hand'[p]
      BY <2>4, <2>5, <2>13, <3>1
    <3>3. x # conn'[p].sock
      BY <2>5, <2>6, <2>13 DEF Holding
    <3>4. \A u \in threads' : u.owner = p => SocketOf(u) # x
      BY <2>5, <2>6, <2>13 DEF Holding, SocketOf
    <3>5. \A u \in threads' : SocketOf(u) # x
      BY <3>2, <3>4 DEF SocketOf
    <3> QED
      BY <3>2, <3>3, <3>5 DEF Unused, SocketOf
  <2>9. said \subseteq said' /\ Named(p, n)'
    BY <2>1, <2>3 DEF Names, Named
  <2>10. m.token <= Len(owner') /\ Named(Host, m)'
    BY <1>0, <1>1, <1>2, <2>1, <2>9, MailKept
  <2>11. n.token <= Len(owner') /\ Named(Host, n)' /\ mail' = mail \cup {n}
    BY <2>1, <2>2, <2>3, <2>10 DEF Named
  <2>12. SecondIs(n)'
    BY <2>3, <2>4, <2>6, <2>8, <2>9, <2>13 DEF SecondIs, Named
  <2> QED
    BY <1>0, <1>1, <1>2, <2>3, <2>7, <2>9, <2>11, <2>12, <2>13, MailAdds
<1> QED
  BY <1>3, <1>4, <1>5, <1>6, MailSteps DEF Sane

LEMMA ModeFixed == ASSUME [Next]_vars PROVE mode' = mode
<1>1. ASSUME NEW p \in Machines, Machine(p) PROVE mode' = mode
  BY <1>1 DEF Machine, Panel, Advance, Blocked, Rest, PressHost, PressJoin, PressDisconnect, PressPause, LoadRom,
       Nothing, TurnAway, Accept, HandshakeFails, HandshakeHeard, Challenge, UdpAdmit, TakeSocket, ConnectFails,
       RelayHeard, RelayPing, RelayLost, StartConnect, Answered, Unanswered, TakeRelaySeat, GameHeard, GameUnheard,
       Exchange, PeerLost, Pass
<1> QED
  BY <1>1 DEF Next, Announce, ConnectThread, vars

LEMMA GreetedNext ==
    ASSUME Sane, Words, NEW p \in Machines, Machine(p), NEW q \in Machines PROVE Greeted(q)'
<1>1. /\ ses[p] \in Session /\ ses \in [Machines -> Session] /\ mail \subseteq Question \cup Reply
      /\ Shape(p, ses[p])
  BY Here DEF Sane, WireTypes
<1>2. mail \subseteq mail'
  BY MailSteps DEF Sane, HostSays, Asks, Refused, GuestEnters
<1>3. mode' = mode /\ (q # p => ses'[q] = ses[q])
  BY Local, ModeFixed DEF Sane, Next
<1>4. ASSUME ses'[q].state = ses[q].state, ses'[q].role = ses[q].role, ses'[q].peer = ses[q].peer,
             ses'[q].client = ses[q].client, ses'[q].token = ses[q].token, ses'[q].game = ses[q].game
      PROVE  Greeted(q)'
  <2>1. Greeting(q)' = Greeting(q)
    BY <1>4 DEF Greeting, Link, Hello, HostPort
  <2> QED
    BY <1>2, <1>3, <1>4, <2>1 DEF Words, Greeted, Direct
<1>5. CASE q # p
  BY <1>3, <1>4, <1>5
<1>6. CASE Still(p)
  BY <1>3, <1>4, <1>6 DEF Still
<1>7. CASE q = p /\ (Quits(p) \/ Draws(p))
  BY <1>7 DEF Greeted, Quits, Outside, Leaves, Draws
<1>8. CASE q = p /\ (Plays(p) \/ Begins(p))
  <2>1. PICK n : /\ ses'[p] = n
                 /\ (\E h : n = [ses[p] EXCEPT !.frames = @ + 1, !.hello = h]) \/ n = [ses[p] EXCEPT !.start = FALSE]
    BY <1>8 DEF Plays, Begins
  <2>2. /\ n.state = ses[p].state /\ n.role = ses[p].role /\ n.peer = ses[p].peer
        /\ n.client = ses[p].client /\ n.token = ses[p].token /\ n.game = ses[p].game
    BY <1>1, <2>1 DEF Session
  <2> QED
    BY <1>4, <1>8, <2>1, <2>2
<1>9. CASE q = p /\ RelayEnters(p)
  BY <1>3, <1>9 DEF RelayEnters, Greeted, Direct
<1>10. CASE q = p /\ GuestEnters(p)
  <2>1. PICK m \in mail : /\ mail' = mail \cup {Hello(hand[p], HostPort, m.token, ses[p].game)}
                          /\ ses'[p].token = m.token
    BY <1>10 DEF GuestEnters
  <2>2. ses'[p].client = hand[p] /\ ses'[p].game = ses[p].game /\ ~ses[p].role /\ ses'[p].role = ses[p].role
    BY <1>1, <1>10 DEF GuestEnters, Connects, Shape
  <2>3. Greeting(p)' = Hello(hand[p], HostPort, m.token, ses[p].game)
    BY <2>1, <2>2 DEF Greeting, Link, Hello, HostPort
  <2> QED
    BY <1>10, <2>1, <2>3 DEF Greeted
<1>11. CASE q = p /\ HostEnters(p)
  <2>1. PICK m \in mail : Admits(p, m) /\ ses'[p].peer = m.from
    BY <1>11 DEF HostEnters
  <2>2. ses'[p].token = ses[p].token /\ ses'[p].game = ses[p].game /\ ses[p].role /\ ses'[p].role = ses[p].role
    BY <1>11 DEF HostEnters, Connects, Offering
  <2>3. m \in Question
    BY <1>1, <2>1, PortApart DEF Admits, Reply
  <2>4. m = Hello(m.from, HostPort, ses[p].token, ses[p].game)
    BY <2>1, <2>3 DEF Admits, Hello, Question
  <2>5. Greeting(p)' = m
    BY <2>1, <2>2, <2>4 DEF Greeting, Link, Hello, HostPort
  <2> QED
    BY <1>2, <1>11, <2>5 DEF Greeted
<1> QED
  BY <1>5, <1>6, <1>7, <1>8, <1>9, <1>10, <1>11, Turns DEF Sane, ConnInv

LEMMA WordsNext == Sane /\ Words /\ [Next]_vars => Words'
<1> SUFFICES ASSUME Sane, Words, [Next]_vars PROVE Words'
  OBVIOUS
<1>1. ASSUME NEW p \in Machines, Machine(p) PROVE Words'
  <2>1. TokensDrawn'
    BY <1>1, TokensNext DEF Words, MailSound
  <2>2. MailSound'
    BY <1>1, MailNext DEF Words
  <2>3. \A q \in Machines : Greeted(q)'
    BY <1>1, GreetedNext
  <2> QED
    BY <2>1, <2>2, <2>3 DEF Words
<1>2. ASSUME UNCHANGED <<mode, ses, mail, owner, said>> PROVE Words'
  <2>1. TokensDrawn'
    BY <1>2 DEF Words, TokensDrawn
  <2>2. MailSound'
    <3>1. owner \in Seq(Machines)
      BY DEF Sane, Shapely, Types, WireTypes
    <3>2. Len(owner') \in Nat /\ Len(owner') >= Len(owner) /\ said \subseteq said'
      BY <1>2, <3>1
    <3> QED
      BY <1>2, <3>1, <3>2, MailSame DEF Words
  <2>3. ASSUME NEW q \in Machines PROVE Greeted(q)'
    BY <1>2 DEF Words, Greeted, Greeting, Link, Hello, HostPort, Direct
  <2> QED
    BY <2>1, <2>2, <2>3 DEF Words
<1> QED
  BY <1>1, <1>2 DEF Next, ConnectThread, Announce, vars, netVars

-----------------------------------------------------------------------------
(* Direct sessions: the pace. *)
(* A guest and its host are within the delay of each other. *)
Guest(q) == Direct /\ ses[q].state = "connected" /\ ~ses[q].role
NotAhead(q) == ses[q].token = ses[Host].token => ses[q].frames <= ses[Host].frames + Delay
NotBehind(q) ==
    ses[Host].state = "connected" /\ ses[Host].peer = ses[q].client => ses[Host].frames <= ses[q].frames + Delay
Pace == \A q \in Machines : Guest(q) => NotAhead(q) /\ NotBehind(q)

LEMMA GreetingSecond ==
    ASSUME Sane, Words, NEW p \in Machines, Direct, ses[p].state = "connected"
    PROVE  /\ Greeting(p) \in mail /\ Second(Greeting(p)) /\ Greeting(p).from = Link(p)
           /\ Greeting(p).token = ses[p].token /\ Greeting(p).game = ses[p].game
           /\ SecondIs(Greeting(p))
<1>1. PICK m : m = Greeting(p)
  OBVIOUS
<1>2. m.from = Link(p) /\ m.to = HostPort /\ m.token = ses[p].token /\ m.game = ses[p].game
  BY <1>1, HelloIs DEF Greeting
<1>3. m \in mail
  BY <1>1 DEF Words, Greeted
<1>4. ses[p].token # 0
  BY Here DEF Sane, Shape
<1>5. Second(m)
  BY <1>2, <1>4 DEF Second
<1> QED
  BY <1>1, <1>2, <1>3, <1>5 DEF Words, MailSound

LEMMA ClientsOwn ==
    ASSUME Sane, NEW p \in Machines, ses[p].client # None
    PROVE  ses[p].client \in Sockets /\ ses[p].client[1] = p
<1>1. ses[p].client \in Mine(p)
  BY DEF Mine
<1> QED
  BY <1>1, Owned DEF Sane, ConnInv

LEMMA GuestIs ==
    ASSUME Sane, NEW q \in Machines, Guest(q)
    PROVE  q # Host /\ ses[q].token # 0 /\ ses[q].client # None /\ ses[q].peer = None
BY Here DEF Sane, Shape, Guest

(* A socket a host has let in is one its guest plays on. *)
LEMMA LinkedHow ==
    ASSUME Sane, Words, NEW p \in Machines, NEW r \in Machines, ses[p].state = "connected",
           ses[r].state = "connected", ses[p].peer # None, ses[p].peer = ses[r].client
    PROVE  /\ Direct /\ p = Host /\ Guest(r)
           /\ ses[p].token = ses[r].token /\ ses[p].game = ses[r].game
<1>1. Direct /\ ses[p].role /\ p = Host
  BY Here DEF Sane, Shape
<1>2. /\ Greeting(p) \in mail /\ Second(Greeting(p)) /\ Greeting(p).from = ses[p].peer
      /\ Greeting(p).token = ses[p].token /\ Greeting(p).game = ses[p].game
      /\ SecondIs(Greeting(p))
  BY <1>1, GreetingSecond DEF Link
<1>3. ~ses[r].role
  <2>1. ses[p].peer[1] # Host
    BY <1>2 DEF SecondIs
  <2>2. ses[r].client[1] = r
    BY ClientsOwn
  <2>3. ses[r].role => r = Host
    BY <1>1, Here DEF Sane, Shape
  <2> QED
    BY <2>1, <2>2, <2>3
<1>4. /\ Greeting(r) \in mail /\ Second(Greeting(r)) /\ Greeting(r).from = ses[r].client
      /\ Greeting(r).token = ses[r].token /\ Greeting(r).game = ses[r].game
  BY <1>1, <1>3, GreetingSecond DEF Link
<1>5. Greeting(p) = Greeting(r)
  BY <1>2, <1>4 DEF Words, MailSound
<1> QED
  BY <1>1, <1>2, <1>3, <1>4, <1>5 DEF Guest

LEMMA Together ==
    ASSUME Sane, Words, Pace PROVE SameSession
<1>1. ASSUME NEW p \in Machines, NEW r \in Machines, Exchanging(p), Exchanging(r), ses[p].peer # None,
             ses[p].peer = ses[r].client
      PROVE  /\ ses[p].token = ses[r].token /\ ses[p].game = ses[r].game
             /\ ses[p].frames <= ses[r].frames + Delay /\ ses[r].frames <= ses[p].frames + Delay
  <2>1. /\ Direct /\ p = Host /\ Guest(r)
        /\ ses[p].token = ses[r].token /\ ses[p].game = ses[r].game
        /\ ses[p].state = "connected"
    BY <1>1, LinkedHow DEF Exchanging
  <2>2. NotAhead(r) /\ NotBehind(r)
    BY <2>1 DEF Pace
  <2> QED
    BY <1>1, <2>1, <2>2 DEF NotAhead, NotBehind
<1> QED
  BY <1>1 DEF SameSession, Linked

LEMMA PaceKeeps ==
    ASSUME Sane, Words, Pace, NEW p \in Machines, Exchange(p), Direct, NEW q \in Machines, Guest(q),
           p = q \/ (p = Host /\ ses[Host].peer = ses[q].client)
    PROVE  /\ p = q /\ ses[q].token = ses[Host].token => ses[q].frames + 1 <= ses[Host].frames + Delay
           /\ p = Host => ses[Host].frames + 1 <= ses[q].frames + Delay
<1>1. /\ \A r \in Machines : ses[r].frames \in Nat /\ Delay \in Nat
      /\ ses[p].state = "connected" /\ ~ses[p].relayed /\ Host \in Machines
  BY Here, SessionAssumption DEF Sane, Session, Shape, Exchange, Exchanging
<1>2. q # Host /\ ses[q].client # None /\ ses[q].peer = None
  BY GuestIs
<1>3. CASE ses[p].frames < Delay
  BY <1>1, <1>2, <1>3
<1>4. ASSUME NEW r \in Machines, Linked(p, r), Exchanging(r), ses[r].frames + Delay > ses[p].frames
      PROVE  p = q => ses[q].frames + 1 <= ses[Host].frames + Delay
  <2> SUFFICES ASSUME p = q PROVE ses[q].frames + 1 <= ses[Host].frames + Delay
    OBVIOUS
  <2>1. ses[r].peer # None /\ ses[r].peer = ses[p].client /\ ses[r].state = "connected"
    BY <1>2, <1>4 DEF Linked, Exchanging
  <2>2. r = Host
    BY <1>1, <2>1, LinkedHow
  <2> QED
    BY <1>1, <1>4, <2>2
<1>5. ASSUME NEW r \in Machines, Linked(p, r), Exchanging(r), ses[r].frames + Delay > ses[p].frames
      PROVE  p = Host => ses[Host].frames + 1 <= ses[q].frames + Delay
  <2> SUFFICES ASSUME p = Host PROVE ses[Host].frames + 1 <= ses[q].frames + Delay
    OBVIOUS
  <2>0. ses[Host].peer = ses[q].client /\ ses[r].state = "connected"
    BY <1>2, <1>5 DEF Exchanging
  <2>1. CASE ses[r].peer # None /\ ses[r].peer = ses[p].client
    <3>1. Guest(p)
      BY <1>1, <2>0, <2>1, LinkedHow
    <3> QED
      BY <3>1, GuestIs
  <2>2. CASE ses[p].peer # None /\ ses[p].peer = ses[r].client
    <3>1. ses[r].client = ses[q].client
      BY <2>0, <2>2
    <3>2. r = q
      BY <1>2, <3>1, ClientsOwn
    <3> QED
      BY <1>1, <1>5, <3>2
  <2> QED
    BY <1>5, <2>1, <2>2 DEF Linked
<1>6. ses[p].frames < Delay \/ \E r \in Machines : Linked(p, r) /\ Exchanging(r) /\ ses[r].frames + Delay > ses[p].frames
  BY <1>1 DEF Exchange, PeerInput
<1> QED
  BY <1>2, <1>3, <1>4, <1>5, <1>6

LEMMA PaceHost ==
    ASSUME Sane, Sane', Words, Pace, Machine(Host), NEW q \in Machines, Guest(q)', mode' = mode
    PROVE  NotAhead(q)' /\ NotBehind(q)'
<1>1. /\ \A r \in Machines : ses[r] \in Session /\ ses'[r] \in Session
      /\ Host \in Machines /\ Delay \in Nat /\ owner \in Seq(Machines)
  BY Here, SessionAssumption DEF Sane, Shapely, Types, WireTypes
<1>2. q # Host /\ ses'[q] = ses[q] /\ Direct
  <2>1. Direct /\ q # Host
    BY Here DEF Sane, Shapely, Shape, Guest, Direct
  <2> QED
    BY <1>1, <2>1, Local DEF Sane
<1>3. Guest(q) /\ NotAhead(q) /\ NotBehind(q) /\ ses[q].token # 0
  BY <1>2, GuestIs DEF Guest, Direct, Pace
<1>4. /\ \A r \in Machines : ses[r].frames \in Nat /\ ses[r].token \in Nat
      /\ ses'[Host].frames \in Nat /\ ses[q].token <= Len(owner)
  BY <1>1 DEF Session, Words, TokensDrawn
<1>5. (ses[Host].state # "connected" => ses[Host].frames = 0) /\ (ses'[Host].state # "connected" => ses'[Host].frames = 0)
  BY <1>1 DEF Sane, Shapely, Shape
<1>6. CASE Still(Host)
  BY <1>2, <1>3, <1>6 DEF Still, NotAhead, NotBehind
<1>7. CASE Quits(Host)
  <2>1. ses'[Host].state # "connected" /\ ses'[Host].frames = 0
    BY <1>5, <1>7 DEF Quits, Outside, Leaves
  <2>2. ses'[Host].token = 0 \/ (ses'[Host].token = ses[Host].token /\ ses[Host].frames = 0)
    BY <1>5, <1>7 DEF Quits, Outside, Leaves
  <2> QED
    BY <1>1, <1>2, <1>3, <1>4, <2>1, <2>2 DEF NotAhead, NotBehind
<1>8. CASE Draws(Host)
  <2>1. Len(owner) \in Nat /\ Len(owner') = Len(owner) + 1
    BY <1>1, <1>8 DEF Draws
  <2> QED
    BY <1>2, <1>4, <1>8, <2>1 DEF Draws, NotAhead, NotBehind
<1>9. CASE Plays(Host)
  <2>1. PICK h : ses'[Host] = [ses[Host] EXCEPT !.frames = @ + 1, !.hello = h]
    BY <1>9 DEF Plays
  <2>2. PICK n : n = [ses[Host] EXCEPT !.frames = @ + 1, !.hello = h]
    OBVIOUS
  <2>3. /\ n.frames = ses[Host].frames + 1 /\ n.state = ses[Host].state /\ n.token = ses[Host].token
        /\ n.peer = ses[Host].peer /\ ses'[Host] = n
    BY <1>1, <2>1, <2>2 DEF Session
  <2>4. ses[Host].peer = ses[q].client => ses[Host].frames + 1 <= ses[q].frames + Delay
    BY <1>1, <1>2, <1>3, <1>9, PaceKeeps DEF Plays
  <2>5. /\ ses'[Host].frames = ses[Host].frames + 1 /\ ses'[Host].state = ses[Host].state
        /\ ses'[Host].token = ses[Host].token /\ ses'[Host].peer = ses[Host].peer
    BY <2>3
  <2>6. NotAhead(q)'
    BY <1>1, <1>2, <1>3, <1>4, <2>5 DEF NotAhead
  <2>7. NotBehind(q)'
    BY <1>2, <2>4, <2>5 DEF NotBehind
  <2> QED
    BY <2>6, <2>7
<1>10. CASE Begins(Host)
  <2>1. PICK n : n = [ses[Host] EXCEPT !.start = FALSE]
    OBVIOUS
  <2>2. /\ n.frames = ses[Host].frames /\ n.state = ses[Host].state /\ n.token = ses[Host].token
        /\ n.peer = ses[Host].peer /\ ses'[Host] = n
    BY <1>1, <1>10, <2>1 DEF Session, Begins
  <2> QED
    BY <1>2, <1>3, <2>2 DEF NotAhead, NotBehind
<1>11. CASE HostEnters(Host)
  <2>1. ses'[Host].frames = 0 /\ ses'[Host].token = ses[Host].token /\ ses[Host].state # "connected"
    BY <1>11 DEF HostEnters, Connects
  <2> QED
    BY <1>1, <1>2, <1>3, <1>4, <1>5, <2>1 DEF NotAhead, NotBehind
<1>12. ~GuestEnters(Host) /\ ~RelayEnters(Host)
  BY <1>2 DEF GuestEnters, RelayEnters
<1> QED
  BY <1>1, <1>6, <1>7, <1>8, <1>9, <1>10, <1>11, <1>12, Turns DEF Sane, ConnInv

LEMMA PaceGuest ==
    ASSUME Sane, Sane', Words, Pace, NEW p \in Machines \ {Host}, Machine(p), Guest(p)', mode' = mode
    PROVE  NotAhead(p)' /\ NotBehind(p)'
<1>1. /\ \A r \in Machines : ses[r] \in Session /\ ses'[r] \in Session
      /\ Host \in Machines /\ Delay \in Nat
  BY Here, SessionAssumption DEF Sane, Shapely, Types, WireTypes
<1>2. ses'[Host] = ses[Host] /\ Direct
  BY <1>1, Local DEF Sane, Guest, Direct
<1>3. \A r \in Machines : ses[r].frames \in Nat
  BY <1>1 DEF Session
<1>4. ASSUME Guest(p) PROVE NotAhead(p) /\ NotBehind(p)
  BY <1>4 DEF Pace
<1>6. CASE Still(p)
  BY <1>2, <1>4, <1>6 DEF Still, NotAhead, NotBehind, Guest, Direct
<1>7. ~Quits(p) /\ ~Draws(p) /\ ~RelayEnters(p)
  BY <1>2 DEF Quits, Outside, Leaves, Draws, RelayEnters, Guest
<1>8. ~HostEnters(p)
  BY <1>2, Here DEF HostEnters, Offering, Shape, Sane
<1>9. CASE Plays(p)
  <2>1. PICK h : ses'[p] = [ses[p] EXCEPT !.frames = @ + 1, !.hello = h]
    BY <1>9 DEF Plays
  <2>2. PICK n : n = [ses[p] EXCEPT !.frames = @ + 1, !.hello = h]
    OBVIOUS
  <2>3. /\ n.frames = ses[p].frames + 1 /\ n.state = ses[p].state /\ n.token = ses[p].token
        /\ n.client = ses[p].client /\ (n.role <=> ses[p].role) /\ ses'[p] = n
    BY <1>1, <2>1, <2>2 DEF Session
  <2>4. Guest(p)
    BY <1>2, <2>3 DEF Guest
  <2>5. ses[p].token = ses[Host].token => ses[p].frames + 1 <= ses[Host].frames + Delay
    BY <1>1, <1>2, <1>9, <2>4, PaceKeeps DEF Plays
  <2> QED
    BY <1>1, <1>2, <1>3, <1>4, <2>3, <2>4, <2>5 DEF NotAhead, NotBehind
<1>10. CASE Begins(p)
  <2>1. PICK n : n = [ses[p] EXCEPT !.start = FALSE]
    OBVIOUS
  <2>2. /\ n.frames = ses[p].frames /\ n.state = ses[p].state /\ n.token = ses[p].token
        /\ n.client = ses[p].client /\ (n.role <=> ses[p].role) /\ ses'[p] = n
    BY <1>1, <1>10, <2>1 DEF Session, Begins
  <2>3. Guest(p)
    BY <1>2, <2>2 DEF Guest
  <2> QED
    BY <1>2, <1>4, <2>2, <2>3 DEF NotAhead, NotBehind
<1>11. CASE GuestEnters(p)
  <2>1. ses'[p].frames = 0 /\ ses'[p].client = hand[p] /\ at[p] = "hello"
    BY <1>11 DEF GuestEnters, Connects
  <2>2. ses[Host].state = "connected" => ses[Host].peer # hand[p]
    <3> SUFFICES ASSUME ses[Host].state = "connected", ses[Host].peer = hand[p] PROVE FALSE
      OBVIOUS
    <3>1. hand[p] # None /\ hand[p] \in Mine(p)
      BY <2>1, Here DEF Sane, Standing, Mine
    <3>2. hand[p] \in Sockets /\ hand[p][1] = p
      BY <3>1, Owned DEF Sane, ConnInv
    <3>3. Unused(hand[p])
      BY <3>2 DEF Unused
    <3>4. ses[Host].role
      BY <1>1, <1>2, <3>1, Here DEF Sane, Shape
    <3>5. Greeting(Host).from = hand[p] /\ SecondIs(Greeting(Host))
      BY <1>1, <1>2, <3>4, GreetingSecond DEF Link
    <3> QED
      BY <3>3, <3>5 DEF SecondIs
  <2> QED
    BY <1>1, <1>2, <1>3, <2>1, <2>2 DEF NotAhead, NotBehind
<1> QED
  BY <1>6, <1>7, <1>8, <1>9, <1>10, <1>11, Turns DEF Sane, ConnInv

LEMMA PaceNext == Sane /\ Words /\ Pace /\ [Next]_vars => Pace'
<1> SUFFICES ASSUME Sane, Words, Pace, [Next]_vars, NEW q \in Machines, Guest(q)' PROVE NotAhead(q)' /\ NotBehind(q)'
  BY DEF Pace
<1>0. Sane' /\ mode' = mode
  BY SaneNext, ModeFixed
<1>1. CASE Machine(Host)
  BY <1>0, <1>1, PaceHost
<1>2. ASSUME NEW p \in Machines, p # Host, Machine(p) PROVE NotAhead(q)' /\ NotBehind(q)'
  <2>1. CASE q = p
    BY <1>0, <1>2, <2>1, PaceGuest
  <2>2. CASE q # p
    <3>1. ses'[q] = ses[q] /\ ses'[Host] = ses[Host]
      BY <1>2, <2>2, Local, SessionAssumption DEF Sane
    <3> QED
      BY <1>0, <3>1 DEF Pace, Guest, Direct, NotAhead, NotBehind
  <2> QED
    BY <2>1, <2>2
<1>3. CASE UNCHANGED ses
  BY <1>0, <1>3 DEF Pace, Guest, Direct, NotAhead, NotBehind
<1> QED
  BY <1>1, <1>2, <1>3 DEF Next, ConnectThread, Announce, vars

-----------------------------------------------------------------------------
(* Sessions over the relay. *)
(* What waits in a queue, and in which order. *)
In(c, f) == \E i \in 1..Len(c) : c[i] \in f
After(c, f, g) == \A j \in 1..Len(c) : c[j] \in f => \E i \in 1..(j-1) : c[i] \in g

LEMMA Appended ==
    ASSUME NEW c \in Seq(Frames), NEW x \in Frames, NEW f, NEW g
    PROVE  /\ Append(c, x) \in Seq(Frames)
           /\ In(Append(c, x), f) <=> In(c, f) \/ x \in f
           /\ After(c, f, g) /\ (x \in f => In(c, g)) => After(Append(c, x), f, g)
<1>1. /\ Append(c, x) \in Seq(Frames) /\ Len(Append(c, x)) = Len(c) + 1 /\ Len(c) \in Nat
      /\ \A i \in 1..Len(c) : Append(c, x)[i] = c[i]
      /\ Append(c, x)[Len(c) + 1] = x
  OBVIOUS
<1> DEFINE d == Append(c, x)
<1> HIDE DEF d
<1>2. In(d, f) <=> In(c, f) \/ x \in f
  BY <1>1 DEF In, d
<1>3. ASSUME After(c, f, g), x \in f => In(c, g), NEW j \in 1..Len(d), d[j] \in f
      PROVE  \E i \in 1..(j-1) : d[i] \in g
  <2>1. CASE j \in 1..Len(c)
    <3>1. PICK i \in 1..(j-1) : c[i] \in g
      BY <1>1, <1>3, <2>1 DEF After, d
    <3> QED
      BY <1>1, <2>1, <3>1 DEF d
  <2>2. CASE j = Len(c) + 1
    <3>1. PICK i \in 1..Len(c) : c[i] \in g
      BY <1>1, <1>3, <2>2 DEF In, d
    <3> QED
      BY <1>1, <2>2, <3>1 DEF d
  <2> QED
    BY <1>1, <2>1, <2>2 DEF d
<1> QED
  BY <1>1, <1>2, <1>3 DEF After, d

LEMMA Taken ==
    ASSUME NEW c \in Seq(Frames), c # <<>>, NEW f, NEW g
    PROVE  /\ Tail(c) \in Seq(Frames) /\ Head(c) \in Frames
           /\ In(Tail(c), f) => In(c, f)
           /\ In(c, f) /\ Head(c) \notin f => In(Tail(c), f)
           /\ Head(c) \in f => In(c, f)
           /\ After(c, f, g) => Head(c) \notin f
           /\ After(c, f, g) /\ Head(c) \notin g => After(Tail(c), f, g)
<1>1. /\ Tail(c) \in Seq(Frames) /\ Head(c) = c[1] /\ Len(c) \in Nat \ {0} /\ Len(Tail(c)) = Len(c) - 1
      /\ \A i \in 1..(Len(c) - 1) : Tail(c)[i] = c[i + 1]
      /\ Head(c) \in Frames
  OBVIOUS
<1> DEFINE d == Tail(c)
<1> HIDE DEF d
<1>2. ASSUME In(d, f) PROVE In(c, f)
  <2>1. PICK i \in 1..Len(d) : d[i] \in f
    BY <1>2 DEF In
  <2>2. i + 1 \in 1..Len(c) /\ c[i + 1] \in f
    BY <1>1, <2>1 DEF d
  <2> QED
    BY <2>2 DEF In
<1>3. ASSUME In(c, f), Head(c) \notin f PROVE In(d, f)
  <2>1. PICK i \in 1..Len(c) : c[i] \in f
    BY <1>3 DEF In
  <2>2. i # 1
    BY <1>1, <1>3, <2>1
  <2>3. i - 1 \in 1..Len(d) /\ d[i - 1] = c[(i - 1) + 1]
    BY <1>1, <2>1, <2>2 DEF d
  <2>4. d[i - 1] \in f
    BY <1>1, <2>1, <2>3
  <2> QED
    BY <2>3, <2>4 DEF In
<1>4. Head(c) \in f => In(c, f)
  BY <1>1 DEF In
<1>5. After(c, f, g) => Head(c) \notin f
  BY <1>1 DEF After
<1>6. ASSUME After(c, f, g), Head(c) \notin g, NEW j \in 1..Len(d), d[j] \in f
      PROVE  \E i \in 1..(j-1) : d[i] \in g
  <2>1. j + 1 \in 1..Len(c) /\ c[j + 1] \in f
    BY <1>1, <1>6 DEF d
  <2>2. PICK i \in 1..((j + 1) - 1) : c[i] \in g
    BY <1>6, <2>1 DEF After
  <2>3. i # 1
    BY <1>1, <1>6, <2>2
  <2>4. i - 1 \in 1..(j-1) /\ d[i - 1] = c[(i - 1) + 1]
    BY <1>1, <1>6, <2>2, <2>3 DEF d
  <2>5. d[i - 1] \in g
    BY <1>1, <2>2, <2>4
  <2> QED
    BY <2>4, <2>5
<1> QED
  BY <1>1, <1>2, <1>3, <1>4, <1>5, <1>6 DEF After, d

-----------------------------------------------------------------------------
(* Who sits in the relay's room, and what waits for them. *)
Seats ==
    /\ Len(room.seats) <= 2
    /\ room.ready => Len(room.seats) = 2
    /\ \A i \in 1..Len(room.seats) : \E p \in Machines : ses[p].relayed /\ ses[p].client = room.seats[i]
    /\ \A i, j \in 1..Len(room.seats) : room.seats[i] = room.seats[j] => i = j
    /\ \A x \in Sockets : Unused(x) => queue[x] = <<>>

WaitsFor(p) == ses[p].state = "relay waiting"
Beyond(q) == at[q] = "checking" \/ (ses[q].state = "connected" /\ ses[q].relayed)
Mail(p) == queue[ses[p].client]

ReadyOnly == \A s \in Sockets : Seated(s) /\ In(queue[s], {"ready"}) => room.ready

(* A player who waits reads that it is paired, then the game, then input. *)
Waiter(p) ==
    WaitsFor(p) =>
      /\ After(Mail(p), {"input"}, Games)
      /\ at[p] # "checking" => After(Mail(p), Games, {"ready"})
      /\ room.ready /\ Seated(ses[p].client) /\ at[p] # "checking" => In(Mail(p), {"ready"})

(* Who is past that has sent the other its game. *)
Met(q) ==
    Beyond(q) /\ Seated(ses[q].client) =>
      /\ room.ready
      /\ \A p \in Machines \ {q} : WaitsFor(p) /\ Seated(ses[p].client) => In(Mail(p), Games)

(* Whatever game waits to be read, or was told, has been named. *)
Heard(s) ==
    \A i \in 1..Len(queue[s]) : queue[s][i] \in Games =>
        \E q \in Machines : q # s[1] /\ [by |-> q, token |-> 0, game |-> queue[s][i]] \in said
Spoken(p) == at[p] = "checking" => [by |-> p, token |-> 0, game |-> ses[p].game] \in said

Paired ==
    /\ Seats /\ ReadyOnly
    /\ \A p \in Machines : Waiter(p) /\ Met(p) /\ Spoken(p)
    /\ \A s \in Sockets : Heard(s)

LEMMA HeardAppended ==
    ASSUME NEW s \in Sockets, queue[s] \in Seq(Frames), NEW x \in Frames, Heard(s), said \subseteq said',
           queue'[s] = queue[s] \/ queue'[s] = Append(queue[s], x),
           x \in Games => \E q \in Machines : q # s[1] /\ [by |-> q, token |-> 0, game |-> x] \in said'
    PROVE  Heard(s)'
<1>1. /\ Len(Append(queue[s], x)) = Len(queue[s]) + 1 /\ Len(queue[s]) \in Nat
      /\ \A i \in 1..Len(queue[s]) : Append(queue[s], x)[i] = queue[s][i]
      /\ Append(queue[s], x)[Len(queue[s]) + 1] = x
  OBVIOUS
<1>2. CASE queue'[s] = queue[s]
  BY <1>2 DEF Heard
<1>3. CASE queue'[s] = Append(queue[s], x)
  <2>1. ASSUME NEW i \in 1..Len(queue[s]) PROVE queue'[s][i] = queue[s][i]
    BY <1>1, <1>3
  <2>2. queue'[s][Len(queue[s]) + 1] = x /\ Len(queue'[s]) = Len(queue[s]) + 1
    BY <1>1, <1>3
  <2>3. \A i \in 1..Len(queue'[s]) : i \in 1..Len(queue[s]) \/ i = Len(queue[s]) + 1
    BY <1>1, <2>2
  <2> QED
    BY <2>1, <2>2, <2>3 DEF Heard
<1> QED
  BY <1>2, <1>3

LEMMA HeardTaken ==
    ASSUME NEW s \in Sockets, queue[s] \in Seq(Frames), queue[s] # <<>>, Heard(s), said \subseteq said',
           queue'[s] = Tail(queue[s])
    PROVE  Heard(s)'
<1>1. /\ Len(queue[s]) \in Nat \ {0} /\ Len(Tail(queue[s])) = Len(queue[s]) - 1
      /\ \A i \in 1..(Len(queue[s]) - 1) : Tail(queue[s])[i] = queue[s][i + 1] /\ i + 1 \in 1..Len(queue[s])
  OBVIOUS
<1> QED
  BY <1>1 DEF Heard

LEMMA OtherIs ==
    ASSUME Seats, room.seats \in Seq(Sockets), NEW s, Seated(s), Len(room.seats) = 2
    PROVE  /\ Other(s) \in Sockets /\ Other(s) # s /\ Seated(Other(s))
           /\ \A x : Seated(x) => x \in {s, Other(s)}
           /\ \E q \in Machines : ses[q].relayed /\ ses[q].client = Other(s)
<1>7. /\ DOMAIN room.seats = 1..2
      /\ \A i, j \in 1..2 : room.seats[i] = room.seats[j] => i = j
  BY DEF Seats
<1>1. /\ DOMAIN room.seats = 1..2 /\ room.seats[1] # room.seats[2]
      /\ room.seats[1] \in Sockets /\ room.seats[2] \in Sockets
  BY <1>7
<1>2. \E x \in {room.seats[i] : i \in DOMAIN room.seats} : x # s
  <2>1. /\ room.seats[1] \in {room.seats[i] : i \in DOMAIN room.seats}
        /\ room.seats[2] \in {room.seats[i] : i \in DOMAIN room.seats}
    BY <1>1
  <2>2. room.seats[1] # s \/ room.seats[2] # s
    BY <1>1
  <2> QED
    BY <2>1, <2>2
<1>3. Other(s) \in {room.seats[i] : i \in DOMAIN room.seats} /\ Other(s) # s
  BY <1>2 DEF Other
<1>4. Other(s) \in Sockets /\ Other(s) # s /\ Seated(Other(s))
  BY <1>1, <1>3 DEF Seated
<1>5. \A x : Seated(x) => x \in {s, Other(s)}
  BY <1>1, <1>3 DEF Seated
<1>6. \E q \in Machines : ses[q].relayed /\ ses[q].client = Other(s)
  BY <1>4 DEF Seated, Seats
<1> QED
  BY <1>4, <1>5, <1>6

(* A queue that is as it was, or one frame longer. *)
Longer(c, d, x) == d = c \/ d = Append(c, x)

LEMMA Grown ==
    ASSUME NEW c \in Seq(Frames), NEW x \in Frames, NEW d, Longer(c, d, x), NEW f, NEW g
    PROVE  /\ d \in Seq(Frames)
           /\ In(c, f) => In(d, f)
           /\ x \notin f /\ In(d, f) => In(c, f)
           /\ After(c, f, g) /\ (x \in f => In(c, g)) => After(d, f, g)
<1>1. CASE d = c
  BY <1>1
<1>2. CASE d = Append(c, x)
  BY <1>2, Appended
<1> QED
  BY <1>1, <1>2 DEF Longer

LEMMA PairedQuiet ==
    ASSUME Sane, Paired, [Next]_vars, NEW p \in Machines, Goes(p), UNCHANGED <<room, queue>>, said \subseteq said',
           ses[p].relayed /\ Seated(ses[p].client) => ses'[p].relayed /\ ses'[p].client = ses[p].client,
           WaitsFor(p)' => /\ WaitsFor(p) /\ ses'[p].client = ses[p].client
                           /\ (at'[p] = "checking" <=> at[p] = "checking"),
           Beyond(p)' => Beyond(p) /\ ses'[p].client = ses[p].client,
           at'[p] = "checking" => at[p] = "checking" /\ ses'[p].game = ses[p].game
    PROVE  Paired'
<1>1. Seats'
  <2>1. ASSUME NEW i \in 1..Len(room.seats)
        PROVE  \E q \in Machines : ses'[q].relayed /\ ses'[q].client = room.seats[i]
    <3>1. PICK q \in Machines : ses[q].relayed /\ ses[q].client = room.seats[i]
      BY DEF Paired, Seats
    <3>2. q = p => Seated(ses[p].client)
      BY <3>1 DEF Seated
    <3> QED
      BY <3>1, <3>2 DEF Goes
  <2>2. \A x \in Sockets : Unused(x)' => queue'[x] = <<>>
    BY UnusedShrinks DEF Paired, Seats
  <2> QED
    BY <2>1, <2>2 DEF Paired, Seats
<1>2. ReadyOnly'
  BY DEF Paired, ReadyOnly, Seated
<1>3. ASSUME NEW q \in Machines PROVE Waiter(q)'
  <2>1. Waiter(q) /\ (WaitsFor(q)' => /\ WaitsFor(q) /\ ses'[q].client = ses[q].client
                                       /\ (at'[q] = "checking" <=> at[q] = "checking"))
    BY DEF Paired, Goes, WaitsFor
  <2> QED
    BY <2>1 DEF Waiter, Mail, Seated
<1>4. ASSUME NEW q \in Machines PROVE Met(q)'
  <2>1. Met(q)
    BY DEF Paired
  <2>2. Beyond(q)' => Beyond(q) /\ ses'[q].client = ses[q].client
    BY DEF Goes, Beyond
  <2>3. \A r \in Machines : WaitsFor(r)' => WaitsFor(r) /\ ses'[r].client = ses[r].client
    BY DEF Goes, WaitsFor
  <2> QED
    BY <2>1, <2>2, <2>3 DEF Met, Mail, Seated
<1>5. ASSUME NEW q \in Machines PROVE Spoken(q)'
  BY DEF Paired, Spoken, Goes
<1>6. ASSUME NEW s \in Sockets PROVE Heard(s)'
  BY DEF Paired, Heard
<1> QED
  BY <1>1, <1>2, <1>3, <1>4, <1>5, <1>6 DEF Paired

(* A seat taken is a player's, and one that has been used. *)
LEMMA SeatIs ==
    ASSUME Sane, Seats, NEW s, Seated(s)
    PROVE  s \in Sockets /\ ~Unused(s) /\ \E q \in Machines : q = s[1] /\ ses[q].relayed /\ ses[q].client = s
<1>1. PICK q \in Machines : ses[q].relayed /\ ses[q].client = s
  BY DEF Seats, Seated
<1>2. s # None
  <2>1. room.seats \in Seq(Sockets)
    BY DEF Sane, Shapely, Types, WireTypes
  <2> QED
    BY <2>1, PortApart DEF Seated
<1>3. s \in Mine(q) /\ Holding(q)
  BY <1>1, <1>2 DEF Mine, Sane, Held
<1>4. s \in Sockets /\ s[1] = q
  BY <1>1, <1>2, ClientsOwn
<1>5. ~Unused(s)
  <2>1. /\ born[q] \in Nat /\ s \in {q} \X (1..born[q])
    BY <1>3 DEF Holding, Drawn, Sane, ConnInv, ConnTypeOK
  <2>2. ~(s[2] > born[q])
    BY <2>1
  <2>3. s # conn[q].sock
    BY <1>2, <1>3 DEF Holding
  <2>4. \A u \in threads : SocketOf(u) # s
    BY <1>3, <1>4 DEF Holding, SocketOf
  <2>5. s # hand[q]
    <3>1. Shape(q, ses[q]) /\ Standing(q, ses[q], at[q], hand[q])
      BY Here DEF Sane
    <3> QED
      BY <1>1, <1>2, <3>1 DEF Shape, Standing
  <2> QED
    BY <1>4, <2>2, <2>3, <2>4, <2>5 DEF Unused
<1> QED
  BY <1>1, <1>4, <1>5

(* A session with the relay is dropped: the room goes with it. *)
LEMMA PairedDropped ==
    ASSUME Sane, Paired, [Next]_vars, NEW p \in Machines, Goes(p), Drop(p, {}), UNCHANGED said,
           ses' = [ses EXCEPT ![p] = Idle(@)], at'[p] # "checking"
    PROVE  Paired'
<1>1. /\ ses'[p].state = "idle" /\ ses'[p].client = None /\ ~ses'[p].relayed
      /\ queue \in [Sockets -> Seq(Frames)] /\ room.seats \in Seq(Sockets)
  <2>1. PICK n : n = Idle(ses[p])
    OBVIOUS
  <2>2. n.state = "idle" /\ n.client = None /\ ~n.relayed
    BY <2>1, IdleIs, Here DEF Sane
  <2> QED
    BY <2>1, <2>2, Here DEF Sane, WireTypes
<1>2. ~WaitsFor(p)' /\ ~Beyond(p)'
  BY <1>1 DEF WaitsFor, Beyond
<1>3. CASE ~(ses[p].relayed /\ Seated(ses[p].client))
  <2>1. UNCHANGED <<room, queue>>
    BY <1>3 DEF Drop, Hangup
  <2> QED
    BY <1>2, <1>3, <2>1, PairedQuiet
<1>4. CASE ses[p].relayed /\ Seated(ses[p].client)
  <2>1. PICK me : me = ses[p].client
    OBVIOUS
  <2>2. me \in Sockets /\ me[1] = p /\ Seated(me) /\ Hangup(me)
    BY <1>4, <2>1, SeatIs, ClientsOwn, PortApart DEF Paired, Drop
  <2>3. /\ room' = [seats |-> <<>>, ready |-> FALSE]
        /\ queue' = IF Len(room.seats) = 2
                    THEN [queue EXCEPT ![Other(me)] = Append(@, "bye"), ![me] = <<>>]
                    ELSE [queue EXCEPT ![me] = <<>>]
    BY <2>2 DEF Hangup
  <2>4. \A s : ~Seated(s)'
    BY <2>3 DEF Seated
  <2>5. queue'[me] = <<>>
    BY <1>1, <2>2, <2>3
  <2>6. ASSUME NEW s \in Sockets, s # me
        PROVE  queue'[s] = queue[s] \/ (queue'[s] = Append(queue[s], "bye") /\ ~Unused(s))
    <3>1. CASE Len(room.seats) # 2
      BY <1>1, <2>3, <2>6, <3>1
    <3>2. CASE Len(room.seats) = 2
      <4>1. Other(me) # me /\ Other(me) \in Sockets /\ ~Unused(Other(me))
        BY <1>1, <2>2, <3>2, OtherIs, SeatIs DEF Paired
      <4> QED
        BY <1>1, <2>3, <2>6, <3>2, <4>1
    <3> QED
      BY <3>1, <3>2
  <2>7. Seats'
    <3>1. \A x \in Sockets : Unused(x)' => queue'[x] = <<>>
      BY <2>5, <2>6, UnusedShrinks DEF Paired, Seats
    <3>2. room'.seats = <<>> /\ Len(room'.seats) = 0 /\ ~room'.ready
      BY <2>3
    <3>3. \A i : i \notin 1..Len(room'.seats)
      BY <3>2
    <3>4. Len(room'.seats) <= 2
      BY <3>2
    <3> QED
      BY <3>1, <3>2, <3>3, <3>4 DEF Seats
  <2>8. ReadyOnly'
    BY <2>4 DEF ReadyOnly
  <2>9. ASSUME NEW q \in Machines PROVE Waiter(q)'
    <3>1. CASE q = p
      BY <1>2, <3>1 DEF Waiter
    <3>2. CASE q # p /\ WaitsFor(q)
      <4>1. PICK c : c = ses[q].client
        OBVIOUS
      <4>2. c \in Sockets /\ c # me
        <5>1. c # None
          BY <3>2, <4>1, Here DEF WaitsFor, Sane, Shape
        <5> QED
          BY <2>2, <3>2, <4>1, <5>1, ClientsOwn
      <4>3. Waiter(q) /\ queue[c] \in Seq(Frames) /\ "bye" \in Frames /\ "bye" \notin {"input"} /\ "bye" \notin Games
        BY <1>1, <4>2, SessionAssumption DEF Paired, Frames
      <4>4. /\ After(queue[c], {"input"}, Games) => After(queue'[c], {"input"}, Games)
            /\ After(queue[c], Games, {"ready"}) => After(queue'[c], Games, {"ready"})
        <5>1. Longer(queue[c], queue'[c], "bye")
          BY <2>6, <4>2 DEF Longer
        <5> QED
          BY <4>3, <5>1, Grown
      <4>5. ses'[q] = ses[q] /\ at'[q] = at[q]
        BY <3>2 DEF Goes
      <4>6. /\ WaitsFor(q)' /\ Mail(q)' = queue'[c] /\ Mail(q) = queue[c] /\ ~Seated(ses[q].client)'
        BY <2>4, <3>2, <4>1, <4>5 DEF WaitsFor, Mail, Seated
      <4> QED
        BY <3>2, <4>3, <4>4, <4>5, <4>6 DEF Waiter
    <3>3. CASE q # p /\ ~WaitsFor(q)
      BY <3>3 DEF Goes, Waiter, WaitsFor
    <3> QED
      BY <3>1, <3>2, <3>3
  <2>10. ASSUME NEW q \in Machines PROVE Met(q)' /\ Spoken(q)'
    BY <2>4 DEF Met, Spoken, Goes, Paired
  <2>11. ASSUME NEW s \in Sockets PROVE Heard(s)'
    <3>1. "bye" \in Frames /\ "bye" \notin Games /\ queue[s] \in Seq(Frames) /\ Heard(s)
      BY <1>1, SessionAssumption DEF Frames, Paired
    <3>2. CASE s = me
      BY <2>5, <3>2 DEF Heard
    <3>3. CASE s # me
      BY <2>6, <3>1, <3>3, HeardAppended
    <3> QED
      BY <3>2, <3>3
  <2> QED
    BY <2>7, <2>8, <2>9, <2>10, <2>11 DEF Paired
<1> QED
  BY <1>3, <1>4

LEMMA ClientUsed ==
    ASSUME Sane, NEW p \in Machines, ses[p].client # None
    PROVE  ses[p].client \in Sockets /\ ses[p].client[1] = p /\ ~Unused(ses[p].client)
<1>1. PICK s : s = ses[p].client
  OBVIOUS
<1>3. s \in Mine(p) /\ Holding(p)
  BY <1>1 DEF Mine, Sane, Held
<1>4. s \in Sockets /\ s[1] = p
  BY <1>1, ClientsOwn
<1>6. /\ born[p] \in Nat /\ s \in {p} \X (1..born[p])
  BY <1>3 DEF Holding, Drawn, Sane, ConnInv, ConnTypeOK
<1>2. ~(s[2] > born[p])
  BY <1>6
<1>7. s # conn[p].sock /\ \A u \in threads : SocketOf(u) # s
  <2>1. s # conn[p].sock
    BY <1>1, <1>3 DEF Holding
  <2>2. \A u \in threads : SocketOf(u) # s
    BY <1>3, <1>4 DEF Holding, SocketOf
  <2> QED
    BY <2>1, <2>2
<1>5. s # hand[p]
  <2>1. Shape(p, ses[p]) /\ Standing(p, ses[p], at[p], hand[p])
    BY Here DEF Sane
  <2> QED
    BY <1>1, <2>1 DEF Shape, Standing
<1> QED
  BY <1>1, <1>2, <1>4, <1>5, <1>7 DEF Unused

(* A player whose socket is given to the relay reads or is written to; the   *)
(* other may be sent x.                                                      *)
LEMMA PairedMoves ==
    ASSUME Sane, Paired, [Next]_vars, NEW p \in Machines, Goes(p), UNCHANGED room, said \subseteq said',
           NEW me, me = ses[p].client, me # None, ses'[p].client = me, ses'[p].relayed <=> ses[p].relayed,
           NEW x \in Frames, x # "ready",
           \A s \in Sockets \ {me} : queue'[s] = queue[s] \/ (queue'[s] = Append(queue[s], x) /\ Seated(s)),
           x = "input" => Beyond(p) /\ Seated(me),
           x \in Games => room.ready /\ [by |-> p, token |-> 0, game |-> x] \in said',
           In(queue'[me], {"ready"}) => In(queue[me], {"ready"}), Heard(me)', Waiter(p)', Spoken(p)',
           WaitsFor(p)' /\ In(queue[me], Games) => WaitsFor(p) /\ In(queue'[me], Games),
           WaitsFor(p)' => WaitsFor(p),
           Beyond(p)' /\ Seated(me) =>
              \/ Beyond(p)
              \/ /\ room.ready
                 /\ \A r \in Machines \ {p} : WaitsFor(r) /\ Seated(ses[r].client)
                                                => In(queue'[ses[r].client], Games)
    PROVE  Paired'
<1>0. /\ queue \in [Sockets -> Seq(Frames)] /\ room.seats \in Seq(Sockets)
      /\ me \in Sockets /\ ~Unused(me)
  BY ClientUsed, Here DEF Sane, WireTypes
<1>1. ASSUME NEW s \in Sockets \ {me} PROVE Longer(queue[s], queue'[s], x) /\ queue[s] \in Seq(Frames)
  BY <1>0 DEF Longer
<1>2. ASSUME NEW q \in Machines \ {p}
      PROVE  /\ ses'[q] = ses[q] /\ at'[q] = at[q] /\ (WaitsFor(q)' <=> WaitsFor(q)) /\ (Beyond(q)' <=> Beyond(q))
             /\ WaitsFor(q) => ses[q].client \in Sockets \ {me}
  <2>1. WaitsFor(q) => ses[q].client # None
    BY Here DEF WaitsFor, Sane, Shape
  <2>2. WaitsFor(q) => ses[q].client \in Sockets \ {me}
    BY <1>0, <2>1, ClientUsed
  <2>3. ses'[q] = ses[q] /\ at'[q] = at[q]
    BY DEF Goes
  <2>4. (WaitsFor(q)' <=> WaitsFor(q)) /\ (Beyond(q)' <=> Beyond(q))
    BY <2>3 DEF WaitsFor, Beyond
  <2> QED
    BY <2>2, <2>3, <2>4
<1>3. \A s : Seated(s)' <=> Seated(s)
  BY DEF Seated
<1>4. Seats'
  <2>1. ASSUME NEW i \in 1..Len(room.seats)
        PROVE  \E q \in Machines : ses'[q].relayed /\ ses'[q].client = room.seats[i]
    <3>1. PICK q \in Machines : ses[q].relayed /\ ses[q].client = room.seats[i]
      BY DEF Paired, Seats
    <3> QED
      BY <3>1, <1>2
  <2>2. ASSUME NEW s \in Sockets, Unused(s)' PROVE queue'[s] = <<>>
    <3>1. Unused(s) /\ queue[s] = <<>> /\ s # me
      BY <1>0, <2>2, UnusedShrinks DEF Paired, Seats
    <3>2. ~Seated(s)
      BY <3>1, SeatIs DEF Paired
    <3> QED
      BY <3>1, <3>2
  <2> QED
    BY <2>1, <2>2 DEF Paired, Seats
<1>5. ReadyOnly'
  <2> SUFFICES ASSUME NEW s \in Sockets, Seated(s), In(queue'[s], {"ready"}) PROVE room.ready
    BY <1>3 DEF ReadyOnly
  <2>1. In(queue[s], {"ready"})
    <3>1. CASE s = me
      BY <3>1
    <3>2. CASE s # me
      BY <1>1, <3>2, Grown
    <3> QED
      BY <3>1, <3>2
  <2> QED
    BY <2>1 DEF Paired, ReadyOnly
<1>6. ASSUME NEW q \in Machines \ {p} PROVE Waiter(q)'
  <2> SUFFICES ASSUME WaitsFor(q) PROVE Waiter(q)'
    BY <1>2, <1>6 DEF Waiter
  <2>1. PICK c \in Sockets \ {me} : c = ses[q].client
    BY <1>2, <1>6
  <2>2. /\ After(queue[c], {"input"}, Games)
        /\ at[q] # "checking" => After(queue[c], Games, {"ready"})
        /\ room.ready /\ Seated(c) /\ at[q] # "checking" => In(queue[c], {"ready"})
    BY <2>1 DEF Paired, Waiter, Mail
  <2>3. CASE queue'[c] = queue[c]
    BY <1>2, <1>3, <1>6, <2>1, <2>2, <2>3 DEF Waiter, Mail
  <2>4. CASE queue'[c] = Append(queue[c], x) /\ Seated(c)
    <3>1. x = "input" => In(queue[c], Games)
      BY <1>6, <2>1, <2>4 DEF Paired, Met, Mail
    <3>2. After(queue'[c], {"input"}, Games)
      BY <1>1, <2>2, <3>1, Grown
    <3>3. at[q] # "checking" => After(queue'[c], Games, {"ready"})
      BY <1>1, <2>2, <2>4, Grown
    <3>4. room.ready /\ Seated(c) /\ at[q] # "checking" => In(queue'[c], {"ready"})
      BY <1>1, <2>2, Grown
    <3> QED
      BY <1>2, <1>3, <1>6, <2>1, <3>2, <3>3, <3>4 DEF Waiter, Mail
  <2> QED
    BY <2>1, <2>3, <2>4
<1>7. ASSUME NEW q \in Machines PROVE Met(q)'
  <2> SUFFICES ASSUME Beyond(q)', Seated(ses'[q].client)
               PROVE  /\ room.ready
                      /\ \A r \in Machines \ {q} : WaitsFor(r)' /\ Seated(ses'[r].client)
                                                     => In(queue'[ses'[r].client], Games)
    BY <1>3 DEF Met, Mail
  <2>1. ASSUME Beyond(q), Seated(ses[q].client), NEW r \in Machines \ {q}, WaitsFor(r)', Seated(ses'[r].client)
        PROVE  In(queue'[ses'[r].client], Games)
    <3>1. WaitsFor(r) /\ ses'[r].client = ses[r].client /\ Seated(ses[r].client)
      BY <1>2, <2>1
    <3>2. In(queue[ses[r].client], Games)
      BY <2>1, <3>1 DEF Paired, Met, Mail
    <3>3. CASE r = p
      BY <2>1, <3>2, <3>3
    <3>4. CASE r # p
      <4>1. PICK c \in Sockets \ {me} : c = ses[r].client
        BY <1>2, <3>1, <3>4
      <4>2. In(queue[c], Games) => In(queue'[c], Games)
        BY <1>1, Grown
      <4> QED
        BY <3>1, <3>2, <4>1, <4>2
    <3> QED
      BY <3>3, <3>4
  <2>2. Beyond(q) /\ Seated(ses[q].client) => room.ready
    BY DEF Paired, Met
  <2>3. CASE q # p
    BY <1>2, <2>1, <2>2, <2>3
  <2>4. CASE q = p /\ Beyond(p)
    BY <2>1, <2>2, <2>4
  <2>5. CASE q = p /\ ~Beyond(p)
    BY <1>2, <2>5
  <2> QED
    BY <2>3, <2>4, <2>5
<1>8. ASSUME NEW q \in Machines PROVE Spoken(q)'
  <2>1. CASE q = p
    BY <2>1
  <2>2. CASE q # p
    BY <1>2, <2>2 DEF Paired, Spoken
  <2> QED
    BY <2>1, <2>2
<1>9. ASSUME NEW s \in Sockets PROVE Heard(s)'
  <2>1. CASE s = me
    BY <2>1
  <2>2. CASE s # me /\ queue'[s] = queue[s]
    BY <2>2 DEF Paired, Heard
  <2>3. CASE s # me /\ queue'[s] = Append(queue[s], x) /\ Seated(s)
    <3>1. s[1] # p
      BY <2>3, SeatIs DEF Paired
    <3>2. x \in Games => \E q \in Machines : q # s[1] /\ [by |-> q, token |-> 0, game |-> x] \in said'
      BY <3>1
    <3>3. Heard(s) /\ queue[s] \in Seq(Frames)
      BY <1>0 DEF Paired
    <3> QED
      BY <2>3, <3>2, <3>3, HeardAppended
  <2> QED
    BY <2>1, <2>2, <2>3
<1> QED
  BY <1>4, <1>5, <1>6, <1>7, <1>8, <1>9 DEF Paired

LEMMA MailIs ==
    ASSUME Sane, Paired, NEW p \in Machines, ses[p].client # None
    PROVE  /\ ses[p].client \in Sockets /\ queue \in [Sockets -> Seq(Frames)] /\ Heard(ses[p].client)
           /\ {"pong", "bye", "input", "ready"} \subseteq Frames /\ {"pong", "bye", "input", "ready"} \cap Games = {}
           /\ Games \subseteq Frames
BY ClientUsed, Here, SessionAssumption DEF Sane, WireTypes, Paired, Frames

LEMMA PairedHeard == ASSUME Sane, Paired, [Next]_vars, NEW p \in Machines, RelayHeard(p), Goes(p) PROVE Paired'
<1>1. PICK me : me = ses[p].client
  OBVIOUS
<1>2. /\ at[p] = "keys" /\ WaitsFor(p) /\ queue[me] # <<>> /\ ses' = ses /\ room' = room /\ me # None
      /\ ses[p].game \in Games /\ WaitsFor(p)'
  <2>1. Shape(p, ses[p])
    BY Here DEF Sane
  <2> QED
    BY <1>1, <2>1 DEF RelayHeard, Calls, WaitsFor, Shape
<1>3. /\ me \in Sockets /\ queue[me] \in Seq(Frames) /\ Heard(me) /\ queue \in [Sockets -> Seq(Frames)]
      /\ {"pong", "bye", "input", "ready"} \subseteq Frames /\ {"pong", "bye", "input", "ready"} \cap Games = {}
      /\ Games \subseteq Frames
  BY <1>1, <1>2, MailIs
<1>4. /\ After(queue[me], {"input"}, Games) /\ After(queue[me], Games, {"ready"})
      /\ room.ready /\ Seated(me) => In(queue[me], {"ready"})
  BY <1>1, <1>2 DEF Paired, Waiter, Mail
<1>5. Head(queue[me]) \notin Games
  BY <1>2, <1>3, <1>4, Taken
<1>6. /\ In(Tail(queue[me]), {"ready"}) => In(queue[me], {"ready"})
      /\ In(queue[me], Games) => In(Tail(queue[me]), Games)
      /\ After(Tail(queue[me]), {"input"}, Games)
  BY <1>2, <1>3, <1>4, <1>5, Taken
<1> DEFINE rest == [queue EXCEPT ![me] = Tail(@)]
<1>7. rest[me] = Tail(queue[me]) /\ \A s \in Sockets \ {me} : rest[s] = queue[s]
  BY <1>3
<1>8. ASSUME queue'[me] = Tail(queue[me]), said \subseteq said' PROVE Heard(me)'
  BY <1>2, <1>3, <1>8, HeardTaken
<1>9. CASE Head(queue[me]) = "ready"
  <2>1. /\ at'[p] = "checking" /\ said' = Names(p, 0, ses[p].game)
        /\ queue' = IF Seated(me) THEN [rest EXCEPT ![Other(me)] = Append(@, ses[p].game)] ELSE rest
    BY <1>1, <1>9, Here DEF RelayHeard, Sane
  <2>2. said \subseteq said' /\ [by |-> p, token |-> 0, game |-> ses[p].game] \in said'
    BY <2>1 DEF Names
  <2>3. Spoken(p)'
    BY <1>2, <2>2 DEF Spoken
  <2>4. CASE ~Seated(me)
    <3>1. queue' = rest
      BY <2>1, <2>4
    <3>2. queue'[me] = Tail(queue[me]) /\ \A s \in Sockets \ {me} : queue'[s] = queue[s]
      BY <1>7, <3>1
    <3>3. Waiter(p)'
      BY <1>1, <1>2, <1>6, <2>1, <3>2 DEF Waiter, Mail
    <3> HIDE DEF rest
    <3> QED
      BY <1>1, <1>2, <1>3, <1>6, <1>8, <2>2, <2>3, <2>4, <3>2, <3>3, PairedMoves
  <2>5. CASE Seated(me)
    <3>1. room.ready /\ Len(room.seats) = 2
      <4>1. In(queue[me], {"ready"})
        BY <1>2, <1>3, <1>9, Taken
      <4> QED
        BY <1>3, <2>5, <4>1 DEF Paired, ReadyOnly, Seats
    <3>2. PICK o : o = Other(me)
      OBVIOUS
    <3>3. o \in Sockets /\ o # me /\ Seated(o) /\ \A s : Seated(s) => s \in {me, o}
      BY <2>5, <3>1, <3>2, OtherIs, Here DEF Paired, Sane, WireTypes
    <3>4. queue' = [rest EXCEPT ![o] = Append(@, ses[p].game)]
      BY <2>1, <2>5, <3>2
    <3>5. /\ queue'[me] = Tail(queue[me]) /\ queue'[o] = Append(queue[o], ses[p].game)
          /\ \A s \in Sockets \ {me, o} : queue'[s] = queue[s]
      BY <1>3, <1>7, <3>3, <3>4
    <3>6. Waiter(p)'
      BY <1>1, <1>2, <1>6, <2>1, <3>5 DEF Waiter, Mail
    <3>7. ASSUME NEW r \in Machines \ {p}, WaitsFor(r), Seated(ses[r].client)
          PROVE  In(queue'[ses[r].client], Games)
      <4>1. ses[r].client # me
        <5>1. ses[r].client # None
          BY <3>7, Here DEF WaitsFor, Sane, Shape
        <5> QED
          BY <1>1, <1>2, <5>1, ClientUsed
      <4>2. ses[r].client = o
        BY <3>3, <3>7, <4>1
      <4>3. queue[o] \in Seq(Frames) /\ ses[p].game \in Frames
        BY <1>2, <1>3, <3>3
      <4>4. In(Append(queue[o], ses[p].game), Games)
        BY <1>2, <4>3, Appended
      <4> QED
        BY <3>5, <4>2, <4>4
    <3> HIDE DEF rest
    <3>8. \A s \in Sockets \ {me} : queue'[s] = queue[s] \/ (queue'[s] = Append(queue[s], ses[p].game) /\ Seated(s))
      BY <3>3, <3>5
    <3> QED
      BY <1>1, <1>2, <1>3, <1>6, <1>8, <2>2, <2>3, <2>5, <3>1, <3>5, <3>6, <3>7, <3>8, PairedMoves
  <2> QED
    BY <2>4, <2>5
<1>10. CASE Head(queue[me]) # "ready"
  <2>1. Returns(p) /\ queue' = rest /\ UNCHANGED said
    BY <1>1, <1>10 DEF RelayHeard
  <2>2. at'[p] # "checking"
    BY <2>1, Here DEF Returns, Sane
  <2>3. queue'[me] = Tail(queue[me]) /\ \A s \in Sockets \ {me} : queue'[s] = queue[s]
    BY <1>7, <2>1
  <2>4. /\ After(Tail(queue[me]), Games, {"ready"})
        /\ room.ready /\ Seated(me) => In(Tail(queue[me]), {"ready"})
    BY <1>2, <1>3, <1>4, <1>10, Taken
  <2>5. Waiter(p)'
    BY <1>1, <1>2, <1>6, <2>3, <2>4 DEF Waiter, Mail, Seated
  <2>6. Spoken(p)' /\ ~Beyond(p)'
    BY <1>2, <2>2 DEF Spoken, Beyond, WaitsFor
  <2> HIDE DEF rest
  <2> QED
    BY <1>1, <1>2, <1>3, <1>6, <1>8, <2>1, <2>3, <2>5, <2>6, PairedMoves
<1> QED
  BY <1>9, <1>10

LEMMA PairedPinged == ASSUME Sane, Paired, [Next]_vars, NEW p \in Machines, RelayPing(p), Goes(p) PROVE Paired'
<1>1. PICK me : me = ses[p].client
  OBVIOUS
<1>2. /\ at[p] = "keys" /\ WaitsFor(p) /\ ses' = ses /\ room' = room /\ said' = said /\ me # None
      /\ WaitsFor(p)' /\ at'[p] # "checking"
      /\ queue' = [queue EXCEPT ![me] = Append(@, "pong")]
  <2>1. Shape(p, ses[p]) /\ at \in [Machines -> Places]
    BY Here DEF Sane
  <2> QED
    BY <1>1, <2>1 DEF RelayPing, Calls, WaitsFor, Shape, Returns
<1>3. /\ me \in Sockets /\ queue[me] \in Seq(Frames) /\ Heard(me) /\ queue \in [Sockets -> Seq(Frames)]
      /\ {"pong", "bye", "input", "ready"} \subseteq Frames /\ {"pong", "bye", "input", "ready"} \cap Games = {}
  BY <1>1, <1>2, MailIs
<1>4. /\ After(queue[me], {"input"}, Games) /\ After(queue[me], Games, {"ready"})
      /\ room.ready /\ Seated(me) => In(queue[me], {"ready"})
  BY <1>1, <1>2 DEF Paired, Waiter, Mail
<1>5. queue'[me] = Append(queue[me], "pong") /\ \A s \in Sockets \ {me} : queue'[s] = queue[s]
  BY <1>2, <1>3
<1>6. "pong" \in Frames /\ "pong" \notin {"input"} /\ "pong" \notin Games /\ "pong" \notin {"ready"}
  BY <1>3
<1>7. /\ After(queue'[me], {"input"}, Games) /\ After(queue'[me], Games, {"ready"})
      /\ room.ready /\ Seated(me) => In(queue'[me], {"ready"})
      /\ In(queue'[me], {"ready"}) => In(queue[me], {"ready"})
      /\ In(queue[me], Games) => In(queue'[me], Games)
  <2>1. Longer(queue[me], queue'[me], "pong")
    BY <1>5 DEF Longer
  <2> QED
    BY <1>3, <1>4, <1>6, <2>1, Grown
<1>8. Waiter(p)' /\ Spoken(p)' /\ ~Beyond(p)'
  BY <1>1, <1>2, <1>7 DEF Waiter, Mail, Seated, Spoken, Beyond, WaitsFor
<1>9. Heard(me)'
  BY <1>2, <1>3, <1>5, <1>6, HeardAppended
<1> QED
  BY <1>1, <1>2, <1>3, <1>5, <1>7, <1>8, <1>9, PairedMoves

(* The game has come. *)
LEMMA PairedChecked ==
    ASSUME Sane, Paired, [Next]_vars, NEW p \in Machines, GameHeard(p), Goes(p) PROVE Paired'
<1>1. PICK me : me = ses[p].client
  OBVIOUS
<1>2. /\ at[p] = "checking" /\ WaitsFor(p) /\ queue[me] # <<>> /\ me # None /\ said' = said
      /\ ses[p] \in Session /\ ses \in [Machines -> Session] /\ at \in [Machines -> Places]
  <2>1. Shape(p, ses[p]) /\ Standing(p, ses[p], at[p], hand[p])
    BY Here DEF Sane
  <2> QED
    BY <1>1, <2>1, Here DEF GameHeard, WaitsFor, Shape, Standing, Sane
<1>3. /\ me \in Sockets /\ queue[me] \in Seq(Frames) /\ Heard(me) /\ queue \in [Sockets -> Seq(Frames)]
      /\ {"pong", "bye", "input", "ready"} \subseteq Frames /\ {"pong", "bye", "input", "ready"} \cap Games = {}
  BY <1>1, <1>2, MailIs
<1>4. Beyond(p) /\ Spoken(p) /\ After(queue[me], {"input"}, Games)
  BY <1>1, <1>2 DEF Paired, Waiter, Mail, Beyond
<1>5. ASSUME queue' = [queue EXCEPT ![me] = Tail(@)]
      PROVE  /\ queue'[me] = Tail(queue[me]) /\ \A s \in Sockets \ {me} : queue'[s] = queue[s]
             /\ Heard(me)' /\ (In(queue'[me], {"ready"}) => In(queue[me], {"ready"}))
  <2>1. queue'[me] = Tail(queue[me]) /\ \A s \in Sockets \ {me} : queue'[s] = queue[s]
    BY <1>3, <1>5
  <2> QED
    BY <1>2, <1>3, <2>1, HeardTaken, Taken
<1>6. CASE /\ Head(queue[me]) = ses[p].game /\ ses' = [ses EXCEPT ![p] = Timed(@)]
           /\ queue' = [queue EXCEPT ![me] = Tail(@)] /\ Returns(p) /\ UNCHANGED room
  <2>1. PICK n : n = Timed(ses[p])
    OBVIOUS
  <2>2. n.state = "connected" /\ n.client = me /\ (n.relayed <=> ses[p].relayed)
    BY <1>1, <1>2, <2>1 DEF Timed, Session
  <2>3. ses'[p] = n
    BY <1>2, <1>6, <2>1
  <2>4. ~WaitsFor(p)' /\ at'[p] # "checking"
    BY <1>2, <1>6, <2>2, <2>3 DEF WaitsFor, Returns
  <2>5. Waiter(p)' /\ Spoken(p)'
    BY <2>4 DEF Waiter, Spoken
  <2> QED
    BY <1>1, <1>2, <1>3, <1>4, <1>5, <1>6, <2>2, <2>3, <2>4, <2>5, PairedMoves
<1>7. CASE Drop(p, {}) /\ ses' = [ses EXCEPT ![p] = Idle(@)] /\ Returns(p)
  <2>1. at'[p] # "checking"
    BY <1>2, <1>7 DEF Returns
  <2> QED
    BY <1>2, <1>7, <2>1, PairedDropped
<1>8. CASE Head(queue[me]) = "pong" /\ queue' = [queue EXCEPT ![me] = Tail(@)] /\ UNCHANGED <<ses, at, room>>
  <2>1. After(queue'[me], {"input"}, Games) /\ (In(queue[me], Games) => In(queue'[me], Games))
    BY <1>2, <1>3, <1>4, <1>5, <1>8, Taken
  <2>2. Waiter(p)' /\ Spoken(p)' /\ WaitsFor(p)'
    BY <1>1, <1>2, <1>4, <1>8, <2>1 DEF Waiter, Mail, Spoken, WaitsFor
  <2> QED
    BY <1>1, <1>2, <1>3, <1>4, <1>5, <1>8, <2>1, <2>2, PairedMoves
<1> QED
  BY <1>1, <1>6, <1>7, <1>8 DEF GameHeard

LEMMA PairedInput ==
    ASSUME Sane, Paired, [Next]_vars, NEW p \in Machines, Exchange(p), ~Direct, Goes(p) PROVE Paired'
<1>1. PICK me : me = ses[p].client
  OBVIOUS
<1>2. /\ ses[p].state = "connected" /\ ses[p].relayed /\ me # None /\ said' = said /\ room' = room
      /\ ses[p] \in Session /\ ses \in [Machines -> Session] /\ at \in [Machines -> Places]
      /\ at'[p] = "keys"
  <2>1. Shape(p, ses[p]) /\ at \in [Machines -> Places]
    BY Here DEF Sane
  <2> QED
    BY <1>1, <2>1, Here DEF Exchange, Exchanging, Shape, Sane
<1>3. /\ me \in Sockets /\ queue[me] \in Seq(Frames) /\ Heard(me) /\ queue \in [Sockets -> Seq(Frames)]
      /\ {"pong", "bye", "input", "ready"} \subseteq Frames /\ {"pong", "bye", "input", "ready"} \cap Games = {}
  BY <1>1, <1>2, MailIs
<1>4. PICK n : n = [ses[p] EXCEPT !.frames = @ + 1, !.hello = 0]
  OBVIOUS
<1>5. ses'[p] = n /\ n.state = "connected" /\ n.client = me /\ n.relayed
  BY <1>1, <1>2, <1>4 DEF Exchange, Session
<1>6. ~WaitsFor(p)' /\ at'[p] # "checking" /\ Beyond(p)
  BY <1>2, <1>5 DEF WaitsFor, Beyond
<1>7. Waiter(p)' /\ Spoken(p)'
  BY <1>6 DEF Waiter, Spoken
<1>8. PICK read : read = IF ses[p].frames < Delay THEN queue ELSE [queue EXCEPT ![me] = Tail(@)]
  OBVIOUS
<1>9. queue' = IF Seated(me) /\ Len(room.seats) = 2 THEN [read EXCEPT ![Other(me)] = Append(@, "input")] ELSE read
  BY <1>1, <1>2, <1>8 DEF Exchange
<1>10. read[me] = queue[me] \/ (queue[me] # <<>> /\ read[me] = Tail(queue[me]))
  BY <1>1, <1>2, <1>3, <1>8 DEF Exchange, PeerInput
<1>11. (\A s \in Sockets \ {me} : read[s] = queue[s]) /\ DOMAIN read = Sockets
  BY <1>3, <1>8
<1>12. /\ queue'[me] = read[me]
       /\ \A s \in Sockets \ {me} : queue'[s] = queue[s] \/ (queue'[s] = Append(queue[s], "input") /\ Seated(s) /\ Seated(me))
  <2>1. CASE Seated(me) /\ Len(room.seats) = 2
    <3>1. PICK o : o = Other(me)
      OBVIOUS
    <3>2. o \in Sockets /\ o # me /\ Seated(o)
      BY <2>1, <3>1, OtherIs, Here DEF Paired, Sane, WireTypes
    <3>3. queue' = [read EXCEPT ![o] = Append(@, "input")]
      BY <1>9, <2>1, <3>1
    <3> QED
      BY <1>3, <1>11, <2>1, <3>2, <3>3
  <2>2. CASE ~(Seated(me) /\ Len(room.seats) = 2)
    BY <1>9, <1>11, <2>2
  <2> QED
    BY <2>1, <2>2
<1>13. Heard(me)' /\ (In(queue'[me], {"ready"}) => In(queue[me], {"ready"}))
  <2>1. CASE read[me] = queue[me]
    BY <1>2, <1>3, <1>12, <2>1 DEF Heard
  <2>2. CASE queue[me] # <<>> /\ read[me] = Tail(queue[me])
    <3>1. queue'[me] = Tail(queue[me])
      BY <1>12, <2>2
    <3> QED
      BY <1>2, <1>3, <2>2, <3>1, HeardTaken, Taken
  <2> QED
    BY <1>10, <2>1, <2>2
<1>14. CASE Seated(me)
  BY <1>1, <1>2, <1>3, <1>5, <1>6, <1>7, <1>12, <1>13, <1>14, PairedMoves
<1>15. CASE ~Seated(me)
  <2>1. \A s \in Sockets \ {me} : queue'[s] = queue[s] \/ (queue'[s] = Append(queue[s], "bye") /\ Seated(s))
    BY <1>12, <1>15
  <2> QED
    BY <1>1, <1>2, <1>3, <1>5, <1>6, <1>7, <1>13, <1>15, <2>1, PairedMoves
<1> QED
  BY <1>14, <1>15

(* The relay has a seat for whoever comes. *)
LEMMA PairedSeated ==
    ASSUME Sane, Paired, [Next]_vars, NEW p \in Machines, TakeRelaySeat(p), Goes(p) PROVE Paired'
<1>1. /\ at[p] = "hello" /\ ses[p].state = "joining" /\ ses[p].relayed /\ ses[p].client = None
      /\ hand[p] \in Sockets /\ hand[p][1] = p /\ queue' = queue /\ said' = said
      /\ ses \in [Machines -> Session] /\ ses[p] \in Session /\ room.seats \in Seq(Sockets)
      /\ at \in [Machines -> Places] /\ queue \in [Sockets -> Seq(Frames)]
      /\ room \in [seats : Seq(Sockets), ready : BOOLEAN]
  <2>1. /\ Shape(p, ses[p]) /\ Standing(p, ses[p], at[p], hand[p]) /\ ses \in [Machines -> Session]
        /\ ses[p] \in Session /\ room \in [seats : Seq(Sockets), ready : BOOLEAN] /\ at \in [Machines -> Places]
        /\ queue \in [Sockets -> Seq(Frames)] /\ at[p] = "hello" /\ ~Direct /\ queue' = queue /\ said' = said
    BY Here DEF Sane, WireTypes, TakeRelaySeat
  <2>2. ses[p].state = "joining" /\ hand[p] # None /\ ses[p].relayed /\ ses[p].client = None
    BY <2>1 DEF Shape, Standing
  <2>3. hand[p] \in Mine(p)
    BY <2>2 DEF Mine
  <2>4. hand[p] \in Sockets /\ hand[p][1] = p
    BY <2>3, Owned DEF Sane, ConnInv
  <2> QED
    BY <2>1, <2>2, <2>4
<1>2. at'[p] \in {"keys", "input"}
  BY <1>1 DEF TakeRelaySeat, GivesUp, Returns
<1>3. CASE ses' = [ses EXCEPT ![p].state = "idle", ![p].relayed = FALSE] /\ UNCHANGED room
  <2>1. PICK n : n = [ses[p] EXCEPT !.state = "idle", !.relayed = FALSE]
    OBVIOUS
  <2>2. ses'[p] = n /\ n.state = "idle" /\ ~n.relayed
    BY <1>1, <1>3, <2>1 DEF Session
  <2>3. ~Seated(None)
    BY <1>1, PortApart DEF Seated
  <2>4. ~WaitsFor(p)' /\ ~Beyond(p)' /\ at'[p] # "checking"
    BY <1>2, <2>2 DEF WaitsFor, Beyond
  <2> QED
    BY <1>1, <1>3, <2>3, <2>4, PairedQuiet
<1>4. CASE /\ Len(room.seats) < 2 /\ room' = [room EXCEPT !.seats = Append(@, hand[p])]
           /\ ses' = [ses EXCEPT ![p].state = "relay waiting", ![p].client = hand[p], ![p].role = (room.seats = <<>>)]
  <2>1. PICK b \in BOOLEAN : b = (room.seats = <<>>)
    OBVIOUS
  <2>2. PICK n : n = [ses[p] EXCEPT !.state = "relay waiting", !.client = hand[p], !.role = b]
    OBVIOUS
  <2>3. n.state = "relay waiting" /\ n.client = hand[p] /\ n.relayed
    BY <1>1, <2>2 DEF Session
  <2>4. ses'[p] = n
    BY <1>1, <1>4, <2>1, <2>2
  <2>5. PICK h \in Sockets : h = hand[p]
    BY <1>1
  <2>6. Unused(h) /\ queue[h] = <<>> /\ ~Seated(h)
    <3>1. h = hand[h[1]]
      BY <1>1, <2>5
    <3>2. Unused(h)
      BY <3>1 DEF Unused
    <3>3. queue[h] = <<>>
      BY <3>2 DEF Paired, Seats
    <3> QED
      BY <3>2, <3>3, SeatIs DEF Paired
  <2>7. PICK k \in {0, 1} : k = Len(room.seats)
    <3>3. Len(room.seats) < 2
      BY <1>4, Zenon
    <3>4. room.seats \in Seq(Sockets)
      BY <1>1
    <3>1. Len(room.seats) \in Nat /\ Len(room.seats) < 2
      BY <3>3, <3>4
    <3>2. Len(room.seats) \in {0, 1}
      BY <3>1
    <3> QED
      BY <3>2
  <2>8. /\ Len(room'.seats) = k + 1 /\ room'.seats[k + 1] = h /\ \A i \in 1..k : room'.seats[i] = room.seats[i]
    <3>1. PICK c \in Seq(Sockets) : c = room.seats
      BY <1>1
    <3>2. /\ Len(Append(c, h)) = Len(c) + 1 /\ Append(c, h)[Len(c) + 1] = h
          /\ \A i \in 1..Len(c) : Append(c, h)[i] = c[i]
      OBVIOUS
    <3>3. room'.seats = Append(c, h)
      BY <1>1, <1>4, <2>5, <3>1
    <3> QED
      BY <2>7, <3>1, <3>2, <3>3
  <2>9. ~room.ready /\ ~room'.ready
    <3>1. ~room.ready
      BY <2>7 DEF Paired, Seats
    <3>2. PICK r : r = [room EXCEPT !.seats = Append(@, hand[p])]
      OBVIOUS
    <3>3. ~r.ready
      BY <1>1, <3>1, <3>2
    <3> QED
      BY <1>4, <3>1, <3>2, <3>3
  <2>10. \A s : Seated(s)' <=> Seated(s) \/ s = h
    <3>1. DOMAIN room.seats = 1..k /\ room'.seats \in Seq(Sockets)
      BY <1>1, <2>7, SaneNext, Here DEF Sane, Shapely, Types, WireTypes
    <3>2. DOMAIN room'.seats = 1..(k + 1)
      BY <2>7, <2>8, <3>1
    <3>3. \A i : i \in 1..(k + 1) <=> i \in 1..k \/ i = k + 1
      BY <2>7
    <3> QED
      BY <2>8, <3>1, <3>2, <3>3 DEF Seated
  <2>11. Seats'
    <3>1. ASSUME NEW i \in 1..(k + 1)
          PROVE  \E q \in Machines : ses'[q].relayed /\ ses'[q].client = room'.seats[i]
      <4>1. CASE i = k + 1
        BY <2>3, <2>4, <2>5, <2>8, <4>1
      <4>2. CASE i \in 1..k
        <5>1. PICK q \in Machines : ses[q].relayed /\ ses[q].client = room.seats[i]
          BY <2>7, <4>2 DEF Paired, Seats
        <5>2. room.seats[i] # None
          BY <1>1, <2>7, <4>2, PortApart
        <5>3. q # p
          BY <1>1, <5>1, <5>2
        <5> QED
          BY <2>8, <4>2, <5>1, <5>3 DEF Goes
      <4> QED
        BY <2>7, <4>1, <4>2
    <3>2. ASSUME NEW i \in 1..(k + 1), NEW j \in 1..(k + 1), room'.seats[i] = room'.seats[j] PROVE i = j
      <4>1. \A l \in 1..k : room'.seats[l] # h
        <5>1. ASSUME NEW l \in 1..k PROVE room.seats[l] # h
          <6>1. l \in DOMAIN room.seats
            BY <1>1, <2>7
          <6> QED
            BY <2>6, <6>1 DEF Seated
        <5> QED
          BY <2>8, <5>1
      <4>2. \A l, m \in 1..k : room.seats[l] = room.seats[m] => l = m
        BY <2>7 DEF Paired, Seats
      <4> QED
        BY <2>7, <2>8, <3>2, <4>1, <4>2
    <3>3. \A x \in Sockets : Unused(x)' => queue'[x] = <<>>
      BY <1>1, UnusedShrinks DEF Paired, Seats
    <3>4. k + 1 <= 2 /\ Len(room'.seats) = k + 1
      BY <2>7, <2>8
    <3> QED
      BY <2>9, <3>1, <3>2, <3>3, <3>4 DEF Seats
  <2>12. ReadyOnly'
    <3> SUFFICES ASSUME NEW s \in Sockets, Seated(s)', In(queue[s], {"ready"}) PROVE FALSE
      BY <1>1 DEF ReadyOnly
    <3>1. CASE s = h
      <4>1. Len(queue[s]) = 0
        BY <2>6, <3>1
      <4> QED
        BY <4>1 DEF In
    <3>2. CASE s # h
      BY <2>9, <2>10, <3>2 DEF Paired, ReadyOnly
    <3> QED
      BY <3>1, <3>2
  <2>13. ASSUME NEW q \in Machines PROVE Waiter(q)' /\ Met(q)' /\ Spoken(q)'
    <3>1. CASE q = p
      <4>1. Len(queue[h]) = 0 /\ Mail(p)' = queue[h]
        BY <1>1, <2>3, <2>4, <2>5, <2>6 DEF Mail
      <4>2. \A f, g : After(queue[h], f, g)
        BY <4>1 DEF After
      <4>3. Waiter(p)'
        BY <2>9, <4>1, <4>2 DEF Waiter
      <4>4. ~Beyond(p)' /\ at'[p] # "checking"
        BY <1>2, <2>3, <2>4 DEF Beyond
      <4> QED
        BY <3>1, <4>3, <4>4 DEF Met, Spoken
    <3>2. CASE q # p
      <4>1. ses'[q] = ses[q] /\ at'[q] = at[q]
        BY <3>2 DEF Goes
      <4>2. Waiter(q)'
        BY <1>1, <2>9, <4>1 DEF Paired, Waiter, WaitsFor, Mail
      <4>3. ~(Beyond(q) /\ Seated(ses[q].client))
        BY <2>9 DEF Paired, Met
      <4>4. Beyond(q) => ses[q].client # h
        <5>1. Beyond(q) => ses[q].client # None
          BY Here DEF Sane, Beyond, Shape, Standing
        <5> QED
          BY <1>1, <2>5, <3>2, <5>1, ClientUsed
      <4>5. Met(q)'
        BY <2>10, <4>1, <4>3, <4>4 DEF Met, Beyond
      <4>6. Spoken(q)'
        BY <1>1, <4>1 DEF Paired, Spoken
      <4> QED
        BY <4>2, <4>5, <4>6
    <3> QED
      BY <3>1, <3>2
  <2>14. \A s \in Sockets : Heard(s)'
    BY <1>1 DEF Paired, Heard
  <2> QED
    BY <2>11, <2>12, <2>13, <2>14 DEF Paired
<1> QED
  BY <1>3, <1>4 DEF TakeRelaySeat

LEMMA PairedAnnounced == ASSUME Sane, Paired, [Next]_vars, Announce PROVE Paired'
<1>0. room'.seats = room.seats /\ room'.ready
  <2>1. PICK r : r = [room EXCEPT !.ready = TRUE]
    OBVIOUS
  <2>2. r.seats = room.seats /\ r.ready
    BY <2>1, Here DEF Sane, WireTypes
  <2> QED
    BY <2>1, <2>2 DEF Announce
<1>1. /\ Len(room.seats) = 2 /\ ~room.ready
      /\ queue' = [s \in Sockets |-> IF Seated(s) THEN Append(queue[s], "ready") ELSE queue[s]]
      /\ ses' = ses /\ at' = at /\ said' = said
      /\ queue \in [Sockets -> Seq(Frames)] /\ "ready" \in Frames /\ "ready" \notin Games
  BY Here, SessionAssumption DEF Announce, Sane, WireTypes, Frames
<1>2. \A s : Seated(s)' <=> Seated(s)
  BY <1>0 DEF Seated
<1>3. Seats'
  <2>1. ASSUME NEW x \in Sockets, Unused(x)' PROVE queue'[x] = <<>>
    <3>1. Unused(x) /\ queue[x] = <<>>
      BY <2>1, UnusedShrinks DEF Paired, Seats
    <3>2. ~Seated(x)
      BY <3>1, SeatIs DEF Paired
    <3> QED
      BY <1>1, <3>1, <3>2
  <2> QED
    BY <1>0, <1>1, <2>1 DEF Paired, Seats
<1>4. ReadyOnly'
  BY <1>0 DEF ReadyOnly
<1>5. ASSUME NEW q \in Machines PROVE Waiter(q)'
  <2> SUFFICES ASSUME WaitsFor(q) PROVE Waiter(q)'
    BY <1>1 DEF Waiter, WaitsFor
  <2>1. PICK c \in Sockets : c = ses[q].client
    <3>1. ses[q].client # None
      BY Here DEF WaitsFor, Sane, Shape
    <3> QED
      BY <3>1, ClientUsed
  <2>2. /\ After(queue[c], {"input"}, Games)
        /\ at[q] # "checking" => After(queue[c], Games, {"ready"})
    BY <2>1 DEF Paired, Waiter, Mail
  <2>3. Longer(queue[c], queue'[c], "ready") /\ (Seated(c) => queue'[c] = Append(queue[c], "ready"))
    BY <1>1 DEF Longer
  <2>4. /\ After(queue'[c], {"input"}, Games)
        /\ at[q] # "checking" => After(queue'[c], Games, {"ready"})
    <3>1. "ready" \notin {"input"} /\ "ready" \notin Games /\ queue[c] \in Seq(Frames) /\ "ready" \in Frames
      BY <1>1
    <3> QED
      BY <2>2, <2>3, <3>1, Grown
  <2>5. Seated(c) => In(queue'[c], {"ready"})
    <3>1. In(Append(queue[c], "ready"), {"ready"})
      BY <1>1, Appended
    <3> QED
      BY <2>3, <3>1
  <2> QED
    BY <1>1, <1>2, <2>1, <2>4, <2>5 DEF Waiter, Mail
<1>6. ASSUME NEW q \in Machines PROVE Met(q)' /\ Spoken(q)'
  <2>1. ~(Beyond(q) /\ Seated(ses[q].client))
    BY <1>1 DEF Paired, Met
  <2>2. (Beyond(q)' <=> Beyond(q)) /\ ses'[q].client = ses[q].client
    BY <1>1 DEF Beyond
  <2>3. Met(q)'
    BY <1>2, <2>1, <2>2 DEF Met
  <2>4. Spoken(q)'
    BY <1>1 DEF Spoken, Paired
  <2> QED
    BY <2>3, <2>4
<1>7. ASSUME NEW s \in Sockets PROVE Heard(s)'
  <2>1. queue'[s] = queue[s] \/ queue'[s] = Append(queue[s], "ready")
    BY <1>1
  <2>2. Heard(s)
    BY DEF Paired
  <2> QED
    BY <1>1, <2>1, <2>2, HeardAppended
<1> QED
  BY <1>3, <1>4, <1>5, <1>6, <1>7 DEF Paired

(* Without a relay there is no room. *)
LEMMA PairedDirect ==
    ASSUME Sane, Paired, [Next]_vars, NEW p \in Machines, Machine(p), Goes(p), Direct PROVE Paired'
<1>1. /\ Shape(p, ses[p]) /\ Standing(p, ses[p], at[p], hand[p])
      /\ Shape(p, ses[p])' /\ Standing(p, ses[p], at[p], hand[p])' /\ Direct'
  BY SaneNext, ModeFixed, Here DEF Sane, Shapely, Direct
<1>2. ~ses[p].relayed /\ ses[p].state # "relay waiting" /\ at[p] # "checking"
  BY <1>1 DEF Shape, Standing
<1>3. ~ses'[p].relayed /\ ses'[p].state # "relay waiting" /\ at'[p] # "checking"
  BY <1>1 DEF Shape, Standing, Direct
<1>4. UNCHANGED <<room, queue>>
  BY <1>2 DEF Machine, Panel, Advance, Blocked, Rest, PressHost, PressJoin, PressDisconnect, PressPause, LoadRom,
       Nothing, TurnAway, Accept, HandshakeFails, HandshakeHeard, Challenge, UdpAdmit, TakeSocket, ConnectFails,
       RelayHeard, RelayPing, RelayLost, StartConnect, Answered, Unanswered, TakeRelaySeat, GameHeard, GameUnheard,
       Exchange, PeerLost, Pass, Drop, netVars
<1>5. said \subseteq said'
  BY MailSteps DEF HostSays, Asks, Refused, GuestEnters, Names, Sane
<1>6. ~WaitsFor(p)' /\ ~Beyond(p)'
  BY <1>3 DEF WaitsFor, Beyond
<1> QED
  BY <1>2, <1>3, <1>4, <1>5, <1>6, PairedQuiet

(* What leaves the relay alone. *)
LEMMA PairedApart ==
    ASSUME Sane, Paired, [Next]_vars, NEW p \in Machines, Goes(p), ~Direct,
           \/ PressPause(p) \/ LoadRom(p) \/ Nothing(p) \/ TakeSocket(p)
           \/ StartConnect(p) \/ ConnectFails(p) \/ Pass(p)
    PROVE  Paired'
<1>1. /\ Shape(p, ses[p]) /\ Standing(p, ses[p], at[p], hand[p]) /\ at \in [Machines -> Places]
      /\ ses \in [Machines -> Session] /\ ses[p] \in Session /\ room.seats \in Seq(Sockets)
  BY Here DEF Sane, WireTypes
<1>2. UNCHANGED <<room, queue, said>> /\ at[p] # "checking" /\ at'[p] # "checking"
  BY <1>1 DEF PressPause, LoadRom, Nothing, TakeSocket, StartConnect, ConnectFails, Pass, Calls, Returns, netVars
<1>3. ~Seated(None)
  BY <1>1, PortApart DEF Seated
<1>4. CASE UNCHANGED ses
  <2>1. (WaitsFor(p)' <=> WaitsFor(p)) /\ (Beyond(p)' => Beyond(p))
    BY <1>2, <1>4 DEF WaitsFor, Beyond
  <2> QED
    BY <1>2, <1>4, <2>1, PairedQuiet
<1>5. CASE StartConnect(p) \/ ConnectFails(p)
  <2>1. ses[p].client = None
    BY <1>1, <1>5 DEF StartConnect, ConnectFails, Shape, Standing
  <2>2. ses'[p].state \in {"idle", "joining"}
    <3>1. CASE ConnectFails(p)
      <4>1. PICK n : n = [ses[p] EXCEPT !.state = "idle", !.relayed = FALSE]
        OBVIOUS
      <4>2. ses'[p] = n /\ n.state = "idle"
        BY <1>1, <3>1, <4>1 DEF ConnectFails, Session
      <4> QED
        BY <4>2
    <3>2. CASE StartConnect(p)
      <4>1. PICK s : s = [ses[p] EXCEPT !.game = rom[p].game]
        OBVIOUS
      <4>2. PICK j : j = [s EXCEPT !.state = "joining", !.relayed = ~Direct]
        OBVIOUS
      <4>3. s.state = ses[p].state /\ j.state = "joining" /\ ses[p].state = "idle"
        BY <1>1, <3>2, <4>1, <4>2 DEF Session, Standing, StartConnect
      <4>4. ses'[p] \in {s, j}
        BY <1>1, <3>2, <4>1, <4>2 DEF StartConnect
      <4> QED
        BY <4>3, <4>4
    <3> QED
      BY <1>5, <3>1, <3>2
  <2>3. ~WaitsFor(p)' /\ ~Beyond(p)'
    BY <1>2, <2>2 DEF WaitsFor, Beyond
  <2> QED
    BY <1>2, <1>3, <2>1, <2>3, PairedQuiet
<1>6. CASE Pass(p) /\ ses' = [ses EXCEPT ![p].start = FALSE]
  <2>1. PICK n : n = [ses[p] EXCEPT !.start = FALSE]
    OBVIOUS
  <2>2. n.state = ses[p].state /\ n.client = ses[p].client /\ (n.relayed <=> ses[p].relayed)
    BY <1>1, <2>1 DEF Session
  <2>3. ses'[p] = n
    BY <1>1, <1>6, <2>1
  <2>4. (WaitsFor(p)' <=> WaitsFor(p)) /\ (Beyond(p)' => Beyond(p))
    BY <1>2, <2>2, <2>3 DEF WaitsFor, Beyond
  <2> QED
    BY <1>2, <2>2, <2>3, <2>4, PairedQuiet
<1> QED
  BY <1>4, <1>5, <1>6 DEF PressPause, LoadRom, Nothing, TakeSocket, Pass, PowerCycle

LEMMA PairedEnded ==
    ASSUME Sane, Paired, [Next]_vars, NEW p \in Machines, Goes(p), ~Direct,
           PressJoin(p) \/ PressDisconnect(p) \/ RelayLost(p) \/ GameUnheard(p) \/ PeerLost(p)
    PROVE  Paired'
<1>1. at \in [Machines -> Places] /\ (ses[p].state = "connected" => ses[p].relayed)
  BY Here DEF Sane, Shape
<1>2. Drop(p, {}) /\ ses' = [ses EXCEPT ![p] = Idle(@)] /\ UNCHANGED said
  BY <1>1 DEF PressJoin, PressDisconnect, RelayLost, GameUnheard, PeerLost, Exchanging
<1>3. at'[p] # "checking"
  BY <1>1 DEF PressJoin, PressDisconnect, RelayLost, GameUnheard, PeerLost, Returns
<1> QED
  BY <1>2, <1>3, PairedDropped

LEMMA PairedNext == Sane /\ Paired /\ [Next]_vars => Paired'
<1> SUFFICES ASSUME Sane, Paired, [Next]_vars PROVE Paired'
  OBVIOUS
<1>1. CASE UNCHANGED <<ses, at, hand, room, queue, said>>
  <2>1. Goes(Host) /\ Host \in Machines
    BY <1>1, SessionAssumption DEF Goes
  <2>2. (WaitsFor(Host)' => WaitsFor(Host)) /\ (Beyond(Host)' => Beyond(Host))
    BY <1>1 DEF WaitsFor, Beyond
  <2> QED
    BY <1>1, <2>1, <2>2, PairedQuiet
<1>2. CASE Announce
  BY <1>2, PairedAnnounced
<1>3. ASSUME NEW p \in Machines, Machine(p), ~Direct PROVE Paired'
  <2>1. Goes(p) /\ Shape(p, ses[p])
    BY <1>3, GoesLocal, Here DEF Sane
  <2>2. CASE RelayHeard(p) \/ RelayPing(p) \/ GameHeard(p) \/ Exchange(p) \/ TakeRelaySeat(p)
    BY <1>3, <2>1, <2>2, PairedHeard, PairedPinged, PairedChecked, PairedInput, PairedSeated
  <2>3. CASE PressJoin(p) \/ PressDisconnect(p) \/ RelayLost(p) \/ GameUnheard(p) \/ PeerLost(p)
    BY <1>3, <2>1, <2>3, PairedEnded
  <2>4. CASE \/ PressPause(p) \/ LoadRom(p) \/ Nothing(p) \/ TakeSocket(p)
             \/ StartConnect(p) \/ ConnectFails(p) \/ Pass(p)
    BY <1>3, <2>1, <2>4, PairedApart
  <2>5. ~PressHost(p) /\ ~Answered(p) /\ ~Unanswered(p) /\ ~UdpAdmit(p) /\ ~Challenge(p)
    BY <1>3 DEF PressHost, Answered, Unanswered, UdpAdmit, Challenge, UdpServes, Direct
  <2>6. ~TurnAway(p) /\ ~Accept(p) /\ ~HandshakeFails(p) /\ ~HandshakeHeard(p)
    BY <1>3, <2>1 DEF TurnAway, Accept, HandshakeFails, HandshakeHeard, Shape, Direct
  <2> QED
    BY <1>3, <2>2, <2>3, <2>4, <2>5, <2>6 DEF Machine, Panel, Advance, Blocked, Rest
<1>4. ASSUME NEW p \in Machines, Machine(p), Direct PROVE Paired'
  BY <1>4, GoesLocal, PairedDirect DEF Sane
<1> QED
  BY <1>1, <1>2, <1>3, <1>4 DEF Next, ConnectThread, vars, netVars

LEMMA AgreeInit == Init => Words /\ Pace /\ Paired
<1> SUFFICES ASSUME Init PROVE Words /\ Pace /\ Paired
  OBVIOUS
<1>1. PICK s : s = Fresh
  OBVIOUS
<1>2. s.state = "idle" /\ s.token = 0 /\ s.client = None
  BY <1>1 DEF Fresh
<1>3. /\ ses = [q \in Machines |-> s] /\ at = [q \in Machines |-> "keys"] /\ mail = {} /\ said = {} /\ owner = <<>>
      /\ room = [seats |-> <<>>, ready |-> FALSE] /\ queue = [x \in Sockets |-> <<>>]
  BY <1>1 DEF Init
<1>4. Words
  <2>1. Len(owner) = 0 /\ \A i : i \notin 1..Len(owner)
    BY <1>3
  <2> QED
    BY <1>2, <1>3, <2>1 DEF Words, TokensDrawn, MailSound, Greeted
<1>5. Pace
  BY <1>2, <1>3 DEF Pace, Guest
<1>6. Paired
  <2>1. /\ Len(room.seats) = 0 /\ ~room.ready /\ (\A i : i \notin DOMAIN room.seats)
        /\ \A x \in Sockets : queue[x] = <<>> /\ \A i : i \notin 1..Len(queue[x])
    BY <1>3
  <2>2. \A x : ~Seated(x)
    BY <2>1 DEF Seated
  <2>3. Seats
    <3>1. \A i : i \notin 1..Len(room.seats)
      BY <2>1
    <3> QED
      BY <2>1, <3>1 DEF Seats
  <2>4. \A p \in Machines : ~WaitsFor(p) /\ ~Beyond(p) /\ at[p] # "checking"
    BY <1>2, <1>3 DEF WaitsFor, Beyond
  <2>5. ReadyOnly /\ \A p \in Machines : Waiter(p) /\ Met(p) /\ Spoken(p)
    BY <2>2, <2>4 DEF ReadyOnly, Waiter, Met, Spoken
  <2>6. \A x \in Sockets : Heard(x)
    BY <2>1 DEF Heard
  <2> QED
    BY <2>3, <2>5, <2>6 DEF Paired
<1> QED
  BY <1>4, <1>5, <1>6

(* Two machines that exchange input have the same token and game and are    *)
(* within the delay of each other, and over the relay no input is taken for *)
(* the answer of the game check (net/netplay.c:368 and 678).                *)
THEOREM PartnersDoAgree == Spec => []PartnersAgree
<1>1. ASSUME Sane, Paired PROVE GameBeforeInput
  <2> SUFFICES ASSUME NEW p \in Machines, at[p] = "checking", queue[ses[p].client] # <<>>
               PROVE  Head(queue[ses[p].client]) # "input"
    BY DEF GameBeforeInput
  <2>1. PICK me : me = ses[p].client
    OBVIOUS
  <2>2. WaitsFor(p) /\ me # None
    <3>1. Shape(p, ses[p]) /\ Standing(p, ses[p], at[p], hand[p])
      BY <1>1, Here DEF Sane
    <3> QED
      BY <2>1, <3>1 DEF Shape, Standing, WaitsFor
  <2>3. queue[me] \in Seq(Frames)
    BY <1>1, <2>1, <2>2, MailIs
  <2>4. After(queue[me], {"input"}, Games)
    BY <1>1, <2>1, <2>2 DEF Paired, Waiter, Mail
  <2>5. Head(queue[me]) \notin {"input"}
    BY <2>1, <2>3, <2>4, Taken
  <2> QED
    BY <2>1, <2>5
<1>2. Sane /\ Words /\ Pace /\ Paired => PartnersAgree
  BY <1>1, Together DEF PartnersAgree
<1> QED
  BY <1>2, AgreeInit, SaneInit, SaneNext, WordsNext, PaceNext, PairedNext, PTL DEF Spec

-----------------------------------------------------------------------------
(* The promises of SessionPact. *)
(* What the promises see of a session. *)
OfferOf(s) == IF Offering(s) THEN s.token ELSE 0
PlaceOf(s) == IF s.state # "connected" THEN [phase |-> "out", token |-> 0, game |-> None]
              ELSE [phase |-> IF s.start THEN "in" ELSE "playing", token |-> s.token, game |-> s.game]
Shown == [q \in Machines |-> OfferOf(ses[q])]
Placed == [q \in Machines |-> PlaceOf(ses[q])]

LEMMA PactKept == ASSUME UNCHANGED <<Shown, Placed, owner, said>> PROVE UNCHANGED Pact!vars
BY DEF Pact!vars, Shown, Placed, OfferOf, PlaceOf, Offering

LEMMA PactSays ==
    ASSUME NEW p \in Machines, NEW t \in 0..Len(owner), NEW g \in Games, said' = Names(p, t, g),
           owner \in Seq(Machines), UNCHANGED <<Shown, Placed, owner>>
    PROVE  Pact!Next
<1>1. t <= Len(owner)
  OBVIOUS
<1>2. UNCHANGED <<[q \in Machines |-> IF ses[q].role /\ ses[q].state \in {"waiting", "handshaking"}
                                      THEN ses[q].token ELSE 0],
                  [q \in Machines |-> IF ses[q].state # "connected" THEN [phase |-> "out", token |-> 0, game |-> None]
                                      ELSE [phase |-> IF ses[q].start THEN "in" ELSE "playing",
                                            token |-> ses[q].token, game |-> ses[q].game]]>>
  BY DEF Shown, Placed, OfferOf, PlaceOf, Offering
<1>3. Pact!Say(p, t, g)
  BY <1>1, <1>2 DEF Pact!Say, Names
<1> QED
  BY <1>3 DEF Pact!Next

LEMMA PactLeaves ==
    ASSUME NEW p \in Machines, Shown' = [Shown EXCEPT ![p] = 0], Placed' = [Placed EXCEPT ![p] = Pact!Out],
           UNCHANGED <<owner, said>>
    PROVE  Pact!Next
<1>1. Pact!Leave(p)
  BY DEF Pact!Leave, Shown, Placed, OfferOf, PlaceOf, Offering
<1> QED
  BY <1>1 DEF Pact!Next

LEMMA PactOffers ==
    ASSUME NEW p \in Machines, owner' = Append(owner, p), Shown' = [Shown EXCEPT ![p] = Len(owner')],
           Placed' = [Placed EXCEPT ![p] = Pact!Out], UNCHANGED said
    PROVE  Pact!Next
<1>1. Pact!Offer(p)
  BY DEF Pact!Offer, Shown, Placed, OfferOf, PlaceOf, Offering
<1> QED
  BY <1>1 DEF Pact!Next

LEMMA PactBegins ==
    ASSUME NEW p \in Machines, Placed[p].phase = "in", Placed' = [Placed EXCEPT ![p].phase = "playing"],
           UNCHANGED <<owner, said, Shown>>
    PROVE  Pact!Next
<1>1. Pact!Begin(p)
  BY DEF Pact!Begin, Shown, Placed, OfferOf, PlaceOf, Offering
<1> QED
  BY <1>1 DEF Pact!Next

LEMMA PactEnters ==
    ASSUME NEW p \in Machines, NEW t \in 0..Len(owner), NEW g \in Games, Placed[p] = Pact!Out,
           Shown[p] = t \/ t = 0 \/ owner[t] # p,
           said' \in {said, Names(p, t, g)}, [by |-> p, token |-> t, game |-> g] \in said',
           \E q \in Machines \ {p} : [by |-> q, token |-> t, game |-> g] \in said,
           Placed' = [Placed EXCEPT ![p] = [phase |-> "in", token |-> t, game |-> g]],
           Shown' = [Shown EXCEPT ![p] = 0], UNCHANGED owner
    PROVE  Pact!Next
<1>1. Pact!Enter(p, t, g)
  BY DEF Pact!Enter, Shown, Placed, OfferOf, PlaceOf, Offering, Names
<1> QED
  BY <1>1 DEF Pact!Next

(* A step that only says something. *)
SpeaksOnly(p) ==
    /\ UNCHANGED owner /\ OfferOf(ses'[p]) = OfferOf(ses[p]) /\ PlaceOf(ses'[p]) = PlaceOf(ses[p])
    /\ \E t \in 0..Len(owner), g \in Games : said' = Names(p, t, g)

LEMMA SaidSteps ==
    ASSUME Sane, Words, NEW p \in Machines, Machine(p)
    PROVE  UNCHANGED said \/ SpeaksOnly(p) \/ GuestEnters(p)
<1>1. /\ ses[p] \in Session /\ ses \in [Machines -> Session] /\ Shape(p, ses[p])
      /\ owner \in Seq(Machines) /\ ses[p].token \in Nat /\ ses[p].token <= Len(owner)
  BY Here DEF Sane, WireTypes, Words, TokensDrawn, Session
<1>2. 0 \in 0..Len(owner) /\ ses[p].token \in 0..Len(owner)
  BY <1>1
<1>3. CASE Accept(p)
  <2>1. ses[p].state = "waiting" /\ ses[p].role /\ ses[p].game \in Games /\ UNCHANGED owner
    BY <1>1, <1>3 DEF Accept, Shape
  <2>2. CASE UNCHANGED said
    BY <2>2
  <2>3. ASSUME NEW fd, NEW s, said' = Names(p, ses[p].token, ses[p].game),
               ses' = [ses EXCEPT ![p].client = fd, ![p].peer = s, ![p].state = "handshaking"]
        PROVE  SpeaksOnly(p)
    <3>1. PICK n : n = [ses[p] EXCEPT !.client = fd, !.peer = s, !.state = "handshaking"]
      OBVIOUS
    <3>2. n.state = "handshaking" /\ (n.role <=> ses[p].role) /\ n.token = ses[p].token
      BY <1>1, <3>1 DEF Session
    <3>3. ses'[p] = n
      BY <1>1, <2>3, <3>1
    <3>4. OfferOf(n) = ses[p].token /\ OfferOf(ses[p]) = ses[p].token
      BY <2>1, <3>2 DEF OfferOf, Offering
    <3>5. PlaceOf(n) = PlaceOf(ses[p])
      BY <2>1, <3>2 DEF PlaceOf
    <3> QED
      BY <1>2, <2>1, <2>3, <3>3, <3>4, <3>5 DEF SpeaksOnly
  <2>4. \/ UNCHANGED said
        \/ \E fd, s : /\ said' = Names(p, ses[p].token, ses[p].game)
                      /\ ses' = [ses EXCEPT ![p].client = fd, ![p].peer = s, ![p].state = "handshaking"]
    BY <1>3 DEF Accept
  <2> QED
    BY <2>3, <2>4
<1>4. CASE Challenge(p)
  <2>1. ses[p].state = "waiting" /\ ses[p].game \in Games /\ UNCHANGED <<ses, owner>>
    BY <1>1, <1>4 DEF Challenge, UdpServes, Shape
  <2>2. said' = Names(p, ses[p].token, ses[p].game)
    BY <1>4 DEF Challenge
  <2> QED
    BY <1>2, <2>1, <2>2 DEF SpeaksOnly
<1>5. CASE RelayHeard(p)
  <2>1. ses[p].game \in Games /\ UNCHANGED <<ses, owner>>
    BY <1>1, <1>5 DEF RelayHeard, Shape
  <2>2. UNCHANGED said \/ said' = Names(p, 0, ses[p].game)
    BY <1>5 DEF RelayHeard
  <2> QED
    BY <1>2, <2>1, <2>2 DEF SpeaksOnly
<1>6. CASE Answered(p)
  BY <1>6, AnsweredSays DEF Sane
<1>7. CASE ~(Accept(p) \/ Challenge(p) \/ RelayHeard(p) \/ Answered(p))
  BY <1>7 DEF Machine, Panel, Advance, Blocked, Rest, PressHost, PressJoin, PressDisconnect, PressPause,
     LoadRom, Nothing, TurnAway, TakeSocket, HandshakeFails, HandshakeHeard, UdpAdmit, ConnectFails, RelayPing,
     RelayLost, StartConnect, Unanswered, TakeRelaySeat, GameHeard, GameUnheard, Exchange, PeerLost, Pass, netVars
<1> QED
  BY <1>3, <1>4, <1>5, <1>6, <1>7

(* One machine's step, as the promises see it. *)
LEMMA Seen ==
    ASSUME Sane, NEW p \in Machines, Machine(p)
    PROVE  /\ Shown' = [Shown EXCEPT ![p] = OfferOf(ses'[p])] /\ Placed' = [Placed EXCEPT ![p] = PlaceOf(ses'[p])]
           /\ Shown[p] = OfferOf(ses[p]) /\ Placed[p] = PlaceOf(ses[p])
           /\ (OfferOf(ses'[p]) = OfferOf(ses[p]) => UNCHANGED Shown)
           /\ (PlaceOf(ses'[p]) = PlaceOf(ses[p]) => UNCHANGED Placed)
<1>1. \A q \in Machines \ {p} : ses'[q] = ses[q]
  BY Local DEF Sane
<1> QED
  BY <1>1 DEF Shown, Placed

(* Who enters has been named by the other with the same token and game. *)
LEMMA HostWelcome ==
    ASSUME Sane, Words, NEW p \in Machines, HostEnters(p)
    PROVE  /\ p = Host /\ ses[p].token \in 1..Len(owner) /\ ses[p].game \in Games
           /\ [by |-> p, token |-> ses[p].token, game |-> ses[p].game] \in said
           /\ \E q \in Machines \ {p} : [by |-> q, token |-> ses[p].token, game |-> ses[p].game] \in said
<1>1. /\ ses[p].role /\ Direct /\ ses[p].state \in {"waiting", "handshaking"} /\ Shape(p, ses[p])
      /\ ses[p] \in Session /\ owner \in Seq(Machines) /\ mail \subseteq Question \cup Reply
  BY Here DEF HostEnters, Offering, Sane, WireTypes
<1>2. p = Host /\ ses[p].token # 0 /\ ses[p].game \in Games
  BY <1>1 DEF Shape
<1>3. ses[p].token \in 1..Len(owner)
  BY <1>1, <1>2 DEF Words, TokensDrawn, Session
<1>4. PICK m \in mail : m.to = HostPort /\ m.token = ses[p].token /\ m.game = ses[p].game
  BY DEF HostEnters, Admits
<1>5. Named(Host, m) /\ SecondIs(m)
  BY <1>2, <1>4 DEF Words, MailSound, Second
<1>6. m.from[1] \in Machines \ {p}
  <2>1. m.from \in Sockets
    BY <1>1, <1>4, PortApart DEF Question, Reply
  <2> QED
    BY <1>2, <1>5, <2>1 DEF SecondIs, Sockets
<1> QED
  BY <1>2, <1>3, <1>4, <1>5, <1>6 DEF Named, SecondIs

LEMMA PactStep ==
    ASSUME Sane, Words, Paired, NEW p \in Machines, Machine(p) PROVE Pact!Next \/ UNCHANGED Pact!vars
<1>1. /\ ses[p] \in Session /\ ses \in [Machines -> Session] /\ Shape(p, ses[p])
      /\ Standing(p, ses[p], at[p], hand[p])
      /\ owner \in Seq(Machines) /\ ses[p].token \in Nat
  BY Here DEF Sane, WireTypes, Session
<1>2. /\ Shown' = [Shown EXCEPT ![p] = OfferOf(ses'[p])] /\ Placed' = [Placed EXCEPT ![p] = PlaceOf(ses'[p])]
      /\ Shown[p] = OfferOf(ses[p]) /\ Placed[p] = PlaceOf(ses[p])
      /\ (OfferOf(ses'[p]) = OfferOf(ses[p]) => UNCHANGED Shown)
      /\ (PlaceOf(ses'[p]) = PlaceOf(ses[p]) => UNCHANGED Placed)
  BY Seen
<1>3. CASE SpeaksOnly(p)
  BY <1>1, <1>2, <1>3, PactSays DEF SpeaksOnly
<1>4. CASE GuestEnters(p)
  <2>1. PICK m \in mail : /\ m.to = hand[p] /\ m.token # 0 /\ m.game = ses[p].game
                          /\ said' = Names(p, m.token, ses[p].game) /\ ses'[p].token = m.token
    BY <1>4 DEF GuestEnters
  <2>2. /\ ses[p].state = "joining" /\ ses'[p].state = "connected" /\ ses'[p].start
        /\ ses'[p].game = ses[p].game /\ UNCHANGED owner /\ p # Host
    BY <1>4 DEF GuestEnters, Connects
  <2>3. ses[p].game \in Games
    BY <1>1, <2>2 DEF Shape
  <2>4. m.token \in 1..Len(owner)
    <3>1. m.token <= Len(owner) /\ m.token \in Nat
      BY Here DEF Words, MailSound, Sane, WireTypes, Question, Reply
    <3> QED
      BY <1>1, <2>1, <3>1
  <2>5. m.token \in 0..Len(owner) /\ owner[m.token] # p
    <3>1. owner[m.token] = Host
      BY <2>4 DEF Words, TokensDrawn
    <3> QED
      BY <1>1, <2>2, <2>4, <3>1
  <2>6. [by |-> Host, token |-> m.token, game |-> ses[p].game] \in said /\ Host \in Machines \ {p}
    BY <2>1, <2>2, SessionAssumption DEF Words, MailSound, Named
  <2>7. OfferOf(ses'[p]) = 0 /\ PlaceOf(ses[p]) = Pact!Out
        /\ PlaceOf(ses'[p]) = [phase |-> "in", token |-> m.token, game |-> ses[p].game]
    BY <2>1, <2>2 DEF OfferOf, Offering, PlaceOf, Pact!Out
  <2>8. [by |-> p, token |-> m.token, game |-> ses[p].game] \in said'
    BY <2>1 DEF Names
  <2> QED
    BY <1>2, <2>1, <2>2, <2>3, <2>5, <2>6, <2>7, <2>8, PactEnters
<1>5. CASE UNCHANGED said /\ HostEnters(p)
  <2>1. /\ ses[p].token \in 1..Len(owner) /\ ses[p].game \in Games
        /\ [by |-> p, token |-> ses[p].token, game |-> ses[p].game] \in said
        /\ \E q \in Machines \ {p} : [by |-> q, token |-> ses[p].token, game |-> ses[p].game] \in said
    BY <1>5, HostWelcome
  <2>2. /\ ses'[p].state = "connected" /\ ses'[p].start /\ ses'[p].token = ses[p].token
        /\ ses'[p].game = ses[p].game /\ UNCHANGED owner /\ Offering(ses[p]) /\ ses[p].state # "connected"
    BY <1>5 DEF HostEnters, Connects
  <2>3. /\ OfferOf(ses[p]) = ses[p].token /\ OfferOf(ses'[p]) = 0 /\ PlaceOf(ses[p]) = Pact!Out
        /\ PlaceOf(ses'[p]) = [phase |-> "in", token |-> ses[p].token, game |-> ses[p].game]
    BY <2>2 DEF OfferOf, Offering, PlaceOf, Pact!Out
  <2>4. ses[p].token \in 0..Len(owner)
    BY <1>1, <2>1
  <2> QED
    BY <1>2, <1>5, <2>1, <2>2, <2>3, <2>4, PactEnters
<1>6. CASE UNCHANGED said /\ RelayEnters(p)
  <2>1. /\ ses'[p].state = "connected" /\ ses'[p].start /\ ses'[p].token = ses[p].token /\ ~Direct
        /\ ses'[p].game = ses[p].game /\ UNCHANGED owner /\ ses[p].state # "connected" /\ at[p] = "checking"
        /\ queue[ses[p].client] # <<>> /\ Head(queue[ses[p].client]) = ses[p].game
    BY <1>6 DEF RelayEnters, Connects
  <2>2. ses[p].token = 0 /\ ses[p].game \in Games /\ ses[p].state = "relay waiting" /\ ses[p].client # None
    BY <1>1, <2>1 DEF Shape, Standing
  <2>3. PICK me : me = ses[p].client
    OBVIOUS
  <2>4. me[1] = p /\ Heard(me) /\ queue[me] \in Seq(Frames) /\ queue[me] # <<>> /\ Head(queue[me]) = ses[p].game
    BY <2>1, <2>2, <2>3, MailIs, ClientUsed
  <2>5. 1 \in 1..Len(queue[me]) /\ queue[me][1] = ses[p].game
    BY <2>4
  <2>6. \E q \in Machines \ {p} : [by |-> q, token |-> 0, game |-> ses[p].game] \in said
    BY <2>2, <2>4, <2>5 DEF Heard
  <2>7. [by |-> p, token |-> 0, game |-> ses[p].game] \in said
    BY <2>1 DEF Paired, Spoken
  <2>8. /\ OfferOf(ses'[p]) = 0 /\ PlaceOf(ses[p]) = Pact!Out
        /\ PlaceOf(ses'[p]) = [phase |-> "in", token |-> 0, game |-> ses[p].game]
    BY <2>1, <2>2 DEF OfferOf, Offering, PlaceOf, Pact!Out
  <2>9. 0 \in 0..Len(owner)
    BY <1>1
  <2> QED
    BY <1>2, <1>6, <2>1, <2>2, <2>6, <2>7, <2>8, <2>9, PactEnters
<1>7. CASE UNCHANGED said /\ Still(p)
  BY <1>2, <1>7, PactKept DEF Still
<1>8. CASE UNCHANGED said /\ Outside(p)
  <2>1. PlaceOf(ses[p]) = Pact!Out /\ PlaceOf(ses'[p]) = Pact!Out /\ UNCHANGED owner
    BY <1>8 DEF Outside, PlaceOf, Pact!Out
  <2>2. CASE Offering(ses'[p])
    <3>1. OfferOf(ses'[p]) = OfferOf(ses[p])
      BY <1>8, <2>2 DEF Outside, OfferOf
    <3> QED
      BY <1>2, <1>8, <2>1, <3>1, PactKept
  <2>3. CASE ~Offering(ses'[p])
    <3>1. OfferOf(ses'[p]) = 0
      BY <2>3 DEF OfferOf
    <3> QED
      BY <1>2, <1>8, <2>1, <3>1, PactLeaves
  <2> QED
    BY <2>2, <2>3
<1>9. CASE UNCHANGED said /\ Leaves(p)
  <2>1. PlaceOf(ses'[p]) = Pact!Out /\ OfferOf(ses'[p]) = 0 /\ UNCHANGED owner
    BY <1>9 DEF Leaves, PlaceOf, OfferOf, Offering, Pact!Out
  <2> QED
    BY <1>2, <1>9, <2>1, PactLeaves
<1>10. CASE UNCHANGED said /\ Draws(p)
  <2>1. PlaceOf(ses'[p]) = Pact!Out /\ OfferOf(ses'[p]) = Len(owner') /\ owner' = Append(owner, p)
    BY <1>10 DEF Draws, PlaceOf, OfferOf, Offering, Pact!Out
  <2> QED
    BY <1>2, <1>10, <2>1, PactOffers
<1>11. CASE UNCHANGED said /\ Plays(p)
  <2>1. PICK h : ses'[p] = [ses[p] EXCEPT !.frames = @ + 1, !.hello = h]
    BY <1>11 DEF Plays
  <2>2. PICK n : n = [ses[p] EXCEPT !.frames = @ + 1, !.hello = h]
    OBVIOUS
  <2>3. /\ n.state = ses[p].state /\ n.token = ses[p].token /\ n.game = ses[p].game
        /\ (n.role <=> ses[p].role) /\ (n.start <=> ses[p].start)
    BY <1>1, <2>2 DEF Session
  <2>4. OfferOf(n) = OfferOf(ses[p])
    BY <2>3 DEF OfferOf, Offering
  <2>5. PlaceOf(n) = PlaceOf(ses[p])
    BY <2>3 DEF PlaceOf
  <2> QED
    BY <1>2, <1>11, <2>1, <2>2, <2>4, <2>5, PactKept DEF Plays
<1>12. CASE UNCHANGED said /\ Begins(p)
  <2>1. PICK n : n = [ses[p] EXCEPT !.start = FALSE]
    OBVIOUS
  <2>2. /\ n.state = "connected" /\ n.token = ses[p].token /\ n.game = ses[p].game
        /\ ~n.start /\ ses'[p] = n /\ ses[p].state = "connected" /\ ses[p].start /\ UNCHANGED owner
    BY <1>1, <1>12, <2>1 DEF Session, Begins
  <2>3. /\ PlaceOf(ses[p]) = [phase |-> "in", token |-> ses[p].token, game |-> ses[p].game]
        /\ PlaceOf(n) = [phase |-> "playing", token |-> ses[p].token, game |-> ses[p].game]
        /\ OfferOf(n) = OfferOf(ses[p])
    BY <2>2 DEF PlaceOf, OfferOf, Offering
  <2>4. Placed[p].phase = "in" /\ PlaceOf(n) = [Placed[p] EXCEPT !.phase = "playing"]
    BY <1>2, <2>3
  <2>5. Placed' = [Placed EXCEPT ![p].phase = "playing"]
    BY <1>2, <2>2, <2>4
  <2> QED
    BY <1>2, <1>12, <2>2, <2>3, <2>4, <2>5, PactBegins
<1>13. \/ Still(p) \/ Quits(p) \/ Draws(p) \/ Plays(p) \/ Begins(p) \/ HostEnters(p) \/ GuestEnters(p)
       \/ RelayEnters(p)
  BY Turns DEF Sane, ConnInv
<1>14. UNCHANGED said \/ SpeaksOnly(p) \/ GuestEnters(p)
  BY SaidSteps
<1> QED
  BY <1>3, <1>4, <1>5, <1>6, <1>7, <1>8, <1>9, <1>10, <1>11, <1>12, <1>13, <1>14 DEF Quits

(* The session implements SessionPact: a machine is in a session only under *)
(* a token and a game that it and another machine have both named, an offer *)
(* is taken up once, and input flows only after a power cycle.              *)
THEOREM SessionKeepsPact == Spec => KeepsPact
<1>1. Init => Pact!Init
  <2> SUFFICES ASSUME Init PROVE Pact!Init
    OBVIOUS
  <2>1. PICK s : s = Fresh
    OBVIOUS
  <2>2. s.state = "idle" /\ ~s.role
    BY <2>1 DEF Fresh
  <2>3. ses = [q \in Machines |-> s] /\ said = {} /\ owner = <<>>
    BY <2>1 DEF Init
  <2> QED
    BY <2>2, <2>3 DEF Pact!Init, Pact!Out
<1>2. Sane /\ Words /\ Paired /\ [Next]_vars => [Pact!Next]_(Pact!vars)
  <2> SUFFICES ASSUME Sane, Words, Paired, [Next]_vars PROVE Pact!Next \/ UNCHANGED Pact!vars
    OBVIOUS
  <2>1. CASE UNCHANGED <<ses, owner, said>>
    <3>1. UNCHANGED <<Shown, Placed, owner, said>>
      BY <2>1 DEF Shown, Placed
    <3> QED
      BY <3>1, PactKept
  <2>2. ASSUME NEW p \in Machines, Machine(p) PROVE Pact!Next \/ UNCHANGED Pact!vars
    BY <2>2, PactStep
  <2> QED
    BY <2>1, <2>2 DEF Next, ConnectThread, Announce, vars, netVars
<1> QED
  BY <1>1, <1>2, AgreeInit, SaneInit, SaneNext, WordsNext, PaceNext, PairedNext, PTL DEF Spec, KeepsPact
=============================================================================
