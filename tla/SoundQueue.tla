----------------------------- MODULE SoundQueue -----------------------------
(***************************************************************************)
(* What the sound server is promised of the samples the emulator rendered: *)
(* a queue.  They come out in the order they went in, each at most once;   *)
(* only the oldest are ever given up.  The samples are counted modulo      *)
(* Laps, and the promise does not hold for what is in the queue when the   *)
(* count starts anew: as many samples as there were, but any samples.      *)
(***************************************************************************)
EXTENDS Integers, Sequences

CONSTANTS
    Samples,    \* what a sample can be
    Noise,      \* a sample nobody rendered
    BlockSizes, \* how many samples may be rendered at a time
    Laps        \* the samples are counted modulo this

VARIABLES
    queue,      \* rendered and not yet played, oldest first
    out,        \* what the server's buffer was filled with
    count       \* samples counted, modulo Laps

vars == <<queue, out, count>>

Init == queue = << >> /\ out = << >> /\ count = 0

Newest(n, s) == SubSeq(s, Len(s) - n + 1, Len(s))
Least(m, n) == IF m < n THEN m ELSE n

(* How much of the queue has been rendered since the count started anew. *)
Settled == Least(count, Len(queue))

(* The newest n samples of s, of which only the newest k are sure. *)
Left(n, s, k) == {t \in [1 .. n -> Samples \union {Noise}] :
                      Newest(Least(k, n), t) = Newest(Least(k, n), s)}

(* A block is queued, if need be in place of the oldest samples. *)
Put(block) ==
    \E n \in Len(block) .. Len(queue) + Len(block) :
        /\ count' = (count + Len(block)) % Laps
        /\ queue' \in Left(n, queue \o block, IF count + Len(block) >= Laps THEN 0
                                              ELSE Settled + Len(block))
        /\ UNCHANGED out

(* A block that leaves the store, or moves, is only sure in one piece. *)
Whole == Settled = Len(queue)

(* The server takes the oldest samples; or they are skipped to catch up. *)
Take(n) == /\ out' \in Left(n, SubSeq(queue, 1, n), IF Whole THEN n ELSE 0)
           /\ queue' = SubSeq(queue, n + 1, Len(queue))
           /\ UNCHANGED count

Skip(n) == /\ queue' = Newest(n, queue)
           /\ UNCHANGED <<out, count>>

(* The store is replaced, with what it held or empty. *)
Move == /\ count' = Len(queue)
        /\ queue' \in Left(Len(queue), queue, IF Whole THEN Len(queue) ELSE 0)
        /\ UNCHANGED out

Clear == queue' = << >> /\ count' = 0 /\ UNCHANGED out

NewBuffer == out' = << >> /\ UNCHANGED <<queue, count>>

Next == \/ \E n \in BlockSizes : \E block \in [1 .. n -> Samples] : Put(block)
        \/ \E n \in 0 .. Len(queue) : Take(n) \/ Skip(n)
        \/ Move \/ Clear \/ NewBuffer

Spec == Init /\ [][Next]_vars
=============================================================================
