------------------------- MODULE MCNetplayLockstep -------------------------
(* NetplayLockstep on small instances. *)
EXTENDS NetplayLockstep

(* A challenge or second hello repeated by the UDP handshake, and an input   *)
(* of a session that ran on the same port before this one.                   *)
MCStrays ==
    {[session |-> "token", seq |-> 0, joy |-> "b", crc |-> None],
     [session |-> "stale", seq |-> Delay, joy |-> "b", crc |-> None]}
=============================================================================
