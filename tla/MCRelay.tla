------------------------------- MODULE MCRelay -------------------------------
(* Values for Relay's constants that a configuration file cannot write.     *)
EXTENDS Relay

CONSTANTS c1, c2, c3, c4

(* Everyone gives the room's password; or one of them gives another. *)
MCOpen == [x \in Conns |-> None]
MCMixed == [x \in Conns |-> IF x = c3 THEN "wrong" ELSE "right"]
=============================================================================
