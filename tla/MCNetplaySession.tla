-------------------------- MODULE MCNetplaySession --------------------------
(* NetplaySession on small instances. *)
EXTENDS NetplaySession

Alike == [p \in Machines |-> "game"]
Unlike == [Alike EXCEPT !["g1"] = "other"]

Joins == [p \in Machines |-> IF p = "g1" THEN 2 ELSE 1]

(* A guest joins twice: one that has left comes back while its host          *)
(* still believes it there, or after the host has opened anew.               *)
MCBounds == [m \in {"udp", "tcp", "relay"} |->
    CASE m = "tcp" ->
           [pause |-> {}, load |-> {"host"}, joins |-> Joins, roms |-> {Alike, Unlike}]
      [] m = "udp" ->
           [pause |-> {"g1"}, load |-> {}, joins |-> Joins, roms |-> {Alike}]
      [] m = "relay" ->
           [pause |-> {}, load |-> {}, joins |-> Joins, roms |-> {Alike, Unlike}]]
=============================================================================
