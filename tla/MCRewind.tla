------------------------------ MODULE MCRewind ------------------------------
(* Values for TLC: which kinds of movie the player may start. *)
EXTENDS Rewind

NoMovies == {}
BothMovies == {"play", "rec"}
=============================================================================
