------------------------- MODULE MCServerLifecycle --------------------------
(* Two runs of the server, the second with fewer seats or as many. *)
EXTENDS ServerLifecycle, TLC

CONSTANTS s1, s2, MaxSeats

MCServer == {s1, s2}
MCNSeats == s1 :> MaxSeats @@ s2 :> MaxSeats - 1
=============================================================================
