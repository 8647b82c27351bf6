--------------------------- MODULE MCSingleFlight ---------------------------
(* Three callers and three generations of one key. *)
EXTENDS SingleFlight
MCGens == 1..3
=============================================================================
