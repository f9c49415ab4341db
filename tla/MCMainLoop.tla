----------------------------- MODULE MCMainLoop -----------------------------
(* Small instance of MainLoop: the handlers of a pass may last twice as long *)
(* as an interval, the clock may go on by a unit between two readings, and   *)
(* wraps after the time of one interval and one round of loop(), the least   *)
(* the assumption allows; the bytes are those of one waypoint on both sides  *)
(* of the track, between START and END or out of place.                      *)
EXTENDS MainLoop, TLC
MCQuick == [t \in Timers |-> 1]
MCBytes == {1, 126, 127, 129}
=============================================================================
