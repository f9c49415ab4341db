-------------------------- MODULE MCThrottleControl --------------------------
(* Small instances of ThrottleControl: two notches, delays of a second or two, *)
(* and a brake system whose pressures are scaled down to a few values.         *)
EXTENDS ThrottleControl, TLC
==============================================================================
