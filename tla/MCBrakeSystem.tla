---------------------------- MODULE MCBrakeSystem ----------------------------
(* Small instances of BrakeSystem: pressures scaled down, so that the main  *)
(* reservoir runs empty and the trainline charges within a few steps.       *)
EXTENDS BrakeSystem, TLC
==============================================================================
