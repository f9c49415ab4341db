--------------------------- MODULE MCDccRegisters ---------------------------
(* Small instances of DccRegisters.                                        *)
EXTENDS DccRegisters, TLC
MCThrottleLens == {2}
MCFunctionLens == {1, 2}
MCCvLens == {2}
NoTasks == {}
=============================================================================
