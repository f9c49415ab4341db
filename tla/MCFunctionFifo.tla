--------------------------- MODULE MCFunctionFifo ---------------------------
(* Small instance of FunctionFifo: one lever, one sound, one notch button,  *)
(* the roles spread over three of the five groups.  Prime mover, notch-down *)
(* button, brake and squeal still have the default number 0, which is the   *)
(* bright headlight's too, and the horn has a number out of range; the      *)
(* app's buttons send 0 as well, and the number the map has no place for.   *)
EXTENDS FunctionFifo, TLC
MCFn == [pm |-> 0, notchingEnable |-> 9, notchUp |-> 1, notchDown |-> 0, horn |-> 30,
         headlightBright |-> 0, headlightDim |-> 5, rearlightBright |-> 6,
         rearlightDim |-> 7, brakeSqueal |-> 0, ibrake |-> 0]
MCFunctions == {MCFn[r] : r \in DOMAIN MCFn} \intersect 0..28
=============================================================================
