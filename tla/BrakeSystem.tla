----------------------------- MODULE BrakeSystem -----------------------------
(***************************************************************************)
(* The air brakes of the locomotive (BrakeSystem.cpp): the main reservoir  *)
(* and its compressor, the trainline, the independent (loco), automatic    *)
(* (train) and emergency brake.  The state is one record; each method is   *)
(* an operator from a record to the next one, so that a caller can chain   *)
(* several of them in one step.  BrakesNext is the most general caller.    *)
(*                                                                         *)
(* Pressures are in psi and levers in percent, as in the code.  The        *)
(* effective loco brake is the percent its getter returns (truncated), the *)
(* effective train brake is in tenths (EMERGENCY_BRAKE_FACTOR is 15).      *)
(***************************************************************************)
EXTENDS Integers, FiniteSets

CONSTANTS MainMax, MainMin, MainStart,  \* main reservoir: full, low, at power up
          MainWrap,                     \* width of the unsigned _mainPSI, 2^16
          LineMax, LineMinAuto,         \* trainline: charged, full service
          PerNotch,                     \* lever percent per application
          CarCounts                     \* car counts connectAirLine is given

ASSUME PressureAssumption ==
  /\ {MainMax, MainMin, MainStart, MainWrap, LineMax, LineMinAuto} \subseteq Nat
  /\ MainMin <= MainMax /\ MainStart <= MainMax /\ MainMax < MainWrap
  /\ LineMinAuto < LineMax /\ LineMax < MainStart /\ LineMax < MainMin
  /\ 5 <= LineMax                       \* an application takes up to 5 psi
ASSUME LeverAssumption ==
  PerNotch \in {20, 40, 60, 80, 100} /\ CarCounts \subseteq Nat

VARIABLE brakes

Lower(a, b) == IF a < b THEN a ELSE b
Higher(a, b) == IF a < b THEN b ELSE a

EmergencyFactor == 15

Brakes ==
  [main : 0..(MainWrap - 1), set : 0..LineMax, line : 0..LineMax,
   locoLever : 0..100, trainLever : 0..100,
   effLoco : Nat, effTrain : 0..EmergencyFactor,
   locoOn : BOOLEAN, trainOn : BOOLEAN, emergencyOn : BOOLEAN,
   compressor : BOOLEAN, startup : BOOLEAN,
   cars : CarCounts \union {0}]

\* The constructor; what it does not set is zero in a global object.
NewBrakes ==
  [main |-> MainStart, set |-> LineMax, line |-> 0,
   locoLever |-> 0, trainLever |-> 0, effLoco |-> 0, effTrain |-> 0,
   locoOn |-> FALSE, trainOn |-> FALSE, emergencyOn |-> FALSE,
   compressor |-> FALSE, startup |-> FALSE, cars |-> 0]

\* Mutant of LineGain: the gain is divided by the cars as an integer.
LineGainPerCar(cars) == IF cars = 0 THEN 10 ELSE 10 \div cars

\* psi that one cycle puts into the trainline: a long train fills slowly.
LineGain(cars) == IF cars < 5 THEN 10 ELSE IF cars < 10 THEN 5 ELSE 2

\* cycle(pmRunning): the compressor, then the two pressures.
Cycle(b, pm) ==
  LET start == pm /\ b.startup /\ ~b.compressor /\ b.main < MainMin
      runs == start \/ (b.compressor /\ b.main < MainMax)
  IN  IF ~pm /\ b.compressor
      THEN [b EXCEPT !.compressor = FALSE]
      ELSE [b EXCEPT
              !.compressor = runs,
              !.main = IF runs /\ @ < MainMax THEN Lower(@ + 2, MainMax) ELSE @,
              !.line = IF b.set > @ THEN Lower(@ + LineGain(b.cars), LineMax) ELSE @]

\* Storing a negative value into the unsigned _mainPSI is undefined: builds
\* saturate it to 0 or wrap it.  The test _mainPSI < 0 after it is never true.
StoreMain(psi) == IF psi >= 0 THEN {psi} ELSE {0, psi + MainWrap}

ReleaseLocoBrake(b) ==
  [b EXCEPT !.locoOn = FALSE, !.locoLever = 0, !.effLoco = 0]

\* Mutant of ApplyLocoBrake: an empty reservoir is not told from a low one.
ApplyLocoBrakeEmpty(b, applying) ==
  LET lever == Lower(b.locoLever + PerNotch, 100)
  IN  IF ~applying THEN {ReleaseLocoBrake(b)}
      ELSE {[b EXCEPT !.locoOn = TRUE, !.locoLever = lever, !.main = psi,
                      !.effLoco = (lever * psi) \div (20 * MainMin)]
              : psi \in StoreMain(b.main - lever \div 20)}

\* applyLocoBrake(applying), as the set of possible outcomes.
ApplyLocoBrake(b, applying) ==
  LET lever == Lower(b.locoLever + PerNotch, 100)
      on == [b EXCEPT !.locoOn = TRUE, !.locoLever = lever]
  IN  IF ~applying THEN {ReleaseLocoBrake(b)}
      ELSE IF b.main = 0 THEN {[on EXCEPT !.effLoco = 0]}
      ELSE {[on EXCEPT !.main = psi,
                       !.effLoco = IF b.main < LineMax
                                     THEN (lever * psi) \div (20 * MainMin)
                                     ELSE lever]
              : psi \in StoreMain(b.main - lever \div 20)}

\* applyTrainBrake(applying)
ApplyTrainBrake(b, applying) ==
  LET lever == Lower(b.trainLever + PerNotch, 100)
      set == LineMax - (lever * (LineMax - LineMinAuto)) \div 100
  IN  IF applying
      THEN [b EXCEPT !.trainOn = TRUE, !.trainLever = lever,
                     !.set = set, !.line = set,
                     !.effTrain = (10 * (LineMax - Higher(set, LineMinAuto)))
                                    \div (LineMax - LineMinAuto)]
      ELSE [b EXCEPT !.trainOn = FALSE, !.trainLever = 0, !.set = LineMax,
                     !.effTrain = 0]

\* Mutant of ApplyEmergency: its release forgets the train brake's effort.
EmergencyForgetsTrain(b, applying) ==
  IF applying
  THEN [b EXCEPT !.emergencyOn = TRUE, !.set = 0, !.line = 0,
                 !.effLoco = 100, !.effTrain = EmergencyFactor]
  ELSE [b EXCEPT !.emergencyOn = FALSE, !.set = LineMax, !.effTrain = 0]

\* applyEmmergency(applying)
ApplyEmergency(b, applying) ==
  IF applying
  THEN [b EXCEPT !.emergencyOn = TRUE, !.set = 0, !.line = 0,
                 !.effLoco = 100, !.effTrain = EmergencyFactor]
  ELSE [b EXCEPT !.emergencyOn = FALSE, !.set = LineMax]

\* connectAirLine(connecting, carCount)
ConnectAirLine(b, connecting, cars) ==
  [b EXCEPT !.cars = cars,
            !.line = IF connecting THEN Higher(@ - 5 * cars, 0) ELSE @]

\* setPMRunning(complete)
SetPMRunning(b, complete) == [b EXCEPT !.startup = complete]

-----------------------------------------------------------------------------
BrakesInit == brakes = NewBrakes

\* Any caller, in any order.  The throttle calls them under its own conditions
\* (ThrottleControl), which is where the charging of the trainline belongs.
BrakesNext ==
  \E on \in BOOLEAN :
    \/ brakes' = Cycle(brakes, on)
    \/ brakes' \in ApplyLocoBrake(brakes, on)
    \/ brakes' = ApplyTrainBrake(brakes, on)
    \/ brakes' = ApplyEmergency(brakes, on)
    \/ brakes' = SetPMRunning(brakes, on)
    \/ \E n \in CarCounts : brakes' = ConnectAirLine(brakes, on, n)

BrakesSpec == BrakesInit /\ [][BrakesNext]_brakes

-----------------------------------------------------------------------------
(* Properties.                                                             *)

\* The type invariant of the record.  It says of the main reservoir only that
\* it is a number of its unsigned type; what keeps it on its gauge is GaugeKept.
BrakesTypeOK == brakes \in Brakes

\* The main reservoir leaves its gauge (0 to MainMax) in one way only: by a
\* loco brake application that takes more than the little that is left, and
\* then it stands at the top of the width.  No cycle pumps it over, and an
\* application to an empty reservoir takes nothing.
Overdraws(b, c) ==
  0 < b.main /\ 20 * b.main < c.locoLever /\ MainWrap - c.main < 5
GaugeKept ==
  [][brakes.main <= MainMax /\ MainMax < brakes'.main => Overdraws(brakes, brakes')]_brakes

\* No order of applications, releases and emergencies leaves the train brake
\* weaker than the lever position it remembers between calls.
TrainEffortCoversLever == brakes.trainLever <= 10 * brakes.effTrain

\* "reservoir pressure is reduced a little" by a loco brake application: it
\* never rises, and falls by 5 psi at most.
LocoBrakeApplied ==
  brakes'.locoOn /\ brakes'.locoLever > 0 /\ brakes' \in ApplyLocoBrake(brakes, TRUE)
ReservoirReducedALittle ==
  [][LocoBrakeApplied => brakes'.main <= brakes.main /\ brakes'.main >= brakes.main - 5]_brakes

\* "reduce the trainline psi on each call": a train brake application never
\* puts air back into the trainline.
TrainBrakeApplied == brakes' = ApplyTrainBrake(brakes, TRUE)
TrainlineReduced == [][TrainBrakeApplied => brakes'.line <= brakes.line]_brakes
=============================================================================
