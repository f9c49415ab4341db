--------------------------- MODULE ThrottleProofs ----------------------------
(***************************************************************************)
(* Proofs about the air brakes and the throttle that drives them.          *)
(*                                                                         *)
(* The brakes alone, for every reservoir, trainline, length of train and   *)
(* percentage per application: the main reservoir leaves its gauge only    *)
(* when an application takes more than it holds, and the train brake is    *)
(* never weaker than its lever.                                            *)
(*                                                                         *)
(* The throttle, for every notch count, delay and set of commands: each of *)
(* its steps is a short chain of calls of the brakes, so that what holds   *)
(* of them holds here as well; its mode tells the truth, the compressor    *)
(* runs only with the prime mover, and the decoder is in step.  The mode   *)
(* and the compressor are almost inductive: they need the notch and the    *)
(* clock to be natural numbers, and the brakes to be a record with the     *)
(* fields of the class (not that the pressures stay within their gauges).  *)
(***************************************************************************)
EXTENDS ThrottleControl, TLAPS

Fall == LineMax - LineMinAuto

-----------------------------------------------------------------------------
(* The levers and the pressures they ask for.                              *)

LEMMA Positive ==
  /\ MainMax \in Nat /\ MainMin \in Nat /\ MainStart \in Nat /\ MainWrap \in Nat
  /\ 0 < MainMin /\ MainMin <= MainMax /\ MainStart <= MainMax /\ MainMax < MainWrap
  /\ 5 <= MainWrap /\ 5 <= LineMax
  /\ LineMax \in Nat /\ LineMinAuto \in Nat /\ Fall \in Nat /\ Fall > 0 /\ Fall <= LineMax
  /\ PerNotch \in {20, 40, 60, 80, 100} /\ CarCounts \union {0} \subseteq Nat
  BY PressureAssumption, LeverAssumption DEF Fall

LEMMA LeverRange == ASSUME NEW l \in 0..100 PROVE Lower(l + PerNotch, 100) \in 0..100
  BY Positive DEF Lower

\* A lever asks for a pressure between full service and charged.
LEMMA LeverFall == ASSUME NEW l \in 0..100 PROVE (l * Fall) \div 100 \in 0..Fall
<1>1. Fall \in Nat
  BY Positive
<1> QED BY <1>1

\* The effective train brake of a lever, in tenths.
LEMMA EffortRange ==
  ASSUME NEW s \in 0..Fall
  PROVE  (10 * s) \div Fall \in 0..10
<1>1. Fall \in Nat /\ Fall > 0 /\ s \in Nat /\ s <= Fall
  BY Positive
<1> HIDE DEF Fall
<1>2. 10 * s \in Nat /\ 10 * s <= 10 * Fall
  BY <1>1
<1>3. ASSUME NEW a \in Nat, NEW b \in Nat, b > 0, a <= 10 * b PROVE a \div b \in 0..10
  BY <1>3
<1> QED BY <1>1, <1>2, <1>3

\* What an application of the train brake sets, in terms of the fall.
LEMMA TrainBrakeSet ==
  ASSUME NEW l \in 0..100
  PROVE  LET set == LineMax - (l * (LineMax - LineMinAuto)) \div 100
         IN  /\ set \in 0..LineMax
             /\ LineMax - Higher(set, LineMinAuto) = (l * Fall) \div 100
<1> DEFINE f == (l * Fall) \div 100
<1>1. f \in 0..Fall
  BY LeverFall
<1>2. l * (LineMax - LineMinAuto) = l * Fall
  BY DEF Fall
<1> HIDE DEF f
<1>3. LineMax - f \in 0..LineMax /\ LineMax - f >= LineMinAuto
  BY <1>1, Positive DEF Fall
<1>4. Higher(LineMax - f, LineMinAuto) = LineMax - f
  BY <1>1, <1>3, Positive DEF Higher
<1>5. LineMax - (LineMax - f) = f
  BY <1>1, Positive
<1> QED BY <1>2, <1>3, <1>4, <1>5 DEF f

-----------------------------------------------------------------------------
(* Types.                                                                  *)

LEMMA BrakesFields ==
  ASSUME NEW b \in Brakes
  PROVE  /\ b.main \in 0..(MainWrap - 1) /\ b.set \in 0..LineMax /\ b.line \in 0..LineMax
         /\ b.locoLever \in 0..100 /\ b.trainLever \in 0..100
         /\ b.effLoco \in Nat /\ b.effTrain \in 0..EmergencyFactor
         /\ b.cars \in Nat /\ b.compressor \in BOOLEAN
  BY Positive DEF Brakes

LEMMA CycleTypes == ASSUME NEW b \in Brakes, NEW pm \in BOOLEAN PROVE Cycle(b, pm) \in Brakes
<1> DEFINE start == pm /\ b.startup /\ ~b.compressor /\ b.main < MainMin
           runs == start \/ (b.compressor /\ b.main < MainMax)
           main == IF runs /\ b.main < MainMax THEN Lower(b.main + 2, MainMax) ELSE b.main
           line == IF b.set > b.line THEN Lower(b.line + LineGain(b.cars), LineMax) ELSE b.line
<1>1. runs \in BOOLEAN
  BY DEF Brakes
<1>2. main \in 0..(MainWrap - 1)
  BY BrakesFields, Positive DEF Lower
<1>3. line \in 0..LineMax
  <2>1. LineGain(b.cars) \in {2, 5, 10}
    BY DEF LineGain
  <2> QED BY <2>1, BrakesFields, Positive DEF Lower
<1> HIDE DEF main, line, runs
<1>4. [b EXCEPT !.compressor = runs, !.main = main, !.line = line] \in Brakes
  BY <1>1, <1>2, <1>3 DEF Brakes
<1>5. [b EXCEPT !.compressor = FALSE] \in Brakes
  BY DEF Brakes
<1>6. Cycle(b, pm) \in {[b EXCEPT !.compressor = runs, !.main = main, !.line = line],
                        [b EXCEPT !.compressor = FALSE]}
  BY DEF Cycle, runs, main, line
<1> QED BY <1>4, <1>5, <1>6

LEMMA LocoBrakeTypes ==
  ASSUME NEW b \in Brakes, NEW on \in BOOLEAN, NEW c \in ApplyLocoBrake(b, on)
  PROVE  c \in Brakes /\ c.trainLever = b.trainLever /\ c.effTrain = b.effTrain
<1> DEFINE lever == Lower(b.locoLever + PerNotch, 100)
           eff(psi) == IF b.main < LineMax THEN (lever * psi) \div (20 * MainMin) ELSE lever
<1>1. lever \in 0..100
  BY BrakesFields, LeverRange
<1>2. CASE ~on
  <2>1. ApplyLocoBrake(b, on) = {ReleaseLocoBrake(b)}
    BY <1>2, Zenon DEF ApplyLocoBrake
  <2>2. c = [b EXCEPT !.locoOn = FALSE, !.locoLever = 0, !.effLoco = 0]
    BY <2>1 DEF ReleaseLocoBrake
  <2>3. 0 \in 0..100 /\ 0 \in Nat
    OBVIOUS
  <2> HIDE DEF lever, eff
  <2> QED BY <2>2, <2>3 DEF Brakes
<1>3. CASE on /\ b.main = 0
  <2>1. c = [b EXCEPT !.locoOn = TRUE, !.locoLever = lever, !.effLoco = 0]
    BY <1>3 DEF ApplyLocoBrake
  <2> HIDE DEF lever
  <2> QED BY <1>1, <2>1 DEF Brakes
<1>4. CASE on /\ b.main # 0
  <2>0. ApplyLocoBrake(b, on)
          = {[b EXCEPT !.locoOn = TRUE, !.locoLever = lever, !.main = psi,
                       !.effLoco = eff(psi)] : psi \in StoreMain(b.main - lever \div 20)}
    <3> DEFINE at == [b EXCEPT !.locoOn = TRUE, !.locoLever = lever]
    <3>1. ApplyLocoBrake(b, on)
            = {[at EXCEPT !.main = psi, !.effLoco = eff(psi)]
                : psi \in StoreMain(b.main - lever \div 20)}
      BY <1>4, Zenon DEF ApplyLocoBrake
    <3> HIDE DEF lever, eff
    <3>2. ASSUME NEW psi
          PROVE  [at EXCEPT !.main = psi, !.effLoco = eff(psi)]
                   = [b EXCEPT !.locoOn = TRUE, !.locoLever = lever, !.main = psi,
                               !.effLoco = eff(psi)]
      BY DEF Brakes
    <3> HIDE DEF at
    <3> QED BY <3>1, <3>2
  <2>1. PICK psi \in StoreMain(b.main - lever \div 20) :
          c = [b EXCEPT !.locoOn = TRUE, !.locoLever = lever, !.main = psi,
                        !.effLoco = eff(psi)]
    <3> HIDE DEF lever, eff
    <3> QED BY <2>0
  <2>2. lever \div 20 \in 0..5
    BY <1>1
  <2> HIDE DEF lever
  <2>3. psi \in 0..(MainWrap - 1)
    <3>1. b.main \in 1..(MainWrap - 1)
      BY <1>4, BrakesFields, Positive
    <3>2. CASE b.main - lever \div 20 >= 0
      BY <2>2, <3>1, <3>2, Positive DEF StoreMain
    <3>3. CASE ~(b.main - lever \div 20 >= 0)
      BY <2>2, <3>1, <3>3, Positive DEF StoreMain
    <3> QED BY <3>2, <3>3
  <2>4. eff(psi) \in Nat
    <3>1. lever \in Nat /\ psi \in Nat /\ 20 * MainMin \in Nat /\ 20 * MainMin > 0
      BY <1>1, <2>3, Positive
    <3>2. lever * psi \in Nat
      BY <3>1
    <3>3. ASSUME NEW a \in Nat, NEW d \in Nat, d > 0 PROVE a \div d \in Nat
      BY <3>3
    <3> QED BY <3>1, <3>2, <3>3
  <2> HIDE DEF eff
  <2> QED BY <1>1, <2>1, <2>3, <2>4 DEF Brakes
<1> QED BY <1>2, <1>3, <1>4

\* An application of the train brake moves the lever on, and the effort is the
\* share of the fall that the lever asks for.
LEMMA TrainBrakeTypes ==
  ASSUME NEW b \in Brakes, NEW on \in BOOLEAN
  PROVE  LET c == ApplyTrainBrake(b, on)
             lever == IF on THEN Lower(b.trainLever + PerNotch, 100) ELSE 0
         IN  /\ c \in Brakes
             /\ c.trainLever = lever
             /\ c.effTrain = (10 * ((lever * Fall) \div 100)) \div Fall
<1> DEFINE lever == Lower(b.trainLever + PerNotch, 100)
           set == LineMax - (lever * (LineMax - LineMinAuto)) \div 100
           eff == (10 * (LineMax - Higher(set, LineMinAuto))) \div (LineMax - LineMinAuto)
<1>1. lever \in 0..100
  BY BrakesFields, LeverRange
<1>2. CASE on
  <2>1. ApplyTrainBrake(b, on) = [b EXCEPT !.trainOn = TRUE, !.trainLever = lever,
           !.set = set, !.line = set, !.effTrain = eff]
    BY <1>2 DEF ApplyTrainBrake
  <2> HIDE DEF lever
  <2>2. set \in 0..LineMax /\ LineMax - Higher(set, LineMinAuto) = (lever * Fall) \div 100
    BY <1>1, TrainBrakeSet
  <2>3. eff = (10 * ((lever * Fall) \div 100)) \div Fall
    BY <2>2 DEF Fall
  <2>4. eff \in 0..10
    BY <1>1, <2>3, LeverFall, EffortRange
  <2>5. eff \in 0..EmergencyFactor
    BY <2>4 DEF EmergencyFactor
  <2> HIDE DEF set, eff
  <2>6. ApplyTrainBrake(b, on) \in Brakes
    <3>1. [b EXCEPT !.trainOn = TRUE, !.trainLever = lever, !.set = set, !.line = set,
                    !.effTrain = eff] \in Brakes
      BY <1>1, <2>2, <2>5 DEF Brakes
    <3> QED BY <2>1, <3>1, Zenon
  <2>7. ApplyTrainBrake(b, on).trainLever = lever /\ ApplyTrainBrake(b, on).effTrain = eff
    BY <2>1 DEF Brakes
  <2>8. lever = IF on THEN Lower(b.trainLever + PerNotch, 100) ELSE 0
    BY <1>2 DEF lever
  <2> QED BY <2>3, <2>6, <2>7, <2>8, Zenon
<1>3. CASE ~on
  <2>1. ApplyTrainBrake(b, on) = [b EXCEPT !.trainOn = FALSE, !.trainLever = 0,
           !.set = LineMax, !.effTrain = 0]
    BY <1>3 DEF ApplyTrainBrake
  <2>2. LineMax \in 0..LineMax /\ 0 \in 0..EmergencyFactor
    BY Positive DEF EmergencyFactor
  <2>3. (10 * ((0 * Fall) \div 100)) \div Fall = 0
    <3>1. Fall \in Nat /\ Fall > 0 /\ 0 * Fall = 0 /\ 0 \div 100 = 0 /\ 10 * 0 = 0
      BY Positive
    <3>2. ASSUME NEW d \in Nat, d > 0 PROVE 0 \div d = 0
      BY <3>2
    <3> QED BY <3>1, <3>2
  <2> HIDE DEF lever, set, eff
  <2>4. ApplyTrainBrake(b, on) \in Brakes
    <3>1. 0 \in 0..100
      OBVIOUS
    <3>2. [b EXCEPT !.trainOn = FALSE, !.trainLever = 0, !.set = LineMax,
                    !.effTrain = 0] \in Brakes
      BY <2>2, <3>1 DEF Brakes
    <3> QED BY <2>1, <3>2, Zenon
  <2>5. ApplyTrainBrake(b, on).trainLever = 0 /\ ApplyTrainBrake(b, on).effTrain = 0
    BY <2>1 DEF Brakes
  <2>6. 0 = IF on THEN Lower(b.trainLever + PerNotch, 100) ELSE 0
    BY <1>3
  <2> QED BY <2>3, <2>4, <2>5, <2>6, Zenon
<1> QED BY <1>2, <1>3

LEMMA EmergencyTypes ==
  ASSUME NEW b \in Brakes, NEW on \in BOOLEAN
  PROVE  LET c == ApplyEmergency(b, on)
         IN  /\ c \in Brakes /\ c.trainLever = b.trainLever
             /\ c.effTrain \in {b.effTrain, EmergencyFactor}
<1>1. /\ 0 \in 0..LineMax /\ LineMax \in 0..LineMax /\ 100 \in Nat
      /\ EmergencyFactor \in 0..EmergencyFactor
  BY Positive DEF EmergencyFactor
<1>2. CASE on
  <2>1. ApplyEmergency(b, on) = [b EXCEPT !.emergencyOn = TRUE, !.set = 0, !.line = 0,
           !.effLoco = 100, !.effTrain = EmergencyFactor]
    BY <1>2 DEF ApplyEmergency
  <2>2. ApplyEmergency(b, on) \in Brakes
    <3>1. [b EXCEPT !.emergencyOn = TRUE, !.set = 0, !.line = 0,
                    !.effLoco = 100, !.effTrain = EmergencyFactor] \in Brakes
      BY <1>1 DEF Brakes
    <3> QED BY <2>1, <3>1, Zenon
  <2>3. /\ ApplyEmergency(b, on).trainLever = b.trainLever
        /\ ApplyEmergency(b, on).effTrain = EmergencyFactor
    BY <2>1 DEF Brakes
  <2> QED BY <2>2, <2>3
<1>3. CASE ~on
  <2>1. ApplyEmergency(b, on) = [b EXCEPT !.emergencyOn = FALSE, !.set = LineMax]
    BY <1>3 DEF ApplyEmergency
  <2>2. ApplyEmergency(b, on) \in Brakes
    <3>1. [b EXCEPT !.emergencyOn = FALSE, !.set = LineMax] \in Brakes
      BY <1>1 DEF Brakes
    <3> QED BY <2>1, <3>1, Zenon
  <2>3. /\ ApplyEmergency(b, on).trainLever = b.trainLever
        /\ ApplyEmergency(b, on).effTrain = b.effTrain
    BY <2>1 DEF Brakes
  <2> QED BY <2>2, <2>3
<1> QED BY <1>2, <1>3

LEMMA AirLineTypes ==
  ASSUME NEW b \in Brakes, NEW on \in BOOLEAN, NEW n \in CarCounts
  PROVE  LET c == ConnectAirLine(b, on, n)
         IN  c \in Brakes /\ c.trainLever = b.trainLever /\ c.effTrain = b.effTrain
<1> DEFINE line == IF on THEN Higher(b.line - 5 * n, 0) ELSE b.line
<1>1. line \in 0..LineMax
  BY BrakesFields, Positive DEF Higher
<1> HIDE DEF line
<1>2. [b EXCEPT !.cars = n, !.line = line] \in Brakes
  BY <1>1 DEF Brakes
<1>3. ConnectAirLine(b, on, n) = [b EXCEPT !.cars = n, !.line = line]
  BY DEF ConnectAirLine, line
<1> QED BY <1>2, <1>3

-----------------------------------------------------------------------------
(* The train brake.                                                        *)

LeverSteps == {0, 20, 40, 60, 80, 100}
Covered(b) == b.trainLever \in LeverSteps /\ b.trainLever <= 10 * b.effTrain

\* A fall in multiples of 5 psi gives every lever position its exact share.
LEMMA ExactShare ==
  ASSUME NEW K \in Nat, Fall = 5 * K, NEW l \in LeverSteps
  PROVE  10 * ((10 * ((l * Fall) \div 100)) \div Fall) = l
<1>1. K > 0
  BY Positive
<1>2. /\ (0 * (5 * K)) \div 100 = 0 * K /\ (20 * (5 * K)) \div 100 = 1 * K
      /\ (40 * (5 * K)) \div 100 = 2 * K /\ (60 * (5 * K)) \div 100 = 3 * K
      /\ (80 * (5 * K)) \div 100 = 4 * K /\ (100 * (5 * K)) \div 100 = 5 * K
  OBVIOUS
<1>3. ASSUME NEW m \in 0..5 PROVE (10 * (m * K)) \div (5 * K) = 2 * m
  <2>1. 10 * (m * K) = (2 * m) * (5 * K)
    OBVIOUS
  <2>2. ASSUME NEW q \in Nat, NEW d \in Nat, d > 0 PROVE (q * d) \div d = q
    BY <2>2
  <2>3. 2 * m \in Nat /\ 5 * K \in Nat /\ 5 * K > 0
    BY <1>1
  <2> QED BY <2>1, <2>2, <2>3
<1>4. PICK m \in 0..5 : l = 20 * m
  BY DEF LeverSteps
<1>5. (l * (5 * K)) \div 100 = m * K
  BY <1>2, <1>4
<1>6. (10 * (m * K)) \div (5 * K) = 2 * m
  BY <1>3
<1> QED BY <1>4, <1>5, <1>6

\* A call of one of the methods takes the brakes from b to c.
Method(b, c) ==
  \E on \in BOOLEAN :
    \/ c = Cycle(b, on)
    \/ c \in ApplyLocoBrake(b, on)
    \/ c = ApplyTrainBrake(b, on)
    \/ c = ApplyEmergency(b, on)
    \/ c = SetPMRunning(b, on)
    \/ \E n \in CarCounts : c = ConnectAirLine(b, on, n)

\* A call keeps the types; it leaves the lever and does not lower the effort
\* of the train brake, or it moves the lever and sets the effort it asks for.
LEMMA MethodEffect ==
  ASSUME NEW b \in Brakes, NEW c, Method(b, c)
  PROVE  /\ c \in Brakes
         /\ \/ c.trainLever = b.trainLever /\ c.effTrain \in {b.effTrain, EmergencyFactor}
            \/ \E on \in BOOLEAN :
                 LET l == IF on THEN Lower(b.trainLever + PerNotch, 100) ELSE 0
                 IN  /\ c.trainLever = l
                     /\ c.effTrain = (10 * ((l * Fall) \div 100)) \div Fall
<1> DEFINE Same == c.trainLever = b.trainLever /\ c.effTrain \in {b.effTrain, EmergencyFactor}
<1>1. ASSUME NEW pm \in BOOLEAN, c = Cycle(b, pm) PROVE c \in Brakes /\ Same
  <2>1. Cycle(b, pm) \in Brakes
    BY CycleTypes
  <2>2. Cycle(b, pm).trainLever = b.trainLever /\ Cycle(b, pm).effTrain = b.effTrain
    BY DEF Cycle, Brakes
  <2> QED BY <1>1, <2>1, <2>2
<1>2. ASSUME NEW on \in BOOLEAN, c \in ApplyLocoBrake(b, on) PROVE c \in Brakes /\ Same
  BY <1>2, LocoBrakeTypes
<1>3. ASSUME NEW on \in BOOLEAN, c = ApplyEmergency(b, on) PROVE c \in Brakes /\ Same
  BY <1>3, EmergencyTypes
<1>4. ASSUME NEW on \in BOOLEAN, c = SetPMRunning(b, on) PROVE c \in Brakes /\ Same
  BY <1>4 DEF SetPMRunning, Brakes
<1>5. ASSUME NEW on \in BOOLEAN, NEW n \in CarCounts, c = ConnectAirLine(b, on, n)
      PROVE  c \in Brakes /\ Same
  BY <1>5, AirLineTypes
<1>6. ASSUME NEW on \in BOOLEAN, c = ApplyTrainBrake(b, on)
      PROVE  /\ c \in Brakes
             /\ LET l == IF on THEN Lower(b.trainLever + PerNotch, 100) ELSE 0
                IN  /\ c.trainLever = l
                    /\ c.effTrain = (10 * ((l * Fall) \div 100)) \div Fall
  BY <1>6, TrainBrakeTypes
<1> QED BY <1>1, <1>2, <1>3, <1>4, <1>5, <1>6 DEF Method

\* No call leaves the effort behind the lever.
LEMMA MethodCovers ==
  ASSUME NEW K \in Nat, Fall = 5 * K, NEW b \in Brakes, Covered(b), NEW c, Method(b, c)
  PROVE  Covered(c)
<1>1. CASE c.trainLever = b.trainLever /\ c.effTrain \in {b.effTrain, EmergencyFactor}
  <2>1. b.trainLever \in 0..100 /\ b.trainLever <= 10 * b.effTrain
    BY BrakesFields DEF Covered
  <2>2. b.trainLever <= 10 * 15
    BY <2>1
  <2>3. CASE c.effTrain = b.effTrain
    BY <1>1, <2>1, <2>3 DEF Covered
  <2>4. CASE c.effTrain = EmergencyFactor
    BY <1>1, <2>2, <2>4 DEF Covered, EmergencyFactor
  <2> QED BY <1>1, <2>3, <2>4
<1>2. ASSUME NEW on \in BOOLEAN,
             LET l == IF on THEN Lower(b.trainLever + PerNotch, 100) ELSE 0
             IN  c.trainLever = l /\ c.effTrain = (10 * ((l * Fall) \div 100)) \div Fall
      PROVE  Covered(c)
  <2> DEFINE l == IF on THEN Lower(b.trainLever + PerNotch, 100) ELSE 0
  <2>1. l \in LeverSteps
    <3>1. b.trainLever \in LeverSteps
      BY DEF Covered
    <3> QED BY <3>1, Positive DEF LeverSteps, Lower
  <2>2. c.trainLever = l /\ c.effTrain = (10 * ((l * Fall) \div 100)) \div Fall
    BY <1>2
  <2> HIDE DEF l
  <2>3. 10 * c.effTrain = l
    BY <2>1, <2>2, ExactShare
  <2>4. l <= l
    BY <2>1 DEF LeverSteps
  <2> QED BY <2>1, <2>2, <2>3, <2>4 DEF Covered
<1> QED BY <1>1, <1>2, MethodEffect

\* The most general caller makes one call in a step.
LEMMA BrakesCall == BrakesNext => Method(brakes, brakes')
  BY DEF BrakesNext, Method

LEMMA BrakesStart == BrakesInit => brakes \in Brakes /\ Covered(brakes)
<1>1. BrakesInit => brakes \in Brakes
  BY Positive DEF BrakesInit, NewBrakes, Brakes, EmergencyFactor
<1>2. BrakesInit => brakes.trainLever = 0 /\ brakes.effTrain = 0
  BY DEF BrakesInit, NewBrakes
<1> QED BY <1>1, <1>2 DEF Covered, LeverSteps

\* The record keeps its type; the unsigned reservoir only its width.
LEMMA BrakesTypes == BrakesSpec => []BrakesTypeOK
<1>1. BrakesInit => BrakesTypeOK
  BY BrakesStart DEF BrakesTypeOK
<1>2. BrakesTypeOK /\ [BrakesNext]_brakes => BrakesTypeOK'
  BY BrakesCall, MethodEffect DEF BrakesTypeOK
<1> QED BY <1>1, <1>2, PTL DEF BrakesSpec

\* The train brake is never weaker than its lever, through any order of
\* applications, releases and emergencies, if the fall of full service is a
\* multiple of 5 psi as 90 - 60 is (else the division loses a share).
THEOREM LeverCovered ==
  ASSUME NEW K \in Nat, LineMax - LineMinAuto = 5 * K
  PROVE  BrakesSpec => []TrainEffortCoversLever
<1> DEFINE BInv == brakes \in Brakes /\ Covered(brakes)
<1>0. Fall = 5 * K
  BY DEF Fall
<1>1. BrakesInit => BInv
  BY BrakesStart
<1>2. BInv /\ [BrakesNext]_brakes => BInv'
  <2> SUFFICES ASSUME BInv, [BrakesNext]_brakes PROVE BInv'
    OBVIOUS
  <2>1. CASE BrakesNext
    <3>1. Method(brakes, brakes')
      BY <2>1, BrakesCall
    <3> QED BY <1>0, <3>1, MethodEffect, MethodCovers
  <2>2. CASE UNCHANGED brakes
    BY <2>2
  <2> QED BY <2>1, <2>2
<1>3. BInv => TrainEffortCoversLever
  BY DEF Covered, TrainEffortCoversLever
<1> HIDE DEF BInv
<1> QED BY <1>1, <1>2, <1>3, PTL DEF BrakesSpec

-----------------------------------------------------------------------------
(* The main reservoir.                                                     *)

\* A call that takes the brakes from b to c leaves the gauge only by drawing
\* more than the reservoir holds.
Gauged(b, c) == b.main <= MainMax => c.main <= MainMax \/ Overdraws(b, c)

LEMMA CycleGauge ==
  ASSUME NEW b \in Brakes, NEW pm \in BOOLEAN, b.main <= MainMax
  PROVE  Cycle(b, pm).main <= MainMax
<1> DEFINE runs == \/ pm /\ b.startup /\ ~b.compressor /\ b.main < MainMin
                   \/ b.compressor /\ b.main < MainMax
           line == IF b.set > b.line THEN Lower(b.line + LineGain(b.cars), LineMax) ELSE b.line
           main == IF runs /\ b.main < MainMax THEN Lower(b.main + 2, MainMax) ELSE b.main
<1>1. main <= MainMax
  BY BrakesFields, Positive DEF Lower
<1> HIDE DEF main, runs, line
<1>2. \/ Cycle(b, pm) = [b EXCEPT !.compressor = FALSE]
      \/ Cycle(b, pm) = [b EXCEPT !.compressor = runs, !.main = main, !.line = line]
  BY DEF Cycle, runs, main, line
<1>3. [b EXCEPT !.compressor = FALSE].main = b.main
  BY DEF Brakes
<1>4. [b EXCEPT !.compressor = runs, !.main = main, !.line = line].main = main
  BY DEF Brakes
<1> QED BY <1>1, <1>2, <1>3, <1>4

LEMMA LocoBrakeGauge ==
  ASSUME NEW b \in Brakes, NEW on \in BOOLEAN, NEW c \in ApplyLocoBrake(b, on)
  PROVE  Gauged(b, c)
<1> DEFINE lever == Lower(b.locoLever + PerNotch, 100)
           eff(psi) == IF b.main < LineMax THEN (lever * psi) \div (20 * MainMin) ELSE lever
<1>1. lever \in 0..100
  BY BrakesFields, LeverRange
<1>2. CASE ~on
  <2>1. ApplyLocoBrake(b, on) = {[b EXCEPT !.locoOn = FALSE, !.locoLever = 0, !.effLoco = 0]}
    BY <1>2, Zenon DEF ApplyLocoBrake, ReleaseLocoBrake
  <2>2. c.main = b.main
    BY <2>1 DEF Brakes
  <2> QED BY <2>2 DEF Gauged
<1>3. CASE on /\ b.main = 0
  <2>1. c = [b EXCEPT !.locoOn = TRUE, !.locoLever = lever, !.effLoco = 0]
    BY <1>3 DEF ApplyLocoBrake
  <2> HIDE DEF lever
  <2>2. c.main = b.main
    BY <2>1 DEF Brakes
  <2> QED BY <2>2 DEF Gauged
<1>4. CASE on /\ b.main # 0
  <2>1. PICK psi \in StoreMain(b.main - lever \div 20) :
          c = [b EXCEPT !.locoOn = TRUE, !.locoLever = lever, !.main = psi,
                        !.effLoco = eff(psi)]
    <3> DEFINE at == [b EXCEPT !.locoOn = TRUE, !.locoLever = lever]
    <3>1. ApplyLocoBrake(b, on)
            = {[at EXCEPT !.main = psi, !.effLoco = eff(psi)]
                : psi \in StoreMain(b.main - lever \div 20)}
      BY <1>4, Zenon DEF ApplyLocoBrake
    <3> HIDE DEF lever, eff
    <3>2. ASSUME NEW psi
          PROVE  [at EXCEPT !.main = psi, !.effLoco = eff(psi)]
                   = [b EXCEPT !.locoOn = TRUE, !.locoLever = lever, !.main = psi,
                               !.effLoco = eff(psi)]
      BY DEF Brakes
    <3> HIDE DEF at
    <3> QED BY <3>1, <3>2
  <2>2. lever \div 20 \in 0..5 /\ 20 * (lever \div 20) <= lever
    BY <1>1
  <2> HIDE DEF lever, eff
  <2>3. c.main = psi /\ c.locoLever = lever
    BY <2>1 DEF Brakes
  <2>4. b.main \in Nat /\ b.main > 0
    BY <1>4, BrakesFields, Positive
  <2> SUFFICES ASSUME b.main <= MainMax, ~(psi <= MainMax) PROVE Overdraws(b, c)
    BY <2>3 DEF Gauged
  <2>5. b.main < lever \div 20 /\ psi = b.main - lever \div 20 + MainWrap
    BY <2>2, <2>4, Positive DEF StoreMain
  <2>6. 20 * b.main < lever
    BY <1>1, <2>2, <2>4, <2>5
  <2>7. MainWrap - psi < 5
    BY <2>2, <2>4, <2>5, Positive
  <2> QED BY <2>3, <2>4, <2>6, <2>7 DEF Overdraws
<1> QED BY <1>2, <1>3, <1>4

\* The other methods leave the reservoir and the loco brake's lever alone; only
\* a release puts that lever back.
LEMMA MainKept ==
  ASSUME NEW b \in Brakes, NEW on \in BOOLEAN
  PROVE  /\ ApplyTrainBrake(b, on).main = b.main
         /\ ApplyTrainBrake(b, on).locoLever = b.locoLever
         /\ ApplyEmergency(b, on).main = b.main
         /\ SetPMRunning(b, on).main = b.main
         /\ ReleaseLocoBrake(b).main = b.main
         /\ \A n \in CarCounts : ConnectAirLine(b, on, n).main = b.main
<1>1. ApplyTrainBrake(b, on).main = b.main /\ ApplyTrainBrake(b, on).locoLever = b.locoLever
  BY DEF ApplyTrainBrake, Brakes
<1>2. ApplyEmergency(b, on).main = b.main
  BY DEF ApplyEmergency, Brakes
<1> QED BY <1>1, <1>2 DEF SetPMRunning, ReleaseLocoBrake, ConnectAirLine, Brakes

\* The reservoir of the brakes alone: whoever calls, and in whatever order, it
\* leaves its gauge only when an application takes more than it holds.
THEOREM ReservoirOnGauge == BrakesSpec => GaugeKept
<1>1. BrakesTypeOK /\ BrakesNext => Gauged(brakes, brakes')
  <2> SUFFICES ASSUME brakes \in Brakes, BrakesNext PROVE Gauged(brakes, brakes')
    BY DEF BrakesTypeOK
  <2>1. PICK on \in BOOLEAN :
          \/ brakes' = Cycle(brakes, on)
          \/ brakes' \in ApplyLocoBrake(brakes, on)
          \/ brakes' = ApplyTrainBrake(brakes, on)
          \/ brakes' = ApplyEmergency(brakes, on)
          \/ brakes' = SetPMRunning(brakes, on)
          \/ \E n \in CarCounts : brakes' = ConnectAirLine(brakes, on, n)
    BY DEF BrakesNext
  <2>2. CASE brakes' = Cycle(brakes, on)
    BY <2>2, CycleGauge DEF Gauged
  <2>3. CASE brakes' \in ApplyLocoBrake(brakes, on)
    BY <2>3, LocoBrakeGauge
  <2>4. CASE brakes'.main = brakes.main
    BY <2>4 DEF Gauged
  <2> QED BY <2>1, <2>2, <2>3, <2>4, MainKept
<1>2. BrakesTypeOK /\ [BrakesNext]_brakes
        => [brakes.main <= MainMax /\ MainMax < brakes'.main
              => Overdraws(brakes, brakes')]_brakes
  <2>1. BrakesTypeOK /\ BrakesNext /\ brakes.main <= MainMax /\ MainMax < brakes'.main
          => Overdraws(brakes, brakes')
    <3> SUFFICES ASSUME BrakesTypeOK, BrakesNext, brakes.main <= MainMax, MainMax < brakes'.main
                 PROVE  Overdraws(brakes, brakes')
      OBVIOUS
    <3>1. brakes' \in Brakes
      BY BrakesCall, MethodEffect DEF BrakesTypeOK
    <3>2. brakes'.main \in Nat /\ MainMax \in Nat
      BY <3>1, BrakesFields, Positive
    <3> QED BY <1>1, <3>2 DEF Gauged
  <2> QED BY <2>1
<1> QED BY <1>2, BrakesTypes, PTL DEF BrakesSpec, GaugeKept

-----------------------------------------------------------------------------
(* The throttle: mode and compressor.                                      *)

Fields ==
  [main : Int, set : Int, line : Int, locoLever : Int, trainLever : Int,
   effLoco : Int, effTrain : Int, locoOn : BOOLEAN, trainOn : BOOLEAN,
   emergencyOn : BOOLEAN, compressor : BOOLEAN, startup : BOOLEAN, cars : Int]
TInv ==
  /\ notch \in Nat /\ uptime \in Nat /\ brakes \in Fields
  /\ ModeTellsTruth /\ CompressorNeedsPM

\* A cycle moves pressures and the compressor, which stops without the prime
\* mover.
LEMMA CycleEffect ==
  ASSUME NEW b \in Fields, NEW pm \in BOOLEAN
  PROVE  /\ Cycle(b, pm) \in Fields
         /\ AnyBrakeOn(Cycle(b, pm)) = AnyBrakeOn(b)
         /\ ~pm => ~Cycle(b, pm).compressor
<1>1. /\ \A x, y \in Int : Lower(x, y) \in Int
      /\ LineGain(b.cars) \in Int
      /\ MainMax \in Int /\ MainMin \in Int /\ LineMax \in Int
      /\ b.main + 2 \in Int /\ b.main \in Int /\ b.line \in Int
      /\ b.line + LineGain(b.cars) \in Int
  BY PressureAssumption DEF Lower, LineGain, Fields
<1>. HIDE DEF Lower, LineGain
<1>2. CASE ~pm /\ b.compressor
  <2>1. Cycle(b, pm) = [b EXCEPT !.compressor = FALSE]
    BY <1>2 DEF Cycle
  <2>2. Cycle(b, pm) \in Fields  BY <2>1, ZenonT(30) DEF Fields
  <2>3. AnyBrakeOn(Cycle(b, pm)) = AnyBrakeOn(b)  BY <2>1 DEF Fields, AnyBrakeOn
  <2>4. ~Cycle(b, pm).compressor  BY <2>1 DEF Fields
  <2>. QED  BY <2>2, <2>3, <2>4
<1>3. CASE ~(~pm /\ b.compressor)
  <2> DEFINE runs == \/ pm /\ b.startup /\ ~b.compressor /\ b.main < MainMin
                     \/ b.compressor /\ b.main < MainMax
             psi == IF runs /\ b.main < MainMax THEN Lower(b.main + 2, MainMax) ELSE b.main
             air == IF b.set > b.line THEN Lower(b.line + LineGain(b.cars), LineMax)
                    ELSE b.line
  <2>1. Cycle(b, pm) = [b EXCEPT !.compressor = runs, !.main = psi, !.line = air]
    BY <1>3 DEF Cycle
  <2>2. runs \in BOOLEAN  OBVIOUS
  <2>3. psi \in Int /\ air \in Int  BY <1>1, Zenon
  <2>4. ~pm => ~runs  BY <1>3
  <2>. HIDE DEF runs, psi, air
  <2>5. Cycle(b, pm) \in Fields  BY <2>1, <2>2, <2>3, ZenonT(30) DEF Fields
  <2>6. AnyBrakeOn(Cycle(b, pm)) = AnyBrakeOn(b)  BY <2>1 DEF Fields, AnyBrakeOn
  <2>7. Cycle(b, pm).compressor = runs  BY <2>1 DEF Fields
  <2>. QED  BY <2>4, <2>5, <2>6, <2>7
<1>. QED  BY <1>2, <1>3

\* Each brake lever: applying it turns its brake on, and the compressor does
\* not change.
LEMMA LocoBrakeOn ==
  ASSUME NEW b \in Fields, NEW c \in ApplyLocoBrake(b, TRUE)
  PROVE  c \in Fields /\ c.locoOn /\ c.compressor = b.compressor
<1> DEFINE lever == Lower(b.locoLever + PerNotch, 100)
           on == [b EXCEPT !.locoOn = TRUE, !.locoLever = lever]
<1>1. PerNotch \in Int /\ MainMin \in Int /\ MainWrap \in Int /\ MainMin > 0
  BY PressureAssumption, LeverAssumption
<1>2. lever \in Int /\ lever \div 20 \in Int
  BY <1>1 DEF Lower, Fields
<1>3. on \in Fields /\ on.locoOn /\ on.compressor = b.compressor
  <2>. HIDE DEF lever
  <2>1. on \in Fields  BY <1>2, ZenonT(30) DEF Fields
  <2>2. on.locoOn /\ on.compressor = b.compressor  BY DEF Fields
  <2>. QED  BY <2>1, <2>2
<1>4. CASE b.main = 0
  <2>0. 0 \in Int  OBVIOUS
  <2>1. c = [on EXCEPT !.effLoco = 0]
    BY <1>4 DEF ApplyLocoBrake
  <2>. HIDE DEF on
  <2>2. c \in Fields  BY <1>3, <2>0, <2>1, ZenonT(30) DEF Fields
  <2>3. c.locoOn = on.locoOn /\ c.compressor = on.compressor  BY <1>3, <2>1 DEF Fields
  <2>. QED  BY <1>3, <2>2, <2>3
<1>5. CASE b.main # 0
  <2> DEFINE eff(p) == IF b.main < LineMax THEN (lever * p) \div (20 * MainMin) ELSE lever
  <2>1. PICK psi \in StoreMain(b.main - lever \div 20) :
          c = [on EXCEPT !.main = psi, !.effLoco = eff(psi)]
    BY <1>5 DEF ApplyLocoBrake
  <2>2. psi \in Int
    <3>1. b.main \in Int  BY DEF Fields
    <3>. HIDE DEF lever
    <3>. QED  BY <1>1, <1>2, <3>1 DEF StoreMain
  <2>3. eff(psi) \in Int
    <3>. HIDE DEF lever
    <3>1. lever * psi \in Int /\ 20 * MainMin \in Int /\ 20 * MainMin > 0
      BY <1>1, <1>2, <2>2
    <3>. QED  BY <1>2, <3>1
  <2>. HIDE DEF on, eff
  <2>4. c \in Fields  BY <1>3, <2>1, <2>2, <2>3, ZenonT(30) DEF Fields
  <2>5. c.locoOn = on.locoOn /\ c.compressor = on.compressor  BY <1>3, <2>1 DEF Fields
  <2>. QED  BY <1>3, <2>4, <2>5
<1>. QED  BY <1>4, <1>5

\* The train brake lever turns the train brake on and nothing off.
LEMMA TrainBrakeOn ==
  ASSUME NEW b \in Fields
  PROVE  LET c == ApplyTrainBrake(b, TRUE)
         IN  /\ c \in Fields /\ c.trainOn /\ c.compressor = b.compressor
             /\ c.locoOn = b.locoOn
<1> DEFINE lever == Lower(b.trainLever + PerNotch, 100)
           set == LineMax - (lever * (LineMax - LineMinAuto)) \div 100
           eff == (10 * (LineMax - Higher(set, LineMinAuto))) \div (LineMax - LineMinAuto)
           c == ApplyTrainBrake(b, TRUE)
<1>1. /\ LineMax \in Int /\ LineMinAuto \in Int /\ LineMax - LineMinAuto > 0
      /\ PerNotch \in Int
  BY PressureAssumption, LeverAssumption
<1>2. lever \in Int  BY <1>1 DEF Lower, Fields
<1>3. set \in Int  BY <1>1, <1>2
<1>4. eff \in Int  BY <1>1, <1>3 DEF Higher
<1>5. c = [b EXCEPT !.trainOn = TRUE, !.trainLever = lever, !.set = set,
                    !.line = set, !.effTrain = eff]
  BY DEF ApplyTrainBrake
<1>. HIDE DEF lever, set, eff, c
<1>6. c \in Fields  BY <1>2, <1>3, <1>4, <1>5, ZenonT(30) DEF Fields
<1>7. c.trainOn /\ c.compressor = b.compressor /\ c.locoOn = b.locoOn
  BY <1>5 DEF Fields
<1>. QED  BY <1>6, <1>7 DEF c

\* The emergency brake is on once applied.
LEMMA EmergencyOn ==
  ASSUME NEW b \in Fields
  PROVE  LET c == ApplyEmergency(b, TRUE)
         IN  c \in Fields /\ c.emergencyOn /\ c.compressor = b.compressor
<1>0. 0 \in Int /\ 15 \in Int /\ 100 \in Int  OBVIOUS
<1>1. ApplyEmergency(b, TRUE) \in Fields
  BY <1>0, ZenonT(30) DEF ApplyEmergency, EmergencyFactor, Fields
<1>2. /\ ApplyEmergency(b, TRUE).emergencyOn
      /\ ApplyEmergency(b, TRUE).compressor = b.compressor
  BY DEF ApplyEmergency, Fields
<1>. QED  BY <1>1, <1>2

\* Releasing a brake leaves the compressor alone.
LEMMA Releases ==
  ASSUME NEW b \in Fields
  PROVE  /\ ReleaseLocoBrake(b) \in Fields /\ ReleaseLocoBrake(b).compressor = b.compressor
         /\ ApplyTrainBrake(b, FALSE) \in Fields
         /\ ApplyTrainBrake(b, FALSE).compressor = b.compressor
         /\ ApplyEmergency(b, FALSE) \in Fields
         /\ ApplyEmergency(b, FALSE).compressor = b.compressor
<1>0. LineMax \in Int /\ 0 \in Int  BY PressureAssumption
<1>1. ReleaseLocoBrake(b) \in Fields  BY <1>0, ZenonT(30) DEF ReleaseLocoBrake, Fields
<1>2. ReleaseLocoBrake(b).compressor = b.compressor  BY DEF ReleaseLocoBrake, Fields
<1>3. ApplyTrainBrake(b, FALSE)
        = [b EXCEPT !.trainOn = FALSE, !.trainLever = 0, !.set = LineMax, !.effTrain = 0]
  BY DEF ApplyTrainBrake
<1>4. ApplyTrainBrake(b, FALSE) \in Fields  BY <1>0, <1>3, ZenonT(30) DEF Fields
<1>5. ApplyTrainBrake(b, FALSE).compressor = b.compressor  BY <1>3 DEF Fields
<1>6. ApplyEmergency(b, FALSE) = [b EXCEPT !.emergencyOn = FALSE, !.set = LineMax]
  BY DEF ApplyEmergency
<1>7. ApplyEmergency(b, FALSE) \in Fields  BY <1>0, <1>6, ZenonT(30) DEF Fields
<1>8. ApplyEmergency(b, FALSE).compressor = b.compressor  BY <1>6 DEF Fields
<1>. QED  BY <1>1, <1>2, <1>4, <1>5, <1>7, <1>8

\* Releasing what is on leaves the compressor alone.
LEMMA ReleaseAllEffect ==
  ASSUME NEW b \in Fields
  PROVE  ReleaseApplied(b) \in Fields /\ ReleaseApplied(b).compressor = b.compressor
<1> DEFINE e == IF b.emergencyOn THEN ApplyEmergency(b, FALSE) ELSE b
           t == IF e.trainOn THEN ApplyTrainBrake(e, FALSE) ELSE e
<1>1. e \in Fields /\ e.compressor = b.compressor  BY Releases
<1>. HIDE DEF e
<1>2. t \in Fields /\ t.compressor = e.compressor  BY <1>1, Releases
<1>. HIDE DEF t
<1>3. ReleaseApplied(b) = IF t.locoOn THEN ReleaseLocoBrake(t) ELSE t
  BY DEF ReleaseApplied, e, t
<1>. QED  BY <1>1, <1>2, <1>3, Releases

\* setPMRunning and connectAirLine touch neither the brakes nor the compressor.
LEMMA OtherCalls ==
  ASSUME NEW b \in Fields, NEW on \in BOOLEAN, NEW n \in CarCounts
  PROVE  /\ SetPMRunning(b, on) \in Fields
         /\ AnyBrakeOn(SetPMRunning(b, on)) = AnyBrakeOn(b)
         /\ SetPMRunning(b, on).compressor = b.compressor
         /\ ConnectAirLine(b, on, n) \in Fields
         /\ AnyBrakeOn(ConnectAirLine(b, on, n)) = AnyBrakeOn(b)
         /\ ConnectAirLine(b, on, n).compressor = b.compressor
<1>1. SetPMRunning(b, on) \in Fields  BY ZenonT(30) DEF SetPMRunning, Fields
<1>2. AnyBrakeOn(SetPMRunning(b, on)) = AnyBrakeOn(b)
  BY DEF SetPMRunning, Fields, AnyBrakeOn
<1>3. SetPMRunning(b, on).compressor = b.compressor  BY DEF SetPMRunning, Fields
<1> DEFINE air == IF on THEN Higher(b.line - 5 * n, 0) ELSE b.line
<1>4. n \in Int /\ air \in Int  BY LeverAssumption DEF Higher, Fields
<1>5. ConnectAirLine(b, on, n) = [b EXCEPT !.cars = n, !.line = air]
  BY DEF ConnectAirLine
<1>. HIDE DEF air
<1>6. ConnectAirLine(b, on, n) \in Fields  BY <1>4, <1>5, ZenonT(30) DEF Fields
<1>7. AnyBrakeOn(ConnectAirLine(b, on, n)) = AnyBrakeOn(b)
  BY <1>5 DEF Fields, AnyBrakeOn
<1>8. ConnectAirLine(b, on, n).compressor = b.compressor  BY <1>5 DEF Fields
<1>. QED  BY <1>1, <1>2, <1>3, <1>6, <1>7, <1>8

-----------------------------------------------------------------------------
(* The steps.                                                              *)

\* What TInv says of a state, in one place.
Sound(n, up, b, mode, run) ==
  /\ n \in Nat /\ up \in Nat /\ b \in Fields
  /\ mode = "powered" => run /\ up >= PrimeTime /\ n > 0
  /\ mode = "braking" => AnyBrakeOn(b)
  /\ b.compressor => run

\* Sound restates the invariant for the current state and for the next one,
\* so that a step is shown with plain values.
LEMMA SoundNow == TInv = Sound(notch, uptime, brakes, opMode, running)
BY DEF TInv, Sound, ModeTellsTruth, Primed, CompressorNeedsPM
\* The same for the next state.
LEMMA SoundNext == TInv' = Sound(notch', uptime', brakes', opMode', running')
BY DEF TInv, Sound, ModeTellsTruth, Primed, CompressorNeedsPM

\* The initial state satisfies the invariant.
LEMMA InitTInv == ThrottleInit => TInv
<1> SUFFICES ASSUME ThrottleInit PROVE Sound(notch, uptime, brakes, opMode, running)
  BY SoundNow
<1>0. MainStart \in Int /\ LineMax \in Int /\ 0 \in Int  BY PressureAssumption
<1>1. brakes = NewBrakes  BY DEF ThrottleInit, BrakesInit
<1>2. NewBrakes \in Fields  BY <1>0, Zenon DEF NewBrakes, Fields
<1>3. ~NewBrakes.compressor  BY DEF NewBrakes
<1>. QED  BY <1>1, <1>2, <1>3 DEF ThrottleInit, Sound

\* The levers keep the invariant: a brake that is applied is on.
LEMMA LeversInv ==
  ASSUME TInv, NEW on \in BOOLEAN, UNCHANGED <<running, uptime>>,
         SetLBrake(on) \/ SetABrake(on) \/ SetEBrake(on)
  PROVE  TInv'
<1>0. Sound(notch, uptime, brakes, opMode, running)  BY SoundNow
<1> SUFFICES Sound(notch', uptime', brakes', opMode', running')
  BY SoundNext
<1>1. CASE on
  <2>1. opMode' = "braking" /\ notch' = notch
    BY <1>1 DEF SetLBrake, SetABrake, SetEBrake, ModeOf
  <2>2. brakes' \in Fields /\ AnyBrakeOn(brakes') /\ brakes'.compressor = brakes.compressor
    <3>1. CASE SetLBrake(on)
      <4>1. brakes' \in ApplyLocoBrake(brakes, TRUE)  BY <1>1, <3>1 DEF SetLBrake
      <4>. QED  BY <1>0, <4>1, LocoBrakeOn DEF Sound, AnyBrakeOn
    <3>2. CASE SetABrake(on)
      <4>1. brakes' = ApplyTrainBrake(brakes, TRUE)  BY <1>1, <3>2 DEF SetABrake
      <4>. QED  BY <1>0, <4>1, TrainBrakeOn DEF Sound, AnyBrakeOn
    <3>3. CASE SetEBrake(on)
      <4>1. brakes' = ApplyEmergency(brakes, TRUE)  BY <1>1, <3>3 DEF SetEBrake
      <4>. QED  BY <1>0, <4>1, EmergencyOn DEF Sound, AnyBrakeOn
    <3>. QED  BY <3>1, <3>2, <3>3
  <2>. QED  BY <1>0, <2>1, <2>2 DEF Sound
<1>2. CASE ~on
  <2>1. opMode' = "idle" /\ notch' = notch
    BY <1>2 DEF SetLBrake, SetABrake, SetEBrake, ModeOf
  <2>2. brakes' \in {ReleaseLocoBrake(brakes), ApplyTrainBrake(brakes, FALSE),
                     ApplyEmergency(brakes, FALSE)}
    BY <1>2 DEF SetLBrake, SetABrake, SetEBrake, ApplyLocoBrake
  <2>3. brakes' \in Fields /\ brakes'.compressor = brakes.compressor
    BY <1>0, <2>2, Releases DEF Sound
  <2>. QED  BY <1>0, <2>1, <2>3 DEF Sound
<1>. QED  BY <1>1, <1>2

\* manualNotch keeps the invariant, from a command or from a loop.
LEMMA ManualNotchInv ==
  ASSUME TInv, NEW up, ManualNotch(up), UNCHANGED <<running, uptime>>
  PROVE  TInv'
<1>0. Sound(notch, uptime, brakes, opMode, running)  BY SoundNow
<1> SUFFICES Sound(notch', uptime', brakes', opMode', running')
  BY SoundNext
<1>1. CASE Primed /\ NotchUp
  BY <1>0, <1>1 DEF Sound, Primed, NotchUp
<1>2. CASE ReleaseBrakes
  BY <1>0, <1>2, ReleaseAllEffect DEF Sound, ReleaseBrakes
<1>3. CASE NotchDown
  BY <1>0, <1>3 DEF Sound, NotchDown
<1>4. CASE BrakeMore
  <2>1. PICK b \in ApplyLocoBrake(brakes, TRUE) :
          brakes' = IF lineConnected THEN ApplyTrainBrake(b, TRUE) ELSE b
    BY <1>4 DEF BrakeMore
  <2>2. b \in Fields /\ b.locoOn /\ b.compressor = brakes.compressor
    BY <1>0, LocoBrakeOn DEF Sound
  <2>3. brakes' \in Fields /\ AnyBrakeOn(brakes') /\ brakes'.compressor = b.compressor
    BY <2>1, <2>2, TrainBrakeOn DEF AnyBrakeOn
  <2>. QED  BY <1>0, <1>4, <2>2, <2>3 DEF Sound, BrakeMore
<1>5. CASE UNCHANGED modeVars
  BY <1>0, <1>5 DEF Sound, modeVars
<1>. QED  BY <1>1, <1>2, <1>3, <1>4, <1>5 DEF ManualNotch

\* Starting and stopping the prime mover: both leave the powered and the
\* braking mode, and a stop takes the compressor along.
LEMMA PmOnOffTInv ==
  ASSUME TInv, NEW on \in BOOLEAN, PmOnOff(on)
  PROVE  TInv'
<1>0. Sound(notch, uptime, brakes, opMode, running)  BY SoundNow
<1> SUFFICES Sound(notch', uptime', brakes', opMode', running')
  BY SoundNext
<1>1. notch' = notch /\ running' = on /\ uptime' \in Nat /\ opMode' \in {"idle", "off"}
  BY <1>0 DEF PmOnOff, Sound
<1>4. opMode' # "powered" /\ opMode' # "braking"
  <2>1. "idle" # "powered" /\ "idle" # "braking" /\ "off" # "powered" /\ "off" # "braking"
    OBVIOUS
  <2>. QED  BY <1>1, <2>1, Zenon
<1>2. CASE on
  <2> DEFINE e == ApplyEmergency(brakes, FALSE)
             r == ReleaseLocoBrake(e)
  <2>1. brakes' = ApplyTrainBrake(r, FALSE)  BY <1>2 DEF PmOnOff
  <2>2. e \in Fields  BY <1>0, Releases DEF Sound
  <2>3. r \in Fields
    <3>. HIDE DEF e
    <3>. QED  BY <2>2, Releases
  <2>4. brakes' \in Fields
    <3>. HIDE DEF r
    <3>. QED  BY <2>1, <2>3, Releases
  <2>5. running' = TRUE  BY <1>1, <1>2, Zenon
  <2>. QED  BY <1>0, <1>1, <1>4, <2>4, <2>5 DEF Sound
<1>3. CASE ~on
  <2>1. brakes' = Cycle(brakes, FALSE)  BY <1>3 DEF PmOnOff
  <2>2. brakes' \in Fields /\ ~brakes'.compressor  BY <1>0, <2>1, CycleEffect DEF Sound
  <2>. QED  BY <1>0, <1>1, <1>4, <2>2 DEF Sound
<1>. QED  BY <1>2, <1>3

\* A long press keeps the invariant.
LEMMA LongPressInv ==
  ASSUME TInv, NEW up \in BOOLEAN, LongPress(up)
  PROVE  TInv'
<1>0. Sound(notch, uptime, brakes, opMode, running)  BY SoundNow
<1> SUFFICES Sound(notch', uptime', brakes', opMode', running')
  BY SoundNext
<1>1. UNCHANGED <<notch, running, uptime>>  BY DEF LongPress
<1>2. CASE up /\ opMode = "braking"
  <2>1. opMode' = "idle"
    BY <1>0, <1>2 DEF LongPress, Sound
  <2>2. brakes' = ReleaseApplied(brakes)
    BY <1>2 DEF LongPress
  <2>. QED  BY <1>0, <1>1, <2>1, <2>2, ReleaseAllEffect DEF Sound
<1>3. CASE ~up /\ mph > 2 /\ opMode = "idle"
  <2>1. brakes' = ApplyEmergency(brakes, TRUE) /\ opMode' = "braking"
    BY <1>3 DEF LongPress
  <2>. QED  BY <1>0, <1>1, <2>1, EmergencyOn DEF Sound, AnyBrakeOn
<1>4. CASE ~(up /\ opMode = "braking") /\ ~(~up /\ mph > 2 /\ opMode = "idle")
  <2>1. UNCHANGED <<opMode, brakes>>
    BY <1>4 DEF LongPress
  <2>. QED  BY <1>0, <1>1, <2>1 DEF Sound
<1>. QED  BY <1>2, <1>3, <1>4

\* Every command keeps the invariant.
LEMMA CommandInv == TInv /\ Command => TInv'
<1> SUFFICES ASSUME TInv, Command PROVE TInv'
  OBVIOUS
<1>0. Sound(notch, uptime, brakes, opMode, running)  BY SoundNow
<1>1. PICK on \in BOOLEAN :
        \/ PmOnOff(on)
        \/ ManualNotch(on) /\ Lever
        \/ SetLBrake(on) /\ Lever
        \/ SetABrake(on) /\ Lever
        \/ LongPress(on)
        \/ PanicStop
        \/ \E n \in CarCounts : Trainline(on, n)
        \/ \E r \in 0..2 : SetDirection(r)
        \/ \E s \in {0, 2, 3} : Calibrate(s, on)
  BY DEF Command
<1>2. CASE PmOnOff(on)  BY <1>2, PmOnOffTInv
<1>3. CASE ManualNotch(on) /\ Lever  BY <1>3, ManualNotchInv DEF Lever
<1>4. CASE (SetLBrake(on) \/ SetABrake(on)) /\ Lever  BY <1>4, LeversInv DEF Lever
<1>5. CASE LongPress(on)  BY <1>5, LongPressInv
<1>6. ASSUME NEW n \in CarCounts, Trainline(on, n) PROVE TInv'
  <2>1. brakes' = ConnectAirLine(brakes, on, n) /\ UNCHANGED <<opMode, notch, running, uptime>>
    BY <1>6 DEF Trainline
  <2>. QED  BY <1>0, <2>1, OtherCalls, SoundNext DEF Sound
<1>7. CASE \/ PanicStop
           \/ \E r \in 0..2 : SetDirection(r)
           \/ \E s \in {0, 2, 3} : Calibrate(s, on)
  <2>1. UNCHANGED <<modeVars, running, uptime>>
    BY <1>7 DEF PanicStop, SetDirection, Calibrate
  <2>. QED  BY <1>0, <2>1, SoundNext DEF modeVars
<1>. QED  BY <1>1, <1>2, <1>3, <1>4, <1>5, <1>6, <1>7

\* One second of loop() keeps the invariant.
LEMMA LoopInv == TInv /\ Loop => TInv'
<1> SUFFICES ASSUME TInv, Loop PROVE Sound(notch', uptime', brakes', opMode', running')
  BY SoundNext
<1>0. Sound(notch, uptime, brakes, opMode, running)  BY SoundNow
<1>1. /\ UNCHANGED <<opMode, notch, running>>
      /\ uptime' \in Nat /\ (uptime >= PrimeTime => uptime' >= PrimeTime)
  BY <1>0, ThrottleAssumption DEF Loop, Tick, Clock, Lower, Higher, Sound
<1>2. brakes \in Fields  BY <1>0 DEF Sound
<1>3. SetPMRunning(brakes, TRUE) \in Fields /\ SetPMRunning(brakes, FALSE) \in Fields
  BY <1>2, Zenon DEF SetPMRunning, Fields
<1>4. \A on \in BOOLEAN :
        /\ AnyBrakeOn(SetPMRunning(brakes, on)) = AnyBrakeOn(brakes)
        /\ SetPMRunning(brakes, on).compressor = brakes.compressor
  BY <1>2 DEF SetPMRunning, Fields, AnyBrakeOn
<1>5. CASE LoopOff
  BY <1>0, <1>1, <1>3, <1>4, <1>5 DEF LoopOff, Sound
<1>6. CASE LoopTrailing
  BY <1>0, <1>1, <1>6 DEF LoopTrailing, Sound
<1>7. CASE LoopDrive
  <2> DEFINE b == IF startup = StartupLoops THEN SetPMRunning(brakes, TRUE) ELSE brakes
  <2>1. b \in Fields /\ AnyBrakeOn(b) = AnyBrakeOn(brakes)  BY <1>2, <1>3, <1>4
  <2>2. brakes' = Cycle(b, TRUE) /\ running  BY <1>7 DEF LoopDrive
  <2>. HIDE DEF b
  <2>3. brakes' \in Fields /\ AnyBrakeOn(brakes') = AnyBrakeOn(brakes)
    BY <2>1, <2>2, CycleEffect
  <2>. QED  BY <1>0, <1>1, <2>2, <2>3 DEF Sound
<1>. QED  BY <1>5, <1>6, <1>7 DEF Loop

\* Every step keeps the invariant.
LEMMA StepTInv == TInv /\ [ThrottleNext]_vars => TInv'
<1> SUFFICES ASSUME TInv, [ThrottleNext]_vars PROVE TInv'
  OBVIOUS
<1>0. Sound(notch, uptime, brakes, opMode, running)  BY SoundNow
<1>1. CASE Command  BY <1>1, CommandInv
<1>2. CASE Loop  BY <1>2, LoopInv
<1>3. CASE Iterate
  BY <1>3, ManualNotchInv DEF Iterate, Lever
<1>4. CASE ClockStep
  <2>1. /\ UNCHANGED <<modeVars, running>>
        /\ uptime' \in Nat /\ (uptime >= PrimeTime => uptime' >= PrimeTime)
    BY <1>0, <1>4, ThrottleAssumption DEF ClockStep, Tick, Clock, Lower, Higher, Sound
  <2>. QED  BY <1>0, <2>1, SoundNext DEF Sound, modeVars
<1>5. CASE \/ \E m \in MuStates : ChangeMuState(m)
           \/ MuMessage
           \/ Finish
           \/ UNCHANGED vars
  <2>1. UNCHANGED <<modeVars, running, uptime>>
    BY <1>5 DEF ChangeMuState, MuMessage, MuSetSpeed, Finish, vars, modeVars
  <2>. QED  BY <1>0, <2>1, SoundNext DEF modeVars
<1>. QED  BY <1>1, <1>2, <1>3, <1>4, <1>5 DEF ThrottleNext, JobStep

\* The invariant holds in every reachable state.
LEMMA ThrottleInductive == ThrottleSpec => []TInv
BY InitTInv, StepTInv, PTL DEF ThrottleSpec

\* The powered mode has the prime mover running, the decoder primed and a
\* notch taken; the braking mode has a brake applied.
THEOREM ModeIsTrue == ThrottleSpec => []ModeTellsTruth
BY ThrottleInductive, PTL DEF TInv

\* The compressor never runs without the prime mover.
THEOREM CompressorHasPM == ThrottleSpec => []CompressorNeedsPM
BY ThrottleInductive, PTL DEF TInv

-----------------------------------------------------------------------------
(* The throttle as a caller of the brakes.                                 *)

\* At most three calls in a row take the brakes from b to c.
Chain(b, c) ==
  \/ c = b
  \/ Method(b, c)
  \/ \E x : Method(b, x) /\ Method(x, c)
  \/ \E x, y : Method(b, x) /\ Method(x, y) /\ Method(y, c)

\* What every call keeps, a chain keeps.
LEMMA ChainTypes == ASSUME NEW b \in Brakes, NEW c, Chain(b, c) PROVE c \in Brakes
  BY MethodEffect DEF Chain

LEMMA ChainCovers ==
  ASSUME NEW K \in Nat, Fall = 5 * K, NEW b \in Brakes, Covered(b), NEW c, Chain(b, c)
  PROVE  Covered(c)
  BY MethodEffect, MethodCovers DEF Chain

\* The calls of the throttle are calls of the methods.
LEMMA Calls ==
  ASSUME NEW b
  PROVE  /\ \A on \in BOOLEAN :
              /\ Method(b, Cycle(b, on)) /\ Method(b, ApplyTrainBrake(b, on))
              /\ Method(b, ApplyEmergency(b, on)) /\ Method(b, SetPMRunning(b, on))
              /\ \A c \in ApplyLocoBrake(b, on) : Method(b, c)
              /\ \A n \in CarCounts : Method(b, ConnectAirLine(b, on, n))
         /\ Method(b, ReleaseLocoBrake(b))
<1>1. ReleaseLocoBrake(b) \in ApplyLocoBrake(b, FALSE)
  BY Zenon DEF ApplyLocoBrake
<1> QED BY <1>1, Zenon DEF Method

\* Releasing what is on takes a call for each brake.
LEMMA ReleaseChain == ASSUME NEW b PROVE Chain(b, ReleaseApplied(b))
<1> DEFINE e == IF b.emergencyOn THEN ApplyEmergency(b, FALSE) ELSE b
           t == IF e.trainOn THEN ApplyTrainBrake(e, FALSE) ELSE e
           c == IF t.locoOn THEN ReleaseLocoBrake(t) ELSE t
<1>1. e = b \/ Method(b, e)
  BY Calls
<1>2. t = e \/ Method(e, t)
  <2> HIDE DEF e
  <2> QED BY Calls
<1>3. c = t \/ Method(t, c)
  <2> HIDE DEF t
  <2> QED BY Calls
<1>4. ReleaseApplied(b) = c
  BY DEF ReleaseApplied
<1> HIDE DEF e, t, c
<1> SUFFICES Chain(b, c)
  BY <1>4
<1>5. CASE e = b
  BY <1>2, <1>3, <1>5 DEF Chain
<1>6. CASE Method(b, e) /\ t = e
  BY <1>3, <1>6 DEF Chain
<1>7. CASE Method(b, e) /\ Method(e, t)
  BY <1>3, <1>7 DEF Chain
<1> QED BY <1>1, <1>2, <1>5, <1>6, <1>7

LEMMA NotchChain == ASSUME NEW up, ManualNotch(up) PROVE Chain(brakes, brakes')
<1>1. CASE UNCHANGED brakes
  BY <1>1 DEF Chain
<1>2. CASE ReleaseBrakes
  BY <1>2, ReleaseChain DEF ReleaseBrakes
<1>3. CASE BrakeMore
  <2>1. PICK b \in ApplyLocoBrake(brakes, TRUE) :
          brakes' = IF lineConnected THEN ApplyTrainBrake(b, TRUE) ELSE b
    BY <1>3 DEF BrakeMore
  <2>2. Method(brakes, b) /\ Method(b, ApplyTrainBrake(b, TRUE))
    BY Calls
  <2> QED BY <2>1, <2>2, Zenon DEF Chain
<1> QED BY <1>1, <1>2, <1>3 DEF ManualNotch, NotchUp, NotchDown, modeVars

LEMMA PmOnOffChain == ASSUME NEW on \in BOOLEAN, PmOnOff(on) PROVE Chain(brakes, brakes')
<1>1. CASE on
  <2> DEFINE e == ApplyEmergency(brakes, FALSE)
             r == ReleaseLocoBrake(e)
  <2>1. brakes' = ApplyTrainBrake(r, FALSE)
    BY <1>1 DEF PmOnOff
  <2>2. Method(brakes, e)
    BY Calls
  <2> HIDE DEF e
  <2>3. Method(e, r)
    BY Calls
  <2> HIDE DEF r
  <2>4. Method(r, brakes')
    BY <2>1, Calls
  <2> QED BY <2>2, <2>3, <2>4, Zenon DEF Chain
<1>2. CASE ~on
  <2>1. brakes' = Cycle(brakes, FALSE)
    BY <1>2 DEF PmOnOff
  <2> QED BY <2>1, Calls, Zenon DEF Chain
<1> QED BY <1>1, <1>2

LEMMA CommandChain == ASSUME Command PROVE Chain(brakes, brakes')
<1>1. PICK on \in BOOLEAN :
        \/ PmOnOff(on)
        \/ ManualNotch(on)
        \/ SetLBrake(on)
        \/ SetABrake(on)
        \/ LongPress(on)
        \/ \E n \in CarCounts : Trainline(on, n)
        \/ UNCHANGED brakes
  BY DEF Command, PanicStop, SetDirection, Calibrate, modeVars
<1>2. CASE PmOnOff(on)
  BY <1>2, PmOnOffChain
<1>3. CASE ManualNotch(on)
  BY <1>3, NotchChain
<1>4. CASE SetLBrake(on) \/ SetABrake(on)
  BY <1>4, Calls, Zenon DEF SetLBrake, SetABrake, Chain
<1>5. CASE LongPress(on)
  <2>1. \/ brakes' = ReleaseApplied(brakes)
        \/ brakes' = ApplyEmergency(brakes, TRUE)
        \/ brakes' = brakes
    BY <1>5 DEF LongPress
  <2>2. Method(brakes, ApplyEmergency(brakes, TRUE))
    BY Calls
  <2> QED BY <2>1, <2>2, ReleaseChain, Zenon DEF Chain
<1>6. ASSUME NEW n \in CarCounts, Trainline(on, n) PROVE Chain(brakes, brakes')
  BY <1>6, Calls, Zenon DEF Trainline, Chain
<1>7. CASE UNCHANGED brakes
  BY <1>7 DEF Chain
<1> QED BY <1>1, <1>2, <1>3, <1>4, <1>5, <1>6, <1>7

LEMMA LoopChain == ASSUME Loop PROVE Chain(brakes, brakes')
<1>1. CASE LoopOff
  <2>1. brakes' = SetPMRunning(brakes, FALSE)
    BY <1>1 DEF LoopOff
  <2> QED BY <2>1, Calls, Zenon DEF Chain
<1>2. CASE LoopTrailing
  BY <1>2 DEF LoopTrailing, Chain
<1>3. CASE LoopDrive
  <2> DEFINE b == IF startup = StartupLoops THEN SetPMRunning(brakes, TRUE) ELSE brakes
  <2>1. b = brakes \/ Method(brakes, b)
    BY Calls
  <2>2. brakes' = Cycle(b, TRUE)
    BY <1>3 DEF LoopDrive
  <2> HIDE DEF b
  <2>3. Method(b, brakes')
    BY <2>2, Calls
  <2> QED BY <2>1, <2>3, Zenon DEF Chain
<1> QED BY <1>1, <1>2, <1>3 DEF Loop

LEMMA StepChain == [ThrottleNext]_vars => Chain(brakes, brakes')
<1> SUFFICES ASSUME [ThrottleNext]_vars PROVE Chain(brakes, brakes')
  OBVIOUS
<1>1. CASE Command
  BY <1>1, CommandChain
<1>2. CASE Loop
  BY <1>2, LoopChain
<1>3. CASE Iterate
  BY <1>3, NotchChain DEF Iterate
<1>4. CASE UNCHANGED brakes
  BY <1>4 DEF Chain
<1> QED BY <1>1, <1>2, <1>3, <1>4
        DEF ThrottleNext, ChangeMuState, MuMessage, MuSetSpeed, JobStep, Finish, ClockStep,
            vars, modeVars

\* A handler of the throttle changes the brakes by calls of their methods
\* only (BrakeSystem.h keeps its fields private), three at the most.
THEOREM DrivesBrakes == ThrottleSpec => [][Chain(brakes, brakes')]_vars
  BY StepChain, PTL DEF ThrottleSpec

LEMMA ThrottleStart == ThrottleInit => brakes \in Brakes /\ Covered(brakes)
  BY BrakesStart DEF ThrottleInit

LEMMA BrakesTypesDriven == ThrottleSpec => []BrakesTypeOK
<1>1. ThrottleInit => BrakesTypeOK
  BY ThrottleStart DEF BrakesTypeOK
<1>2. BrakesTypeOK /\ [ThrottleNext]_vars => BrakesTypeOK'
  BY StepChain, ChainTypes DEF BrakesTypeOK
<1> QED BY <1>1, <1>2, PTL DEF ThrottleSpec

\* A release takes no air.
LEMMA ReleaseKeepsMain ==
  ASSUME NEW b \in Brakes PROVE ReleaseApplied(b).main = b.main
<1> DEFINE e == IF b.emergencyOn THEN ApplyEmergency(b, FALSE) ELSE b
           t == IF e.trainOn THEN ApplyTrainBrake(e, FALSE) ELSE e
           c == IF t.locoOn THEN ReleaseLocoBrake(t) ELSE t
<1>1. e \in Brakes /\ e.main = b.main
  BY EmergencyTypes, MainKept
<1>2. t \in Brakes /\ t.main = e.main
  <2> HIDE DEF e
  <2> QED BY <1>1, TrainBrakeTypes, MainKept
<1>3. c.main = t.main
  <2> HIDE DEF t
  <2> QED BY <1>2, MainKept
<1>4. ReleaseApplied(b) = c
  BY DEF ReleaseApplied
<1> HIDE DEF e, t, c
<1> QED BY <1>1, <1>2, <1>3, <1>4

LEMMA NotchGauge ==
  ASSUME brakes \in Brakes, NEW up, ManualNotch(up) PROVE Gauged(brakes, brakes')
<1>1. CASE brakes'.main = brakes.main
  BY <1>1 DEF Gauged
<1>2. CASE UNCHANGED brakes
  BY <1>1, <1>2
<1>3. CASE ReleaseBrakes
  BY <1>1, <1>3, ReleaseKeepsMain DEF ReleaseBrakes
<1>4. CASE BrakeMore
  <2>1. PICK b \in ApplyLocoBrake(brakes, TRUE) :
          brakes' = IF lineConnected THEN ApplyTrainBrake(b, TRUE) ELSE b
    BY <1>4 DEF BrakeMore
  <2>2. b \in Brakes /\ Gauged(brakes, b)
    BY LocoBrakeTypes, LocoBrakeGauge
  <2>3. brakes'.main = b.main /\ brakes'.locoLever = b.locoLever
    BY <2>1, <2>2, MainKept
  <2> QED BY <2>2, <2>3 DEF Gauged, Overdraws
<1> QED BY <1>2, <1>3, <1>4 DEF ManualNotch, NotchUp, NotchDown, modeVars

LEMMA StepGauge ==
  ASSUME brakes \in Brakes, ThrottleNext PROVE Gauged(brakes, brakes')
<1>1. CASE brakes'.main = brakes.main
  BY <1>1 DEF Gauged
<1>2. ASSUME NEW on \in BOOLEAN, PmOnOff(on) PROVE Gauged(brakes, brakes')
  <2>1. CASE on
    <3> DEFINE e == ApplyEmergency(brakes, FALSE)
               r == ReleaseLocoBrake(e)
    <3>1. brakes' = ApplyTrainBrake(r, FALSE)
      BY <1>2, <2>1 DEF PmOnOff
    <3>2. e \in Brakes /\ e.main = brakes.main
      BY EmergencyTypes, MainKept
    <3>3. r \in ApplyLocoBrake(e, FALSE)
      BY Zenon DEF ApplyLocoBrake
    <3> HIDE DEF e
    <3>4. r \in Brakes /\ r.main = e.main
      BY <3>2, <3>3, LocoBrakeTypes, MainKept
    <3> HIDE DEF r
    <3> QED BY <1>1, <3>1, <3>2, <3>4, MainKept
  <2>2. CASE ~on
    <3>1. brakes' = Cycle(brakes, FALSE)
      BY <1>2, <2>2 DEF PmOnOff
    <3> QED BY <3>1, CycleGauge DEF Gauged
  <2> QED BY <2>1, <2>2
<1>3. CASE Command
  <2>1. PICK on \in BOOLEAN :
          \/ PmOnOff(on)
          \/ ManualNotch(on)
          \/ SetLBrake(on)
          \/ SetABrake(on)
          \/ LongPress(on)
          \/ \E n \in CarCounts : Trainline(on, n)
          \/ UNCHANGED brakes
    BY <1>3 DEF Command, PanicStop, SetDirection, Calibrate, modeVars
  <2>2. CASE LongPress(on)
    <3>1. \/ brakes' = ReleaseApplied(brakes)
          \/ brakes' = ApplyEmergency(brakes, TRUE)
          \/ brakes' = brakes
      BY <2>2 DEF LongPress
    <3> QED BY <1>1, <3>1, ReleaseKeepsMain, MainKept
  <2>3. CASE SetLBrake(on)
    BY <2>3, LocoBrakeGauge DEF SetLBrake
  <2>4. CASE SetABrake(on) \/ \E n \in CarCounts : Trainline(on, n)
    BY <1>1, <2>4, MainKept DEF SetABrake, Trainline
  <2> QED BY <1>1, <1>2, <2>1, <2>2, <2>3, <2>4, NotchGauge
<1>4. CASE Loop
  <2>1. CASE LoopOff
    BY <1>1, <2>1, MainKept DEF LoopOff
  <2>2. CASE LoopTrailing
    BY <1>1, <2>2 DEF LoopTrailing
  <2>3. CASE LoopDrive
    <3> DEFINE b == IF startup = StartupLoops THEN SetPMRunning(brakes, TRUE) ELSE brakes
    <3>1. brakes' = Cycle(b, TRUE)
      BY <2>3 DEF LoopDrive
    <3>2. b \in Brakes /\ b.main = brakes.main
      BY MainKept DEF SetPMRunning, Brakes
    <3> HIDE DEF b
    <3> QED BY <3>1, <3>2, CycleGauge DEF Gauged
  <2> QED BY <1>4, <2>1, <2>2, <2>3 DEF Loop
<1>5. CASE Iterate
  BY <1>5, NotchGauge DEF Iterate
<1>6. CASE UNCHANGED brakes
  BY <1>1, <1>6
<1> QED BY <1>3, <1>4, <1>5, <1>6
        DEF ThrottleNext, ChangeMuState, MuMessage, MuSetSpeed, JobStep, Finish, ClockStep,
            modeVars

\* The reservoir of a locomotive that is driven: nothing the driver, the lead
\* or loop() does takes it off its gauge but such an application.
THEOREM ReservoirDriven == ThrottleSpec => GaugeKept
<1>1. BrakesTypeOK /\ [ThrottleNext]_vars
        => [brakes.main <= MainMax /\ MainMax < brakes'.main
              => Overdraws(brakes, brakes')]_brakes
  <2> SUFFICES ASSUME BrakesTypeOK, [ThrottleNext]_vars, brakes' # brakes,
                      brakes.main <= MainMax, MainMax < brakes'.main
               PROVE  Overdraws(brakes, brakes')
    OBVIOUS
  <2>1. ThrottleNext
    BY DEF vars
  <2>2. brakes' \in Brakes
    BY StepChain, ChainTypes DEF BrakesTypeOK
  <2>3. brakes'.main \in Nat /\ MainMax \in Nat
    BY <2>2, BrakesFields, Positive
  <2> QED BY <2>1, <2>3, StepGauge DEF Gauged, BrakesTypeOK
<1> QED BY <1>1, BrakesTypesDriven, PTL DEF ThrottleSpec, GaugeKept

\* The train brake's lever stays covered on a locomotive that is driven.
THEOREM LeverDriven ==
  ASSUME NEW K \in Nat, LineMax - LineMinAuto = 5 * K
  PROVE  ThrottleSpec => []TrainEffortCoversLever
<1> DEFINE BInv == brakes \in Brakes /\ Covered(brakes)
<1>0. Fall = 5 * K
  BY DEF Fall
<1>1. ThrottleInit => BInv
  BY ThrottleStart
<1>2. BInv /\ [ThrottleNext]_vars => BInv'
  BY <1>0, StepChain, ChainTypes, ChainCovers
<1>3. BInv => TrainEffortCoversLever
  BY DEF Covered, TrainEffortCoversLever
<1> HIDE DEF BInv
<1> QED BY <1>1, <1>2, <1>3, PTL DEF ThrottleSpec

-----------------------------------------------------------------------------
(* Types.                                                                  *)

Jobs == [kind : {"panic", "longpress", "mu"}, target : 0..TopNotch, speed : Speeds,
         dir : BOOLEAN]

\* The driver's side, the motion and the job in progress keep their types
\* apart from each other.
DriverTypes ==
  /\ {running, neutral, direction, lineConnected} \subseteq BOOLEAN
  /\ opMode \in {"off", "idle", "braking", "powered"} /\ muState \in MuStates
  /\ notch \in 0..TopNotch /\ stage \in 0..2
  /\ startup \in 0..(StartupLoops + 1) /\ uptime \in 0..Clock
MotionTypes ==
  /\ zeroWasSent \in BOOLEAN /\ {speed, mph} \subseteq Speeds /\ lastInt \in {0, 2, 3}
  /\ decoder \in [speed : {0, 2, 3}, dir : BOOLEAN]
JobTypes == job \in {NoJob} \union Jobs

LEMMA TypeParts ==
  ThrottleTypeOK <=> BrakesTypeOK /\ DriverTypes /\ MotionTypes /\ JobTypes
  BY DEF ThrottleTypeOK, DriverTypes, MotionTypes, JobTypes, Jobs

LEMMA Counters ==
  /\ TopNotch \in Nat /\ TopNotch > 0 /\ StartupLoops \in Nat /\ PrimeTime \in Nat /\ Clock \in Nat
  /\ \A n \in 0..Clock : Lower(n + 1, Clock) \in 0..Clock
  /\ \A n \in 0..(StartupLoops + 1) : Lower(n + 1, StartupLoops + 1) \in 0..(StartupLoops + 1)
  BY ThrottleAssumption DEF Clock, Lower, Higher

LEMMA SentType ==
  ASSUME NEW s \in Speeds, NEW dir \in BOOLEAN
  PROVE  DccStep(s) \in {0, 2, 3} /\ (Send(DccStep(s), dir) => decoder' \in [speed : {0, 2, 3}, dir : BOOLEAN])
  BY DEF DccStep, Speeds, Send

LEMMA ZeroType ==
  ASSUME NEW dir \in BOOLEAN, Send(0, dir) PROVE decoder' \in [speed : {0, 2, 3}, dir : BOOLEAN]
  BY DEF Send

LEMMA NotchTypes ==
  ASSUME NEW up, ManualNotch(up), opMode \in {"off", "idle", "braking", "powered"}, notch \in 0..TopNotch
  PROVE  opMode' \in {"off", "idle", "braking", "powered"} /\ notch' \in 0..TopNotch
<1>1. CASE NotchUp
  BY <1>1, Counters DEF NotchUp
<1>2. CASE NotchDown
  BY <1>2, Counters DEF NotchDown
<1>3. CASE ReleaseBrakes \/ BrakeMore
  BY <1>3 DEF ReleaseBrakes, BrakeMore
<1>4. CASE UNCHANGED modeVars
  BY <1>4 DEF modeVars
<1> QED BY <1>1, <1>2, <1>3, <1>4 DEF ManualNotch

LEMMA DriverStep ==
  ASSUME DriverTypes, [ThrottleNext]_vars PROVE DriverTypes'
<1> USE DEF DriverTypes
<1>1. ASSUME NEW on \in BOOLEAN, PmOnOff(on) PROVE DriverTypes'
  BY <1>1, Counters DEF PmOnOff
<1>2. ASSUME NEW up, ManualNotch(up), Lever PROVE DriverTypes'
  BY <1>2, NotchTypes DEF Lever
<1>3. ASSUME NEW on \in BOOLEAN, SetLBrake(on) \/ SetABrake(on), Lever PROVE DriverTypes'
  BY <1>3 DEF SetLBrake, SetABrake, ModeOf, Lever
<1>4. ASSUME NEW up \in BOOLEAN, LongPress(up) PROVE DriverTypes'
  <2>1. UNCHANGED <<running, notch, lineConnected, startup, uptime, muState, stage>>
    BY <1>4 DEF LongPress
  <2>2. opMode' \in {"braking", "idle", opMode}
    BY <1>4 DEF LongPress
  <2>3. neutral' \in BOOLEAN /\ direction' \in BOOLEAN
    BY <1>4 DEF LongPress
  <2> QED BY <2>1, <2>2, <2>3
<1>5. ASSUME NEW on \in BOOLEAN, NEW n, Trainline(on, n) PROVE DriverTypes'
  BY <1>5 DEF Trainline
<1>6. ASSUME NEW r \in 0..2, SetDirection(r) PROVE DriverTypes'
  BY <1>6 DEF SetDirection, modeVars
<1>7. ASSUME NEW s, NEW on \in BOOLEAN, Calibrate(s, on) PROVE DriverTypes'
  BY <1>7 DEF Calibrate, modeVars
<1>8. CASE PanicStop \/ UNCHANGED vars
  BY <1>8 DEF PanicStop, vars, modeVars
<1>9. CASE Command
  BY <1>9, <1>1, <1>2, <1>3, <1>4, <1>5, <1>6, <1>7, <1>8 DEF Command
<1>10. ASSUME NEW m \in MuStates, ChangeMuState(m) PROVE DriverTypes'
  BY <1>10 DEF ChangeMuState, modeVars
<1>11. ASSUME NEW listed \in BOOLEAN, NEW dir \in BOOLEAN, NEW s, NEW n, MuSetSpeed(listed, s, dir, n)
       PROVE  DriverTypes'
  BY <1>11, ThrottleAssumption DEF MuSetSpeed, modeVars
<1>12. CASE Iterate
  BY <1>12, <1>2 DEF Iterate
<1>13. CASE Finish
  BY <1>13 DEF Finish, modeVars
<1>14. CASE ClockStep
  BY <1>14, Counters DEF ClockStep, Tick, modeVars
<1>15. CASE Loop
  <2>1. UNCHANGED <<running, opMode, notch, neutral, direction, lineConnected, muState, stage>>
    BY <1>15 DEF Loop
  <2>2. uptime' \in 0..Clock
    BY <1>15, Counters DEF Loop, Tick
  <2>3. startup' \in {0, startup, Lower(startup + 1, StartupLoops + 1)}
    BY <1>15 DEF Loop, LoopOff, LoopTrailing, LoopDrive
  <2>4. startup' \in 0..(StartupLoops + 1)
    BY <2>3, Counters
  <2> QED BY <2>1, <2>2, <2>4
<1> QED BY <1>8, <1>9, <1>10, <1>11, <1>12, <1>13, <1>14, <1>15 DEF ThrottleNext, MuMessage, JobStep

LEMMA MotionStep ==
  ASSUME DriverTypes, MotionTypes, JobTypes, [ThrottleNext]_vars PROVE MotionTypes'
<1> USE DEF MotionTypes
<1>1. CASE UNCHANGED <<motion, decoder>>
  BY <1>1 DEF motion
<1>2. ASSUME Stopping PROVE MotionTypes'
  <2>1. decoder' \in [speed : {0, 2, 3}, dir : BOOLEAN]
    BY <1>2, ZeroType DEF Stopping
  <2>2. speed' = 0 /\ UNCHANGED <<mph, lastInt, zeroWasSent>>
    BY <1>2 DEF Stopping
  <2> QED BY <2>1, <2>2 DEF Speeds
<1>3. ASSUME NEW up \in BOOLEAN, LongPress(up) PROVE MotionTypes'
  <2>1. Stopping \/ UNCHANGED <<motion, decoder>>
    BY <1>3 DEF LongPress
  <2> QED BY <1>1, <1>2, <2>1
<1>4. ASSUME NEW r \in 0..2, SetDirection(r) PROVE MotionTypes'
  <2>1. direction' \in BOOLEAN
    BY <1>4 DEF SetDirection
  <2> QED BY <1>4, <2>1, ZeroType DEF SetDirection, motion
<1>5. ASSUME NEW s \in {0, 2, 3}, NEW on \in BOOLEAN, Calibrate(s, on) PROVE MotionTypes'
  <2>1. 0 \in Speeds /\ s \in Speeds /\ DccStep(0) = 0 /\ (s = 0 \/ on) \in BOOLEAN
    BY DEF Speeds, DccStep
  <2>2. UNCHANGED decoder \/ Send(DccStep(s), s = 0 \/ on) \/ Send(0, s = 0 \/ on)
    BY <1>5 DEF Calibrate
  <2>3. decoder' \in [speed : {0, 2, 3}, dir : BOOLEAN]
    BY <2>1, <2>2, SentType, ZeroType
  <2> QED BY <1>5, <2>3 DEF Calibrate, motion
<1>6. CASE Command
  BY <1>6, <1>1, <1>2, <1>3, <1>4, <1>5
     DEF Command, PmOnOff, Lever, PanicStop, Trainline
<1>7. CASE Finish
  <2>1. CASE job.kind = "mu"
    <3>1. job \in Jobs
      BY <1>7, <2>1 DEF Finish, JobTypes, NoJob
    <3>2. job.speed \in Speeds /\ job.dir \in BOOLEAN
      BY <3>1 DEF Jobs
    <3>3. Send(DccStep(job.speed), job.dir)
      BY <1>7, <2>1 DEF Finish
    <3> QED BY <1>7, <3>2, <3>3, SentType DEF Finish, motion
  <2>2. CASE job.kind # "mu"
    BY <1>7, <2>2, <1>1 DEF Finish
  <2> QED BY <2>1, <2>2
<1>8. ASSUME NEW s \in NextSpeeds, ComputeVelocity(s) PROVE MotionTypes'
  <2>1. s \in Speeds /\ direction \in BOOLEAN
    BY DEF NextSpeeds, Speeds, DriverTypes
  <2>2. DccStep(s) \in {0, 2, 3}
    BY <2>1, SentType
  <2>3. decoder' \in [speed : {0, 2, 3}, dir : BOOLEAN]
    BY <1>8, <2>1, SentType DEF ComputeVelocity
  <2>4. speed' = s /\ mph' \in {mph, s} /\ lastInt' \in {lastInt, DccStep(s)}
    BY <1>8 DEF ComputeVelocity
  <2>5. zeroWasSent' \in BOOLEAN
    BY <1>8 DEF ComputeVelocity
  <2> QED BY <2>1, <2>2, <2>3, <2>4, <2>5
<1>9. CASE Loop
  BY <1>9, <1>1, <1>8 DEF Loop, LoopOff, LoopTrailing, LoopDrive
<1> QED BY <1>1, <1>6, <1>7, <1>9
        DEF ThrottleNext, ChangeMuState, MuMessage, MuSetSpeed, JobStep, Iterate, Lever, ClockStep, vars

LEMMA JobStepTypes ==
  ASSUME JobTypes, [ThrottleNext]_vars PROVE JobTypes'
<1>1. CASE UNCHANGED job
  BY <1>1 DEF JobTypes
<1>2. ASSUME NEW kind \in {"panic", "longpress", "mu"}, NEW n \in 0..TopNotch, NEW s \in Speeds,
             NEW dir \in BOOLEAN, job' = NotchTo(kind, n, s, dir)
      PROVE  JobTypes'
  BY <1>2 DEF JobTypes, Jobs, NotchTo
<1>3. 0 \in 0..TopNotch /\ 0 \in Speeds
  BY Counters DEF Speeds
<1>4. CASE PanicStop
  BY <1>2, <1>3, <1>4 DEF PanicStop
<1>5. ASSUME NEW up \in BOOLEAN, LongPress(up) PROVE JobTypes'
  <2>1. \/ job' = NotchTo("longpress", 0, 0, TRUE)
        \/ job' = NotchTo("panic", 0, 0, TRUE)
        \/ UNCHANGED job
    BY <1>5 DEF LongPress
  <2> QED BY <1>1, <1>2, <1>3, <2>1
<1>6. ASSUME NEW listed \in BOOLEAN, NEW dir \in BOOLEAN, NEW s \in LeadSpeeds, NEW n \in 0..TopNotch,
             MuSetSpeed(listed, s, dir, n)
      PROVE  JobTypes'
  <2>1. s \in Speeds
    BY ThrottleAssumption DEF Speeds
  <2>2. job' = NotchTo("mu", n, s, dir) \/ UNCHANGED job
    BY <1>6 DEF MuSetSpeed
  <2> QED BY <1>1, <1>2, <2>1, <2>2
<1>7. CASE Finish
  BY <1>7 DEF Finish, JobTypes
<1>8. CASE Command
  BY <1>1, <1>4, <1>5, <1>8 DEF Command, PmOnOff, Lever, Trainline, SetDirection, Calibrate
<1> QED BY <1>1, <1>6, <1>7, <1>8
        DEF ThrottleNext, ChangeMuState, MuMessage, JobStep, Iterate, Lever, ClockStep, Loop, vars

\* Every variable of the throttle keeps its type: notch, speeds and counters
\* stay in range for any commands, messages of a lead and handlers that loop.
THEOREM ThrottleTypes == ThrottleSpec => []ThrottleTypeOK
<1>1. ThrottleInit => ThrottleTypeOK
  <2> SUFFICES ASSUME ThrottleInit PROVE ThrottleTypeOK
    OBVIOUS
  <2>1. BrakesTypeOK
    BY ThrottleStart DEF BrakesTypeOK
  <2>2. DriverTypes
    <3>1. /\ 0 \in 0..TopNotch /\ 0 \in 0..Clock /\ 0 \in 0..(StartupLoops + 1)
          /\ 0 \in 0..2 /\ "off" \in {"off", "idle", "braking", "powered"}
      BY Counters
    <3>2. {running, neutral, direction, lineConnected} \subseteq BOOLEAN
      BY Zenon DEF ThrottleInit
    <3> QED BY <3>1, <3>2, Zenon DEF ThrottleInit, DriverTypes
  <2>3. MotionTypes
    <3>1. [speed |-> 0, dir |-> TRUE] \in [speed : {0, 2, 3}, dir : BOOLEAN]
      OBVIOUS
    <3>2. 0 \in Speeds /\ 0 \in {0, 2, 3}
      BY DEF Speeds
    <3>3. speed = 0 /\ mph = 0 /\ lastInt = 0 /\ zeroWasSent = FALSE
          /\ decoder = [speed |-> 0, dir |-> TRUE]
      BY DEF ThrottleInit
    <3> QED BY <3>1, <3>2, <3>3 DEF MotionTypes
  <2>4. JobTypes
    BY DEF ThrottleInit, JobTypes
  <2> QED BY <2>1, <2>2, <2>3, <2>4, TypeParts
<1>2. ThrottleTypeOK /\ [ThrottleNext]_vars => ThrottleTypeOK'
  <2> SUFFICES ASSUME ThrottleTypeOK, [ThrottleNext]_vars PROVE ThrottleTypeOK'
    OBVIOUS
  <2>1. BrakesTypeOK /\ DriverTypes /\ MotionTypes /\ JobTypes
    BY TypeParts
  <2>2. BrakesTypeOK'
    BY <2>1, StepChain, ChainTypes DEF BrakesTypeOK
  <2>3. DriverTypes' /\ MotionTypes' /\ JobTypes'
    BY <2>1, DriverStep, MotionStep, JobStepTypes
  <2>4. ThrottleTypeOK' <=> BrakesTypeOK' /\ DriverTypes' /\ MotionTypes' /\ JobTypes'
    BY DEF ThrottleTypeOK, DriverTypes, MotionTypes, JobTypes, Jobs
  <2> QED BY <2>2, <2>3, <2>4
<1> QED BY <1>1, <1>2, PTL DEF ThrottleSpec

-----------------------------------------------------------------------------
(* The decoder.                                                            *)

\* A locomotive that is no trailing unit, outside a calibration run: if it
\* stands, in truth or in what was last reported, the decoder stands; if the
\* decoder runs, it runs in the direction of the reverser.  The last speed
\* sent by computeVelocity is the one reported.
Standing == mph = 0 \/ speed = 0
Follows ==
  /\ Standing => decoder.speed = 0
  /\ decoder.speed > 0 => decoder.dir = direction
InStep ==
  /\ muState # "trailing" /\ job.kind # "mu"
  /\ lastInt = DccStep(mph)
  /\ stage = 0 => Follows

\* A zero speed is always in step.
LEMMA StopFollows ==
  ASSUME NEW dir, Send(0, dir) PROVE Follows'
  BY DEF Send, Follows

\* computeVelocity: what it does not send is the zero that was sent already.
LEMMA VelocityFollows ==
  ASSUME MotionTypes, InStep, NEW s \in Speeds, ComputeVelocity(s), UNCHANGED direction
  PROVE  /\ lastInt' = DccStep(mph')
         /\ stage = 0 => Follows' /\ decoder'.speed = DccStep(s)
<1>1. DccStep(0) = 0 /\ mph \in Speeds /\ decoder.speed \in {0, 2, 3}
  BY DEF DccStep, MotionTypes
<1>2. CASE DccStep(s) # lastInt \/ ~(zeroWasSent /\ mph = 0)
  <2>1. mph' = s /\ lastInt' = DccStep(s) /\ Send(DccStep(s), direction) /\ speed' = s
    BY <1>2 DEF ComputeVelocity
  <2>2. decoder'.speed = DccStep(s) /\ decoder'.dir = direction
    BY <2>1 DEF Send
  <2> QED BY <1>1, <2>1, <2>2 DEF Follows, Standing
<1>3. CASE ~(DccStep(s) # lastInt \/ ~(zeroWasSent /\ mph = 0))
  <2>1. UNCHANGED <<mph, lastInt, decoder>> /\ mph = 0 /\ DccStep(s) = lastInt
    BY <1>3 DEF ComputeVelocity
  <2>2. lastInt = 0 /\ DccStep(s) = 0
    BY <1>1, <2>1 DEF InStep
  <2>3. stage = 0 => decoder.speed = 0
    BY <2>1 DEF InStep, Follows, Standing
  <2> QED BY <2>1, <2>2, <2>3 DEF Follows, InStep
<1> QED BY <1>2, <1>3

LEMMA FollowsSame ==
  ASSUME InStep, UNCHANGED <<mph, lastInt, muState, stage>>, job'.kind # "mu",
         stage = 0 => Follows'
  PROVE  InStep'
  BY DEF InStep

\* No step takes a locomotive out of step but the one that makes it a trailing
\* unit.
LEMMA InStepStep ==
  ASSUME ThrottleTypeOK, InStep, [ThrottleNext]_vars, muState' # "trailing"
  PROVE  InStep'
<1>0. MotionTypes /\ DriverTypes
  BY TypeParts
<1>1. ASSUME UNCHANGED <<motion, direction, decoder, muState, stage>>, job'.kind # "mu"
      PROVE  InStep'
  BY <1>1 DEF InStep, Follows, Standing, motion
<1>2. ASSUME NEW on \in BOOLEAN, PmOnOff(on) PROVE InStep'
  BY <1>1, <1>2 DEF PmOnOff, InStep
<1>3. CASE Lever
  BY <1>1, <1>3 DEF Lever, InStep
<1>4. ASSUME NEW up \in BOOLEAN, LongPress(up) PROVE InStep'
  <2>1. UNCHANGED <<muState, stage>>
    BY <1>4 DEF LongPress
  <2>2. job' \in {NotchTo("longpress", 0, 0, TRUE), NotchTo("panic", 0, 0, TRUE), job}
    BY <1>4 DEF LongPress
  <2>3. job'.kind # "mu"
    BY <2>2 DEF InStep, NotchTo
  <2>4. CASE Stopping
    BY <2>1, <2>3, <2>4, StopFollows, FollowsSame DEF Stopping
  <2>5. CASE UNCHANGED <<motion, decoder>> /\ UNCHANGED direction
    BY <1>1, <2>1, <2>3, <2>5
  <2>6. CASE UNCHANGED <<motion, decoder>> /\ speed = 0
    <3>1. stage = 0 => decoder.speed = 0
      BY <2>6 DEF InStep, Follows, Standing
    <3>2. stage = 0 => Follows'
      BY <2>6, <3>1 DEF Follows
    <3> QED BY <2>1, <2>3, <2>6, <3>2, FollowsSame DEF motion
  <2>7. \/ Stopping
        \/ UNCHANGED <<motion, decoder>> /\ UNCHANGED direction
        \/ UNCHANGED <<motion, decoder>> /\ speed = 0
    BY <1>4 DEF LongPress
  <2> QED BY <2>4, <2>5, <2>6, <2>7
<1>5. CASE PanicStop
  <2>1. job' = NotchTo("panic", 0, 0, TRUE)
    BY <1>5 DEF PanicStop
  <2>2. job'.kind # "mu"
    BY <2>1 DEF NotchTo
  <2> QED BY <1>5, <2>2, StopFollows, FollowsSame DEF PanicStop, Stopping
<1>6. ASSUME NEW on \in BOOLEAN, NEW n, Trainline(on, n) PROVE InStep'
  BY <1>1, <1>6 DEF Trainline, InStep
<1>7. ASSUME NEW r \in 0..2, SetDirection(r) PROVE InStep'
  <2>1. UNCHANGED <<motion, muState, stage, job>> /\ Send(0, direction')
    BY <1>7 DEF SetDirection
  <2> QED BY <2>1, StopFollows, FollowsSame DEF motion, InStep
<1>8. ASSUME NEW s \in {0, 2, 3}, NEW on \in BOOLEAN, Calibrate(s, on) PROVE InStep'
  <2>1. UNCHANGED <<motion, muState, job>>
    BY <1>8 DEF Calibrate
  <2>2. stage' = 0 => Send(0, s = 0 \/ on)
    <3>1. CASE s = 0
      BY <1>8, <3>1 DEF Calibrate, DccStep
    <3>2. CASE s # 0
      <4>1. stage' = (stage + 1) % 3 /\ stage \in 0..2
        BY <1>0, <1>8, <3>2 DEF Calibrate, DriverTypes
      <4>2. stage' = 0 => stage = 2
        BY <4>1
      <4> QED BY <1>8, <3>2, <4>2 DEF Calibrate
    <3> QED BY <3>1, <3>2
  <2>3. stage' = 0 => Follows'
    BY <2>2, StopFollows
  <2> QED BY <2>1, <2>3 DEF InStep, motion
<1>9. CASE Command
  BY <1>9, <1>2, <1>3, <1>4, <1>5, <1>6, <1>7, <1>8 DEF Command
<1>10. ASSUME NEW m \in MuStates, ChangeMuState(m) PROVE InStep'
  BY <1>10 DEF ChangeMuState, InStep, Follows, Standing, motion
<1>11. ~MuMessage
  BY DEF MuMessage, MuSetSpeed, InStep
<1>12. CASE Finish
  <2>1. UNCHANGED <<motion, direction, decoder, muState, stage>> /\ job' = NoJob
    BY <1>12 DEF Finish, InStep
  <2> QED BY <1>1, <2>1 DEF NoJob
<1>13. CASE Iterate \/ ClockStep
  BY <1>1, <1>3, <1>13 DEF Iterate, ClockStep, InStep
<1>14. CASE Loop
  <2>1. UNCHANGED <<direction, muState, stage, job>>
    BY <1>14 DEF Loop
  <2>2. CASE UNCHANGED <<motion, decoder>>
    BY <1>1, <2>1, <2>2 DEF InStep
  <2>3. ASSUME NEW s \in NextSpeeds, ComputeVelocity(s) PROVE InStep'
    <3>1. s \in Speeds
      BY <1>0 DEF NextSpeeds, MotionTypes, Speeds
    <3>2. lastInt' = DccStep(mph') /\ (stage = 0 => Follows')
      BY <1>0, <2>1, <2>3, <3>1, VelocityFollows
    <3> QED BY <2>1, <3>2 DEF InStep
  <2> QED BY <1>14, <2>2, <2>3 DEF Loop, LoopOff, LoopTrailing, LoopDrive
<1>15. CASE UNCHANGED vars
  BY <1>1, <1>15 DEF vars, InStep
<1> QED BY <1>9, <1>10, <1>11, <1>12, <1>13, <1>14, <1>15 DEF ThrottleNext, JobStep

\* Once in step, a locomotive stays so until it becomes a trailing unit,
\* whatever is pressed, calibrated or received: the zeros that panicStop,
\* setDirection and calibrate send behind computeVelocity's back included.
THEOREM StaysInStep == ThrottleSpec => [][InStep /\ muState' # "trailing" => InStep']_vars
<1>1. ThrottleTypeOK /\ [ThrottleNext]_vars => [InStep /\ muState' # "trailing" => InStep']_vars
  BY InStepStep
<1> QED BY <1>1, ThrottleTypes, PTL DEF ThrottleSpec

\* A second in which computeVelocity sends a speed.
SendingSecond ==
  /\ Loop /\ muState # "trailing"
  /\ \E s \in NextSpeeds :
       ComputeVelocity(s) /\ (DccStep(s) # lastInt \/ ~(zeroWasSent /\ mph = 0))

\* The first speed that computeVelocity sends puts a unit that was trailing back
\* in step, whatever its lead left the decoder with.
THEOREM SendingRegainsStep == ThrottleSpec => [][SendingSecond => InStep']_vars
<1>1. ThrottleTypeOK /\ [ThrottleNext]_vars => [SendingSecond => InStep']_vars
  <2> SUFFICES ASSUME ThrottleTypeOK, SendingSecond PROVE InStep'
    OBVIOUS
  <2>1. PICK s \in NextSpeeds :
               ComputeVelocity(s) /\ (DccStep(s) # lastInt \/ ~(zeroWasSent /\ mph = 0))
    BY DEF SendingSecond
  <2>2. UNCHANGED <<direction, muState, stage, job>> /\ job = NoJob /\ muState # "trailing"
    BY DEF SendingSecond, Loop
  <2>3. mph' = s /\ lastInt' = DccStep(s) /\ Send(DccStep(s), direction) /\ speed' = s
    BY <2>1 DEF ComputeVelocity
  <2>4. decoder'.speed = DccStep(s) /\ decoder'.dir = direction
    BY <2>3 DEF Send
  <2>5. DccStep(0) = 0
    BY DEF DccStep
  <2>6. Follows'
    BY <2>2, <2>3, <2>4, <2>5 DEF Follows, Standing
  <2> QED BY <2>2, <2>3, <2>6 DEF InStep, NoJob
<1> QED BY <1>1, ThrottleTypes, PTL DEF ThrottleSpec

LEMMA InStepInductive ==
  ASSUME "trailing" \notin MuStates
  PROVE  ThrottleSpec => [](ThrottleTypeOK /\ InStep)
<1>1. ThrottleInit => InStep
  BY DEF ThrottleInit, InStep, Follows, Standing, DccStep, NoJob
<1>2. InStep /\ ThrottleTypeOK /\ ThrottleTypeOK' /\ [ThrottleNext]_vars => InStep'
  BY InStepStep DEF ThrottleTypeOK
<1> QED BY <1>1, <1>2, ThrottleTypes, PTL DEF ThrottleSpec

\* computeVelocity leaves out a DCC command only when the decoder has that
\* speed, although panicStop, setDirection and calibrate send zeros behind
\* its back: for a locomotive that is never a trailing unit (one that was
\* can keep a speed of its former lead).
THEOREM SilenceIsSafe ==
  ASSUME "trailing" \notin MuStates
  PROVE  ThrottleSpec => QuietOnlyWhenInStep
<1>1. ThrottleTypeOK /\ InStep /\ [ThrottleNext]_vars
        => [QuietSecond /\ stage = 0 => decoder.speed = DccStep(speed')]_vars
  <2> SUFFICES ASSUME ThrottleTypeOK, InStep, QuietSecond, stage = 0
               PROVE  decoder.speed = DccStep(speed')
    OBVIOUS
  <2>1. PICK s \in NextSpeeds : ComputeVelocity(s)
    BY DEF QuietSecond, Loop, LoopOff, LoopTrailing, LoopDrive
  <2>2. MotionTypes
    BY TypeParts
  <2>3. s \in Speeds
    BY <2>2 DEF NextSpeeds, MotionTypes, Speeds
  <2>4. UNCHANGED <<direction, decoder>>
    BY DEF QuietSecond, Loop
  <2>5. decoder'.speed = DccStep(s) /\ speed' = s
    BY <2>1, <2>2, <2>3, <2>4, VelocityFollows DEF ComputeVelocity
  <2> QED BY <2>4, <2>5
<1> QED BY <1>1, InStepInductive, PTL DEF ThrottleSpec, QuietOnlyWhenInStep

\* The decoder of such a locomotive is never told to reverse while it runs.
THEOREM StopsToReverse ==
  ASSUME "trailing" \notin MuStates
  PROVE  ThrottleSpec => ReversesThroughZero
<1>1. ThrottleTypeOK /\ ThrottleTypeOK' /\ InStep /\ [ThrottleNext]_vars
        => [decoder.speed > 0 /\ decoder'.speed > 0 /\ stage = 0 /\ stage' = 0
              => decoder'.dir = decoder.dir]_vars
  <2> SUFFICES ASSUME ThrottleTypeOK, ThrottleTypeOK', InStep, [ThrottleNext]_vars,
                      decoder.speed > 0, decoder'.speed > 0, stage = 0, stage' = 0
               PROVE  decoder'.dir = decoder.dir
    OBVIOUS
  <2>1. InStep'
    <3> muState' # "trailing"
      BY DEF ThrottleTypeOK
    <3> QED BY InStepStep
  <2>2. decoder.dir = direction /\ decoder'.dir = direction'
    BY <2>1 DEF InStep, Follows
  <2>3. speed # 0
    BY DEF InStep, Follows, Standing
  <2>4. UNCHANGED direction
    <3>1. ASSUME NEW up \in BOOLEAN, LongPress(up) PROVE UNCHANGED direction
      BY <2>3, <3>1 DEF LongPress
    <3>2. ASSUME NEW r \in 0..2, SetDirection(r) PROVE FALSE
      BY <3>2 DEF SetDirection, Send
    <3>3. CASE Command
      BY <3>1, <3>2, <3>3 DEF Command, PmOnOff, Lever, PanicStop, Trainline, Calibrate
    <3>4. ~MuMessage
      BY DEF MuMessage, MuSetSpeed, InStep
    <3> QED BY <3>3, <3>4 DEF ThrottleNext, ChangeMuState, JobStep, Iterate, Lever, Finish,
                              ClockStep, Loop, vars
  <2> QED BY <2>2, <2>4
<1> QED BY <1>1, InStepInductive, PTL DEF ThrottleSpec, ReversesThroughZero
=============================================================================
