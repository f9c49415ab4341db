--------------------------- MODULE ThrottleControl ---------------------------
(***************************************************************************)
(* The throttle of one locomotive (Throttle.cpp): the commands of the app  *)
(* dispatched by CommandHandler, the loop() that runs once a second and    *)
(* computes the speed, and the speed the DCC decoder was last told.        *)
(*                                                                         *)
(* The brakes are those of BrakeSystem.  A speed is one of four classes: 0 *)
(* stopped, 1 creeping below the first DCC speed step, 2 up to 10 mph, 3   *)
(* faster.  computeVelocity chooses the next class: without a notch the    *)
(* tractive force is zero and the speed cannot rise; everything else about *)
(* the forces is left open.                                                *)
(*                                                                         *)
(* A `while` loop of a handler is one step per iteration.  Commands, the   *)
(* one-second loop and the handlers run in one task, so nothing but the    *)
(* clock moves until such a loop ends.                                     *)
(***************************************************************************)
EXTENDS BrakeSystem

CONSTANTS TopNotch,       \* 8
          StartupLoops,   \* calls of loop() before the compressor may run, 15
          PrimeTime,      \* seconds the decoder needs after a start, 10
          MuStates,       \* the consist states this locomotive may take
          LeadSpeeds,     \* the speeds its lead may report, of 0..3
          Topics          \* the command topics the app sends

ASSUME ThrottleAssumption ==
  /\ TopNotch \in Nat \ {0} /\ StartupLoops \in Nat /\ PrimeTime \in Nat
  /\ MuStates \subseteq {"solo", "lead", "trailing"} /\ "solo" \in MuStates
  /\ LeadSpeeds \subseteq 0..3

VARIABLES running, opMode, notch, neutral, direction, lineConnected,
          speed, mph, lastInt, zeroWasSent,   \* computeVelocity
          startup, uptime,                    \* counters of seconds
          muState, stage,                     \* consist, calibration stage
          job,                                \* the while loop in progress
          decoder                             \* last speed and direction sent

modeVars == <<opMode, notch, brakes>>
motion == <<speed, mph, lastInt, zeroWasSent>>
vars == <<brakes, running, opMode, notch, neutral, direction, lineConnected,
          motion, startup, uptime, muState, stage, job, decoder>>

Speeds == 0..3
DccStep(s) == IF s <= 1 THEN 0 ELSE s
Clock == Higher(PrimeTime, StartupLoops + 1)   \* bound of the two counters
NoJob == [kind |-> "none"]
NotchTo(kind, n, s, dir) == [kind |-> kind, target |-> n, speed |-> s, dir |-> dir]

ThrottleInit ==
  /\ BrakesInit
  /\ running = FALSE /\ opMode = "off" /\ notch = 0 /\ uptime = 0
  /\ neutral = TRUE /\ direction = TRUE /\ lineConnected = FALSE
  /\ speed = 0 /\ mph = 0 /\ lastInt = 0 /\ zeroWasSent = FALSE
  /\ startup = 0 /\ stage = 0 /\ job = NoJob
  /\ muState \in MuStates
  /\ decoder = [speed |-> 0, dir |-> TRUE]

Send(s, dir) == decoder' = [speed |-> s, dir |-> dir]

-----------------------------------------------------------------------------
(* The brake levers and the notch.                                         *)

ModeOf(applying) == IF applying THEN "braking" ELSE "idle"

SetLBrake(applying) ==
  /\ opMode' = ModeOf(applying) /\ brakes' \in ApplyLocoBrake(brakes, applying)
  /\ UNCHANGED notch
SetABrake(applying) ==
  /\ opMode' = ModeOf(applying) /\ brakes' = ApplyTrainBrake(brakes, applying)
  /\ UNCHANGED notch
SetEBrake(applying) ==
  /\ opMode' = ModeOf(applying) /\ brakes' = ApplyEmergency(brakes, applying)
  /\ UNCHANGED notch

\* Releases the brakes that are on, in the order the code asks for them.
ReleaseApplied(b) ==
  LET e == IF b.emergencyOn THEN ApplyEmergency(b, FALSE) ELSE b
      t == IF e.trainOn THEN ApplyTrainBrake(e, FALSE) ELSE e
  IN  IF t.locoOn THEN ReleaseLocoBrake(t) ELSE t
AnyBrakeOn(b) == b.emergencyOn \/ b.trainOn \/ b.locoOn

\* manualNotch(up), as it changes the mode, the notch and the brakes.
NotchUp ==
  /\ opMode # "braking" /\ notch < TopNotch
  /\ opMode' = "powered" /\ notch' = notch + 1 /\ UNCHANGED brakes
ReleaseBrakes ==
  /\ opMode = "braking"
  /\ opMode' = "idle" /\ brakes' = ReleaseApplied(brakes) /\ UNCHANGED notch
NotchDown ==
  /\ opMode = "powered" /\ notch > 0
  /\ notch' = notch - 1 /\ opMode' = IF notch = 1 THEN "idle" ELSE opMode
  /\ UNCHANGED brakes
BrakeMore ==
  /\ opMode \in {"idle", "braking"}
  /\ opMode' = "braking" /\ UNCHANGED notch
  /\ \E b \in ApplyLocoBrake(brakes, TRUE) :
       brakes' = IF lineConnected THEN ApplyTrainBrake(b, TRUE) ELSE b

Primed == running /\ uptime >= PrimeTime
ManualNotch(up) ==
  \/ Primed /\ up /\ (NotchUp \/ ReleaseBrakes)
  \/ Primed /\ ~up /\ (NotchDown \/ BrakeMore)
  \/ /\ \/ ~Primed
        \/ up /\ opMode # "braking" /\ notch = TopNotch
        \/ ~up /\ (opMode = "off" \/ (opMode = "powered" /\ notch = 0))
     /\ UNCHANGED modeVars

-----------------------------------------------------------------------------
(* The commands.                                                           *)

\* Mutants of PmOnOff: a stop leaves the mode as it was; a stop leaves the
\* compressor running.
PmOnOffKeepsMode(on) ==
  /\ running' = on /\ opMode' = IF on THEN "idle" ELSE opMode
  /\ uptime' = IF on THEN 0 ELSE uptime
  /\ brakes' = Cycle(brakes, FALSE)
  /\ UNCHANGED <<notch, neutral, direction, lineConnected, motion, startup,
                 muState, stage, job, decoder>>
PmOnOffKeepsCompressor(on) ==
  /\ running' = on /\ opMode' = IF on THEN "idle" ELSE "off"
  /\ uptime' = IF on THEN 0 ELSE uptime
  /\ UNCHANGED <<brakes, notch, neutral, direction, lineConnected, motion,
                 startup, muState, stage, job, decoder>>

PmOnOff(on) ==
  /\ running' = on /\ opMode' = IF on THEN "idle" ELSE "off"
  /\ uptime' = IF on THEN 0 ELSE uptime
  /\ brakes' = IF on THEN ApplyTrainBrake(ReleaseLocoBrake(
                              ApplyEmergency(brakes, FALSE)), FALSE)
               ELSE Cycle(brakes, FALSE)
  /\ UNCHANGED <<notch, neutral, direction, lineConnected, motion, startup,
                 muState, stage, job, decoder>>

Stopping == Send(0, TRUE) /\ speed' = 0 /\ UNCHANGED <<mph, lastInt, zeroWasSent>>
PanicStop ==
  /\ Stopping /\ job' = NotchTo("panic", 0, 0, TRUE)
  /\ UNCHANGED <<modeVars, running, neutral, direction, lineConnected,
                 startup, uptime, muState, stage>>

\* Mutant of SetDirection: the decoder is not stopped first.
SetDirectionRolling(reverser) ==
  /\ neutral' = (reverser = 1) /\ direction' = (reverser # 0)
  /\ UNCHANGED <<modeVars, running, lineConnected, motion, startup, uptime,
                 muState, stage, job, decoder>>

SetDirection(reverser) ==
  /\ neutral' = (reverser = 1) /\ direction' = (reverser # 0)
  /\ Send(0, direction')
  /\ UNCHANGED <<modeVars, running, lineConnected, motion, startup, uptime,
                 muState, stage, job>>

Trainline(connect, cars) ==
  /\ brakes' = ConnectAirLine(brakes, connect, cars) /\ lineConnected' = connect
  /\ UNCHANGED <<opMode, notch, running, neutral, direction, motion, startup,
                 uptime, muState, stage, job, decoder>>

\* longPress(up): the first test may change the mode that the others read.
LongPress(up) ==
  LET releasing == up /\ opMode = "braking"
      mode == IF releasing /\ AnyBrakeOn(brakes) THEN "idle" ELSE opMode
      reversing == up /\ mode = "idle" /\ speed = 0
      notching == ~up /\ opMode = "powered"
      emergency == ~up /\ mph > 2 /\ opMode = "idle"
      quick == ~up /\ mph <= 2 /\ opMode \in {"idle", "braking"}
  IN  /\ opMode # "off" /\ muState # "trailing"
      /\ opMode' = IF emergency THEN "braking" ELSE mode
      /\ brakes' = IF releasing THEN ReleaseApplied(brakes)
                   ELSE IF emergency THEN ApplyEmergency(brakes, TRUE) ELSE brakes
      /\ neutral' = (neutral /\ ~reversing)
      /\ direction' = IF reversing THEN (neutral \/ ~direction) ELSE direction
      /\ job' = IF notching THEN NotchTo("longpress", 0, 0, TRUE)
                ELSE IF quick THEN NotchTo("panic", 0, 0, TRUE) ELSE job
      /\ IF quick THEN Stopping ELSE UNCHANGED <<motion, decoder>>
      /\ UNCHANGED <<running, notch, lineConnected, startup, uptime, muState, stage>>

\* calibrate(mph): start the run, pass the first gate, stop after the second.
Calibrate(s, dir) ==
  /\ stage' = IF s = 0 THEN 0 ELSE (stage + 1) % 3
  /\ IF s # 0 /\ stage = 1 THEN UNCHANGED decoder
     ELSE Send(IF stage = 0 THEN DccStep(s) ELSE 0, s = 0 \/ dir)
  /\ UNCHANGED <<modeVars, running, neutral, direction, lineConnected, motion,
                 startup, uptime, muState, job>>

Lever == UNCHANGED <<running, neutral, direction, lineConnected, motion,
                     startup, uptime, muState, stage, job, decoder>>
\* CommandHandler::loop: one command a time, never during another one.
Command ==
  /\ job = NoJob
  /\ \E on \in BOOLEAN :
       \/ "startstop" \in Topics /\ PmOnOff(on)
       \/ "notch" \in Topics /\ ManualNotch(on) /\ Lever
       \/ "ibrake" \in Topics /\ SetLBrake(on) /\ Lever
       \/ "tbrake" \in Topics /\ SetABrake(on) /\ Lever
       \/ "longpress" \in Topics /\ LongPress(on)
       \/ "stop" \in Topics /\ PanicStop
       \/ "trainline" \in Topics /\ \E n \in CarCounts : Trainline(on, n)
       \/ "reverser" \in Topics /\ \E r \in 0..2 : SetDirection(r)
       \/ "calibrate" \in Topics /\ \E s \in {0, 2, 3} : Calibrate(s, on)

-----------------------------------------------------------------------------
(* The consist: a trailing unit follows the status messages of its lead.   *)

\* muSetState and the other handlers that change _muState, without the rest.
ChangeMuState(m) ==
  /\ job = NoJob /\ m # muState /\ muState' = m
  /\ UNCHANGED <<modeVars, running, neutral, direction, lineConnected, motion,
                 startup, uptime, stage, job, decoder>>

\* muSetSpeed of a message with speed s, direction dir and notch n, which
\* lists this unit as a member or not.
MuSetSpeed(listed, s, dir, n) ==
  /\ job = NoJob /\ muState = "trailing" /\ running
  /\ IF ~listed /\ s > 0
     THEN muState' = "solo" /\ UNCHANGED <<direction, job>>
     ELSE /\ direction' = dir /\ job' = NotchTo("mu", n, s, dir)
          /\ UNCHANGED muState
  /\ UNCHANGED <<modeVars, running, neutral, lineConnected, motion, startup,
                 uptime, stage, decoder>>

\* Mutant of Iterate: the comparison that chooses up or down is turned round.
IterateAway ==
  /\ job # NoJob /\ notch # job.target
  /\ ManualNotch(notch > job.target) /\ Lever

\* One iteration of the while loop of a handler, and what follows the loop.
Iterate ==
  /\ job # NoJob /\ notch # job.target
  /\ ManualNotch(notch < job.target) /\ Lever
Finish ==
  /\ job # NoJob /\ notch = job.target
  /\ job' = NoJob
  /\ IF job.kind = "mu" THEN Send(DccStep(job.speed), job.dir) ELSE UNCHANGED decoder
  /\ UNCHANGED <<modeVars, running, neutral, direction, lineConnected, motion,
                 startup, uptime, muState, stage>>
JobStep == Iterate \/ Finish

\* The clock runs on while a handler loops.
Tick == uptime' = Lower(uptime + 1, Clock)
ClockStep ==
  /\ job # NoJob /\ uptime < Clock /\ Tick
  /\ UNCHANGED <<modeVars, running, neutral, direction, lineConnected, motion,
                 startup, muState, stage, job, decoder>>

-----------------------------------------------------------------------------
(* loop(), once a second.                                                  *)

NextSpeeds == IF notch = 0 THEN 0..speed ELSE Speeds
\* Mutant of ComputeVelocity: only a change of the DCC speed is sent.
SendOnlyChanges(s) ==
  LET send == DccStep(s) # lastInt
  IN  /\ speed' = s
      /\ IF send THEN /\ mph' = s /\ lastInt' = DccStep(s)
                      /\ Send(DccStep(s), direction)
         ELSE UNCHANGED <<mph, lastInt, decoder>>
      /\ UNCHANGED zeroWasSent

ComputeVelocity(s) ==
  LET sent == zeroWasSent /\ mph = 0
      send == DccStep(s) # lastInt \/ ~sent
  IN  /\ speed' = s
      /\ IF send THEN /\ mph' = s /\ lastInt' = DccStep(s)
                      /\ Send(DccStep(s), direction)
         ELSE UNCHANGED <<mph, lastInt, decoder>>
      /\ zeroWasSent' = (sent \/ mph' = 0)

LoopOff ==
  /\ ~running
  /\ startup' = 0 /\ brakes' = SetPMRunning(brakes, FALSE)
  /\ UNCHANGED <<motion, decoder>>
LoopTrailing ==
  /\ running /\ muState = "trailing"
  /\ UNCHANGED <<startup, brakes, motion, decoder>>
LoopDrive ==
  /\ running /\ muState # "trailing"
  /\ startup' = Lower(startup + 1, StartupLoops + 1)
  /\ brakes' = Cycle(IF startup = StartupLoops THEN SetPMRunning(brakes, TRUE)
                     ELSE brakes, TRUE)
  /\ IF neutral THEN UNCHANGED <<motion, decoder>>
     ELSE \E s \in NextSpeeds : ComputeVelocity(s)
Loop ==
  /\ job = NoJob /\ Tick
  /\ LoopOff \/ LoopTrailing \/ LoopDrive
  /\ UNCHANGED <<running, opMode, notch, neutral, direction, lineConnected,
                 muState, stage, job>>

MuMessage == \E listed, dir \in BOOLEAN, s \in LeadSpeeds, n \in 0..TopNotch :
               MuSetSpeed(listed, s, dir, n)
ThrottleNext ==
  \/ Command
  \/ \E m \in MuStates : ChangeMuState(m)
  \/ MuMessage
  \/ JobStep
  \/ ClockStep
  \/ Loop

\* The task runs its loops, and the clock advances.
ThrottleFairness == WF_vars(JobStep) /\ WF_vars(ClockStep) /\ WF_vars(Loop)
ThrottleSpec == ThrottleInit /\ [][ThrottleNext]_vars /\ ThrottleFairness

-----------------------------------------------------------------------------
(* Properties.                                                             *)

\* Every variable keeps its type.
ThrottleTypeOK ==
  /\ BrakesTypeOK
  /\ {running, neutral, direction, lineConnected, zeroWasSent} \subseteq BOOLEAN
  /\ opMode \in {"off", "idle", "braking", "powered"} /\ muState \in MuStates
  /\ notch \in 0..TopNotch /\ stage \in 0..2
  /\ startup \in 0..(StartupLoops + 1) /\ uptime \in 0..Clock
  /\ {speed, mph} \subseteq Speeds /\ lastInt \in {0, 2, 3}
  /\ decoder \in [speed : {0, 2, 3}, dir : BOOLEAN]
  /\ job \in {NoJob} \union [kind : {"panic", "longpress", "mu"},
                             target : 0..TopNotch, speed : Speeds, dir : BOOLEAN]

\* The mode tells the truth: the throttle is in the powered mode only with
\* the prime mover running and a notch taken, and in the braking mode only
\* with some brake applied; every handler that changes one changes the other.
ModeTellsTruth ==
  /\ opMode = "powered" => running /\ Primed /\ notch > 0
  /\ opMode = "braking" => AnyBrakeOn(brakes)

\* A compressor that runs has the prime mover behind it.
CompressorNeedsPM == brakes.compressor => running

\* computeVelocity saves a speed command only when the decoder already has
\* the speed it computed, whatever other handlers sent to the decoder.
QuietSecond == Loop /\ running /\ ~neutral /\ muState # "trailing" /\ UNCHANGED decoder
QuietOnlyWhenInStep ==
  [][QuietSecond /\ stage = 0 => decoder.speed = DccStep(speed')]_vars

\* Outside a calibration run the decoder is never told to reverse while it
\* runs: a zero speed lies between the two directions.
ReversesThroughZero ==
  [][decoder.speed > 0 /\ decoder'.speed > 0 /\ stage = 0 /\ stage' = 0
       => decoder'.dir = decoder.dir]_vars

\* A trainline that is left alone after a release charges completely, for a
\* train of any length, while the prime mover runs and the unit does not trail:
\* only then does loop() cycle the brakes.
Released == brakes.set = LineMax
TrainlineRecovers ==
  /\ <>[](running /\ muState # "trailing" /\ Released /\ job = NoJob)
  /\ <>[][brakes'.line >= brakes.line]_vars
  => <>[](brakes.line = LineMax)

\* The long press down from a powered throttle always reaches notch zero and
\* returns.
NotchDownEnds == job.kind = "longpress" ~> job = NoJob

\* "reset the throttle to idle": the panic stop reaches notch zero and returns.
PanicStopEnds == job.kind = "panic" ~> job = NoJob

\* "if true notch up, else down until equal": a trailing unit reaches the
\* notch of its lead and returns.
FollowsNotch == job.kind = "mu" ~> job = NoJob

\* "Any single loco will compute its own acceleration and subsequent speed":
\* the decoder of a single running locomotive that stands does not stay at a
\* speed somebody else commanded.
OwnSpeed == <>[](muState = "solo" /\ running /\ speed = 0 /\ stage = 0 /\ job = NoJob)
              => []<>(decoder.speed = 0)

\* "delay compressor startup": the compressor runs only after its delay.
CompressorDelayed == brakes.compressor => uptime >= StartupLoops

\* "release all brakes": a long press up leaves no brake effort behind.
LongPressReleases ==
  [][opMode = "braking" /\ job = NoJob /\ LongPress(TRUE)
       => brakes'.effLoco = 0 /\ brakes'.effTrain = 0]_vars

\* "Table-based lookup for divisors": computeVelocity reads an entry the table has.
DivisorTable == 0..7
LookupInTable == [][Loop /\ speed' # speed => notch \in DivisorTable]_vars
=============================================================================
