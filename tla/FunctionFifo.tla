---------------------------- MODULE FunctionFifo ----------------------------
(***************************************************************************)
(* The decoder functions (lamps, horn, bell, sounds) of one locomotive:    *)
(* the handlers of Throttle.cpp push commands into a queue (Fifo.cpp) that *)
(* loop() empties at one command every 200 ms, and setFunction             *)
(* (Function.cpp) turns each command into a DCC packet.  A packet carries  *)
(* a whole group of functions, so the state of the others in the group     *)
(* comes from the map setFunction keeps of what it sent.                   *)
(*                                                                         *)
(* The numbers are settings of the user, all 0 to begin with: roles may    *)
(* share a number, the app may send any number, and none need be one of    *)
(* the 29 the map has room for.                                            *)
(*                                                                         *)
(* `wanted` and `borrowed` are history variables: the last command pushed  *)
(* for each function, and whether the last one for the bright lamp came    *)
(* from another handler than headlight.  The values _rearlight and _bell   *)
(* are only reported and are left out.                                     *)
(***************************************************************************)
EXTENDS Integers, Sequences

CONSTANTS Functions,      \* function numbers of this decoder that are in use
          Fn,             \* the function number configured for each role
          Levers,         \* the roles pushed with the prime mover on or off: brake
                          \* levers, compressor, the bell of a calibration
          Sounds,         \* the sound buttons, "bell" and "horn"
          Pulses,         \* the notch buttons pressed, "notchUp" and "notchDown"
          AppFunctions,   \* the function numbers the app's buttons send
          MuStates,       \* the consist states this locomotive may take
          MaxQueue        \* bound of the queue, which has none in the code

Roles == {"pm", "notchingEnable", "notchUp", "notchDown", "headlightBright",
          "headlightDim", "rearlightBright", "rearlightDim", "brakeSqueal"}
           \union Levers \union Sounds

Bright == Fn["headlightBright"]
Numbers == {Fn[r] : r \in Roles} \union AppFunctions

ASSUME FunctionAssumption ==
  /\ Functions \subseteq 0..28
  /\ Fn \in [Roles -> Int] /\ AppFunctions \subseteq Int
  /\ Numbers \intersect 0..28 \subseteq Functions
  /\ Pulses \subseteq {"notchUp", "notchDown"}
  /\ MuStates \subseteq {"solo", "lead", "mid", "trailing"} /\ MaxQueue \in Nat

VARIABLES queue, fMap,
          decoder,     \* the functions as the packets sent so far set them
          overrun,     \* a store past the end of fMap
          wanted, borrowed,
          running, muState, muReversed, headlight, squealOn

vars == <<queue, fMap, decoder, overrun, wanted, borrowed, running, muState,
          muReversed, headlight, squealOn>>

Cmd(f, on) == [fn |-> f, on |-> on]
Commands == [fn : Numbers, on : BOOLEAN]

-----------------------------------------------------------------------------
(* The queue.                                                              *)

Want(w, c) == IF c.fn \in Functions THEN [w EXCEPT ![c.fn] = c.on] ELSE w

\* pushCommand, once or twice in a row; Push and PushTwo are those of every
\* handler but headlight.
Borrow(numbers) == borrowed' = (borrowed \/ Bright \in numbers)
EnqueueTwo(c, d) ==
  /\ Len(queue) + 1 < MaxQueue
  /\ queue' = Append(Append(queue, c), d) /\ wanted' = Want(Want(wanted, c), d)
PushTwo(c, d) == EnqueueTwo(c, d) /\ Borrow({c.fn, d.fn})
Push(c) ==
  /\ Len(queue) < MaxQueue
  /\ queue' = Append(queue, c) /\ wanted' = Want(wanted, c)
  /\ Borrow({c.fn})

\* The functions one packet carries: F0-F4, F5-F8, F9-F12, F13-F20 and, for
\* whatever else passes the check of the range, F21-F28.
Spans == {0..4, 5..8, 9..12, 13..20, 21..29}
Grouped(f, g) == \E span \in Spans : {f, g} \subseteq span
SendGroup(f) ==
  decoder' = [g \in Functions |-> IF Grouped(f, g) THEN fMap'[g] ELSE decoder[g]]

\* Mutants of SetFunction: the range is not checked; the packet is built from
\* the one function alone.
SetFunctionUnchecked(f, on) ==
  /\ fMap' = [g \in Functions \union {f} |-> IF g = f THEN on ELSE fMap[g]]
  /\ SendGroup(f) /\ UNCHANGED overrun
SetFunctionForgets(f, on) ==
  /\ UNCHANGED <<fMap, overrun>>
  /\ decoder' = [g \in Functions |-> IF Grouped(f, g) THEN on /\ g = f ELSE decoder[g]]

\* fMap has the indices 0 to 28 and the check lets 29 pass: the store hits the
\* byte behind the map, which is none of the variables here, and the packet of
\* F21-F28 goes out.
SetFunction(f, on) ==
  IF f \notin 0..29 THEN UNCHANGED <<fMap, decoder, overrun>>
  ELSE /\ fMap' = IF f = 29 THEN fMap ELSE [fMap EXCEPT ![f] = on]
       /\ overrun' = (overrun \/ f = 29)
       /\ SendGroup(f)

Pop ==
  /\ queue # <<>>
  /\ SetFunction(Head(queue).fn, Head(queue).on)
  /\ queue' = Tail(queue)
  /\ UNCHANGED <<wanted, borrowed, running, muState, muReversed, headlight, squealOn>>

-----------------------------------------------------------------------------
(* The handlers.                                                           *)

Unmued == muState \in {"solo", "lead"}

\* init(), at the end of setup().
AllOff == [f \in Functions |-> FALSE]
FifoInit ==
  /\ queue = <<Cmd(Fn["notchingEnable"], TRUE), Cmd(Fn["notchUp"], FALSE),
               Cmd(Fn["notchDown"], FALSE)>>
  /\ fMap = AllOff /\ decoder = AllOff /\ overrun = FALSE
  /\ wanted = Want(Want(Want(AllOff, queue[1]), queue[2]), queue[3])
  /\ borrowed = (Bright \in {Fn["notchingEnable"], Fn["notchUp"], Fn["notchDown"]})
  /\ running = FALSE /\ muState \in MuStates /\ muReversed \in BOOLEAN
  /\ headlight = 0 /\ squealOn = FALSE

PmOnOff(on) ==
  /\ running' = on /\ PushTwo(Cmd(Fn["pm"], on), Cmd(Fn["notchingEnable"], on))
  /\ UNCHANGED <<muState, muReversed, headlight, squealOn>>

\* Two lamps of a pair: dim, then bright, for off (0), dim (1) and bright (2).
Dim(role, r) == Cmd(Fn[role], r = 1)
Lit(role, r) == Cmd(Fn[role], r = 2)

\* Mutant of Headlight: the setting is recorded before the MU state is tested.
HeadlightRecorded(r) ==
  /\ headlight' = r
  /\ IF Unmued
     THEN /\ EnqueueTwo(Dim("headlightDim", r), Lit("headlightBright", r))
          /\ borrowed' = FALSE
     ELSE UNCHANGED <<queue, wanted, borrowed>>
  /\ UNCHANGED <<running, muState, muReversed, squealOn>>

Headlight(r) ==
  /\ Unmued
  /\ headlight' = r
  /\ EnqueueTwo(Dim("headlightDim", r), Lit("headlightBright", r)) /\ borrowed' = FALSE
  /\ UNCHANGED <<running, muState, muReversed, squealOn>>

\* rearlight(r): a lead passes it on to the last unit, a unit in the middle
\* ignores it; the dim lamp of a reversed trailing unit is the headlight's.
RearDim == IF muState = "trailing" /\ muReversed THEN "headlightDim" ELSE "rearlightDim"
Rearlight(r) ==
  /\ muState \in {"solo", "trailing"}
  /\ PushTwo(Dim(RearDim, r), Lit("rearlightBright", r))
  /\ UNCHANGED <<running, muState, muReversed, headlight, squealOn>>

Sound(role, on) ==
  /\ running /\ Push(Cmd(Fn[role], on))
  /\ UNCHANGED <<running, muState, muReversed, headlight, squealOn>>

\* Mutant of Pulse: the button is released before it is pressed.
PulseReleasedFirst(role) ==
  /\ running /\ PushTwo(Cmd(Fn[role], FALSE), Cmd(Fn[role], TRUE))
  /\ UNCHANGED <<running, muState, muReversed, headlight, squealOn>>

\* manualNotch presses and releases the notch button of the decoder.
Pulse(role) ==
  /\ running /\ PushTwo(Cmd(Fn[role], TRUE), Cmd(Fn[role], FALSE))
  /\ UNCHANGED <<running, muState, muReversed, headlight, squealOn>>

\* setLBrake, setABrake, setEBrake, the lead's brake in muSetSpeed, the
\* compressor of cycle(), the bell of calibrate and longPress.
Lever(role, on) ==
  /\ Push(Cmd(Fn[role], on))
  /\ UNCHANGED <<running, muState, muReversed, headlight, squealOn>>

\* brakeSqueal: slow, and braking harder than lightly to begin with.
BrakeSqueal(slow, hard) ==
  /\ running /\ Unmued
  /\ slow # squealOn /\ (slow => hard)
  /\ squealOn' = slow /\ Push(Cmd(Fn["brakeSqueal"], slow))
  /\ UNCHANGED <<running, muState, muReversed, headlight>>

\* setFunction of the throttle: whatever number the app names.
AppFunction(f, on) ==
  /\ Push(Cmd(f, on))
  /\ UNCHANGED <<running, muState, muReversed, headlight, squealOn>>

\* muSetState and the other handlers that change _muState.
MuSetState(m, reversed) ==
  /\ muState' = m /\ muReversed' = reversed
  /\ UNCHANGED <<queue, fMap, decoder, overrun, wanted, borrowed, running, headlight,
                 squealOn>>

Handler ==
  /\ UNCHANGED <<fMap, decoder, overrun>>
  /\ \/ \E on \in BOOLEAN :
          \/ PmOnOff(on)
          \/ \E role \in Sounds : Sound(role, on)
          \/ \E role \in Levers : Lever(role, on)
          \/ \E hard \in BOOLEAN : BrakeSqueal(on, hard)
          \/ \E f \in AppFunctions : AppFunction(f, on)
     \/ \E r \in 0..2 : Headlight(r) \/ Rearlight(r)
     \/ \E role \in Pulses : Pulse(role)

FifoNext ==
  \/ Pop \/ Handler
  \/ \E m \in MuStates, rev \in BOOLEAN : MuSetState(m, rev)

\* loop() pops a command whenever its 200 ms timer has expired.
FifoSpec == FifoInit /\ [][FifoNext]_vars /\ WF_vars(Pop)

-----------------------------------------------------------------------------
(* Properties.                                                             *)

\* Every variable keeps its type; a function the map has no place for changes
\* neither map nor decoder (the store behind the map is StoresInMap's).
FifoTypeOK ==
  /\ queue \in Seq(Commands)
  /\ {fMap, decoder, wanted} \subseteq [Functions -> BOOLEAN]
  /\ {overrun, borrowed, running, muReversed, squealOn} \subseteq BOOLEAN
  /\ muState \in MuStates /\ headlight \in 0..2

\* "ENGINE DECODER FUNCTIONS F0-F28": setFunction, whose map has a place for
\* each of these, stores nowhere else whatever numbers the user configures or
\* the app sends.  It does: its check lets 29 pass.
StoresInMap == ~overrun

\* No command is forgotten or undone by the packet of another function: a
\* function without a command in the queue is as the last command for it
\* said, and for the others that command is the last one in the queue.
DecoderFollows ==
  \A f \in Functions :
    \/ decoder[f] = wanted[f] /\ \A i \in DOMAIN queue : queue[i].fn # f
    \/ \E i \in DOMAIN queue :
         /\ queue[i] = Cmd(f, wanted[f])
         /\ \A j \in DOMAIN queue : j > i => queue[j].fn # f

\* The headlight setting the app is told (reportCondition) is the one the
\* bright lamp shows once the queue is empty, whatever consist the unit
\* joined and left meanwhile, as long as nobody else sent a command with the
\* number of that lamp since: a function button of the app, or a role that
\* shares the number, may put the lamp out behind headlight's back.
BrightLampReported ==
  queue = <<>> /\ ~borrowed /\ Bright \in Functions => decoder[Bright] = (headlight = 2)

\* The notch button of the decoder is never left pressed, if its number is a
\* function and no other role or button has it.
OwnNumber(role) ==
  /\ Fn[role] \in Functions \ AppFunctions
  /\ \A other \in Roles : Fn[other] = Fn[role] => other = role
NotchReleased ==
  \A role \in Pulses : OwnNumber(role) => (decoder[Fn[role]] ~> ~decoder[Fn[role]])

\* "the rear facing light is the physical headlight": the rear light command
\* of a reversed trailing unit sets the headlight's bright lamp.
ReversedRear(r) == muState = "trailing" /\ muReversed /\ Rearlight(r)
RearLampIsHeadlight ==
  [][\A r \in 0..2 : ReversedRear(r) => wanted'[Bright] = (r = 2)]_vars
=============================================================================
