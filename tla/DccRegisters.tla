---------------------------- MODULE DccRegisters ----------------------------
(***************************************************************************)
(* The double-buffered DCC packet registers of the main track and the      *)
(* timer interrupt that clocks them out (PacketRegister.cpp, onTimer1 in   *)
(* main.cpp).  The Arduino loop task sends throttle and function packets;  *)
(* a task of the web server may send CV writes.  A loader is a sequence of *)
(* steps that the interrupt can fall between; the interrupt is one step.   *)
(*                                                                         *)
(* A packet buffer is a row of cells.  A cell stands for one byte of the   *)
(* packet and holds the payload of the load that wrote it, so a packet     *)
(* that mixes two loads can be told from a whole one.  Preamble, address   *)
(* and checksum bytes are not told apart from the cell that follows them,  *)
(* and currentBit counts cells instead of bits.                            *)
(***************************************************************************)
EXTENDS Integers, FiniteSets

CONSTANTS MaxRegs,       \* maxNumRegs: registers 0..MaxRegs exist
          MaxLen,        \* cells of a packet buffer
          BitWrap,       \* where the byte currentBit wraps to 0
          ThrottleLens,  \* lengths of idle and throttle packets
          FunctionLens,  \* lengths of function packets
          CvLens,        \* lengths of CV write packets
          Repeats,       \* the nRepeat of one-time packets, 4 in the code
          Payloads,      \* what a packet may say
          WebTasks,      \* web-server tasks that run a form handler
          Blank          \* content of a cell that was never written

LoopTask == "loop"
Tasks == {LoopTask} \union WebTasks
Slots == 0..MaxRegs
NULL == -1              \* below every register, as the null pointer is

ASSUME SizesAssumption ==
  /\ MaxRegs \in Nat \ {0}
  /\ MaxLen \in Nat \ {0}
  /\ BitWrap \in Nat /\ BitWrap > MaxLen
  /\ Repeats \in Nat
ASSUME LensAssumption ==
  ThrottleLens \union FunctionLens \union CvLens \subseteq 1..MaxLen
ASSUME NamesAssumption ==
  Blank \notin Payloads /\ LoopTask \notin WebTasks

VARIABLES timersOn,      \* the pulse timers are enabled
          packet,        \* reg[slot].packet[0..1]: cells and length
          active,        \* which of the two activePacket points to
          regMap,        \* register number -> slot, NULL before the first load
          currentReg, maxLoadedReg, nextReg, currentBit, nRepeat,
          pc,            \* where each task is in loadPacket
          job,           \* its arguments and the locals r and p
          wire,          \* history: payloads sent since the packet began
          resent         \* history: how often the packet was sent again

isrVars == <<currentReg, currentBit, active, wire, resent>>
loaderVars == <<regMap, packet, pc, job, maxLoadedReg>>
vars == <<timersOn, packet, active, regMap, currentReg, maxLoadedReg, nextReg,
          currentBit, nRepeat, pc, job, wire, resent>>

Cells == 0..(MaxLen - 1)
Buffer == [cell : [Cells -> Payloads \union {Blank}], len : 0..MaxLen]
BlankBuffer == [cell |-> [c \in Cells |-> Blank], len |-> 0]

Job == [reg : Slots, len : 0..MaxLen, repeats : 0..Repeats,
        payload : Payloads \union {Blank},
        slot : Slots, side : {0, 1}, done : 0..MaxLen]
Call(n, len, repeats, payload) ==
  [reg |-> n, len |-> len, repeats |-> repeats, payload |-> payload,
   slot |-> 0, side |-> 0, done |-> 0]
NoJob == Call(0, 0, 0, Blank)

Locations == {"idle", "wait", "capture", "write", "commit", "repeat", "max"}

-----------------------------------------------------------------------------
(* The loaders.                                                            *)

RegisterList ==
  /\ timersOn = FALSE
  /\ packet = [s \in Slots |-> [i \in {0, 1} |-> BlankBuffer]]
  /\ active = [s \in Slots |-> 0]
  /\ regMap = [n \in Slots |-> IF n = 0 THEN 0 ELSE NULL]
  /\ currentReg = 0
  /\ maxLoadedReg = 0
  /\ nextReg = NULL
  /\ currentBit = 0
  /\ nRepeat = 0

Init ==
  /\ RegisterList
  /\ pc = [t \in Tasks |-> "idle"]
  /\ job = [t \in Tasks |-> NoJob]
  /\ wire = {}
  /\ resent = 0

\* A task calls loadPacket(n, b, len, repeats).
LoadPacket(t, n, len, repeats, payload) ==
  /\ pc[t] = "idle"
  /\ pc' = [pc EXCEPT ![t] = "wait"]
  /\ job' = [job EXCEPT ![t] = Call(n % (MaxRegs + 1), len, repeats, payload)]
  /\ UNCHANGED <<timersOn, regMap, packet, maxLoadedReg, nextReg, nRepeat, isrVars>>

\* setup(): the idle packet goes to register 1, then the timers are enabled.
SetupIdlePacket ==
  /\ ~timersOn /\ regMap[1] = NULL
  /\ \E len \in ThrottleLens, p \in Payloads : LoadPacket(LoopTask, 1, len, 0, p)

\* Mutant of EnableTimers: setup() does not wait for the idle packet.
EnableTimersEarly ==
  /\ ~timersOn
  /\ timersOn' = TRUE
  /\ UNCHANGED <<nextReg, nRepeat, isrVars, loaderVars>>

EnableTimers ==
  /\ ~timersOn /\ pc[LoopTask] = "idle" /\ regMap[1] # NULL
  /\ timersOn' = TRUE
  /\ UNCHANGED <<nextReg, nRepeat, isrVars, loaderVars>>

SetThrottle(t) ==
  /\ timersOn
  /\ \E len \in ThrottleLens, p \in Payloads : LoadPacket(t, 1, len, 0, p)

SetFunction(t) ==
  /\ timersOn
  /\ \E len \in FunctionLens, p \in Payloads : LoadPacket(t, 0, len, Repeats, p)

WriteCVByteMain(t) ==
  /\ timersOn
  /\ \E len \in CvLens, p \in Payloads : LoadPacket(t, 0, len, Repeats, p)

Goto(t, from, to) ==
  /\ pc[t] = from
  /\ pc' = [pc EXCEPT ![t] = to]

\* Mutant of Wait: the caller does not wait for the last update.
WaitNot(t) ==
  /\ Goto(t, "wait", "capture")
  /\ UNCHANGED <<timersOn, regMap, packet, job, maxLoadedReg, nextReg, nRepeat, isrVars>>

\* while (nextReg != NULL);
Wait(t) ==
  /\ nextReg = NULL
  /\ Goto(t, "wait", "capture")
  /\ UNCHANGED <<timersOn, regMap, packet, job, maxLoadedReg, nextReg, nRepeat, isrVars>>

\* First use of a register number takes the next slot; r and p are captured.
Capture(t) ==
  LET n == job[t].reg
      r == IF regMap[n] = NULL THEN maxLoadedReg + 1 ELSE regMap[n]
  IN  /\ Goto(t, "capture", "write")
      /\ regMap' = [regMap EXCEPT ![n] = r]
      /\ job' = [job EXCEPT ![t].slot = r, ![t].side = 1 - active[r]]
      /\ UNCHANGED <<timersOn, packet, maxLoadedReg, nextReg, nRepeat, isrVars>>

\* The bytes go into p->buf one after the other.
WriteCell(t) ==
  LET j == job[t]
  IN  /\ pc[t] = "write" /\ j.done < j.len
      /\ packet' = [packet EXCEPT ![j.slot][j.side].cell[j.done] = j.payload]
      /\ job' = [job EXCEPT ![t].done = @ + 1]
      /\ UNCHANGED <<timersOn, pc, regMap, maxLoadedReg, nextReg, nRepeat, isrVars>>

\* The length is stored once the bytes are in place.
WriteLen(t) ==
  LET j == job[t]
  IN  /\ j.done = j.len
      /\ Goto(t, "write", "commit")
      /\ packet' = [packet EXCEPT ![j.slot][j.side].len = j.len]
      /\ UNCHANGED <<timersOn, job, regMap, maxLoadedReg, nextReg, nRepeat, isrVars>>

\* nextReg = r;
Commit(t) ==
  /\ Goto(t, "commit", "repeat")
  /\ nextReg' = job[t].slot
  /\ UNCHANGED <<timersOn, packet, job, regMap, maxLoadedReg, nRepeat, isrVars>>

\* this->nRepeat = nRepeat;
SetRepeat(t) ==
  /\ Goto(t, "repeat", "max")
  /\ nRepeat' = job[t].repeats
  /\ UNCHANGED <<timersOn, packet, job, regMap, maxLoadedReg, nextReg, isrVars>>

\* maxLoadedReg = max(maxLoadedReg, nextReg): nextReg may be NULL again by now.
\* The call returns and its locals are gone.
SetMaxLoaded(t) ==
  /\ Goto(t, "max", "idle")
  /\ job' = [job EXCEPT ![t] = NoJob]
  /\ maxLoadedReg' = IF nextReg > maxLoadedReg THEN nextReg ELSE maxLoadedReg
  /\ UNCHANGED <<timersOn, packet, regMap, nextReg, nRepeat, isrVars>>

LoaderStep(t) ==
  \/ Wait(t) \/ Capture(t) \/ WriteCell(t) \/ WriteLen(t)
  \/ Commit(t) \/ SetRepeat(t) \/ SetMaxLoaded(t)

-----------------------------------------------------------------------------
(* The interrupt, onTimer1.                                                *)

ActiveBuffer == packet[currentReg][active[currentReg]]
AtEnd == currentBit = ActiveBuffer.len
Repeating == nRepeat > 0 /\ currentReg = 0

\* The cell the interrupt puts on the track.  A read outside the buffers
\* yields whatever memory holds, shown as Blank.
CellAt(s, side, c) ==
  IF s \in Slots /\ c \in Cells THEN packet[s][side].cell[c] ELSE Blank

\* The current packet continues with its next cell.
NextBit ==
  /\ ~AtEnd
  /\ wire' = wire \union {CellAt(currentReg, active[currentReg], currentBit)}
  /\ currentBit' = (currentBit + 1) % BitWrap
  /\ UNCHANGED <<currentReg, active, nextReg, nRepeat, resent>>

\* Mutant of RepeatPacket: the repeats are not counted down.
RepeatForever ==
  /\ AtEnd /\ Repeating
  /\ currentBit' = 1
  /\ wire' = {CellAt(currentReg, active[currentReg], 0)}
  /\ resent' = resent + 1
  /\ UNCHANGED <<currentReg, active, nextReg, nRepeat>>

\* The packet of register 0 is sent again.
RepeatPacket ==
  /\ AtEnd /\ Repeating
  /\ nRepeat' = nRepeat - 1
  /\ currentBit' = 1
  /\ wire' = {CellAt(currentReg, active[currentReg], 0)}
  /\ resent' = resent + 1
  /\ UNCHANGED <<currentReg, active, nextReg>>

\* Mutants of SwitchToUpdated: the buffers keep their places; the bit cursor
\* is not set back; the update is not taken off the hands of the loader.
SwitchWithoutFlip ==
  /\ AtEnd /\ ~Repeating /\ nextReg # NULL
  /\ currentReg' = nextReg
  /\ nextReg' = NULL
  /\ currentBit' = 1
  /\ wire' = {CellAt(nextReg, active[nextReg], 0)}
  /\ resent' = 0
  /\ UNCHANGED <<active, nRepeat>>
SwitchKeepsCursor ==
  /\ AtEnd /\ ~Repeating /\ nextReg # NULL
  /\ currentReg' = nextReg
  /\ nextReg' = NULL
  /\ active' = [active EXCEPT ![nextReg] = 1 - @]
  /\ wire' = {CellAt(nextReg, 1 - active[nextReg], 0)}
  /\ resent' = 0
  /\ UNCHANGED <<currentBit, nRepeat>>
SwitchKeepsUpdate ==
  /\ AtEnd /\ ~Repeating /\ nextReg # NULL
  /\ currentReg' = nextReg
  /\ active' = [active EXCEPT ![nextReg] = 1 - @]
  /\ currentBit' = 1
  /\ wire' = {CellAt(nextReg, 1 - active[nextReg], 0)}
  /\ resent' = 0
  /\ UNCHANGED <<nextReg, nRepeat>>

\* The updated register becomes current and its buffers change places.
SwitchToUpdated ==
  /\ AtEnd /\ ~Repeating /\ nextReg # NULL
  /\ currentReg' = nextReg
  /\ nextReg' = NULL
  /\ active' = [active EXCEPT ![nextReg] = 1 - @]
  /\ currentBit' = 1
  /\ wire' = {CellAt(nextReg, 1 - active[nextReg], 0)}
  /\ resent' = 0
  /\ UNCHANGED nRepeat

\* Mutants of CycleRegister: the cursor runs past the last loaded register;
\* the cycle starts over at register 0.
RefreshSlot(s) ==
  /\ AtEnd /\ ~Repeating /\ nextReg = NULL
  /\ currentReg' = s
  /\ wire' = {IF s \in Slots THEN CellAt(s, active[s], 0) ELSE Blank}
  /\ currentBit' = 1
  /\ resent' = 0
  /\ UNCHANGED <<active, nextReg, nRepeat>>
CyclePastEnd == RefreshSlot(currentReg + 1)
CycleThroughZero ==
  RefreshSlot(IF currentReg = maxLoadedReg THEN 0 ELSE currentReg + 1)

\* The next loaded register is refreshed; register 0 is passed over.
CycleRegister ==
  /\ AtEnd /\ ~Repeating /\ nextReg = NULL
  /\ LET s == (IF currentReg = maxLoadedReg THEN 0 ELSE currentReg) + 1
     IN  /\ currentReg' = s
         /\ wire' = {IF s \in Slots THEN CellAt(s, active[s], 0) ELSE Blank}
  /\ currentBit' = 1
  /\ resent' = 0
  /\ UNCHANGED <<active, nextReg, nRepeat>>

OnTimer1 ==
  /\ timersOn
  /\ NextBit \/ RepeatPacket \/ SwitchToUpdated \/ CycleRegister
  /\ UNCHANGED <<timersOn, loaderVars>>

-----------------------------------------------------------------------------
Next ==
  \/ SetupIdlePacket
  \/ EnableTimers
  \/ SetThrottle(LoopTask)
  \/ SetFunction(LoopTask)
  \/ \E t \in WebTasks : WriteCVByteMain(t)
  \/ \E t \in Tasks : LoaderStep(t)
  \/ OnTimer1

\* setup() runs to its end, a task that called loadPacket keeps running, and
\* the hardware timer keeps firing once enabled.
Fairness ==
  /\ WF_vars(SetupIdlePacket) /\ WF_vars(EnableTimers)
  /\ \A t \in Tasks : WF_vars(LoaderStep(t))
  /\ WF_vars(OnTimer1)

Spec == Init /\ [][Next]_vars
FairSpec == Spec /\ Fairness

-----------------------------------------------------------------------------
(* Properties.                                                             *)

\* Every variable keeps its type; in particular the interrupt never steps
\* past the last register and a load never takes a slot that is not there.
TypeOK ==
  /\ timersOn \in BOOLEAN
  /\ packet \in [Slots -> [{0, 1} -> Buffer]]
  /\ active \in [Slots -> {0, 1}]
  /\ regMap \in [Slots -> Slots \union {NULL}]
  /\ currentReg \in Slots
  /\ maxLoadedReg \in Slots
  /\ nextReg \in Slots \union {NULL}
  /\ currentBit \in 0..(BitWrap - 1)
  /\ nRepeat \in 0..Repeats
  /\ pc \in [Tasks -> Locations]
  /\ job \in [Tasks -> Job]
  /\ wire \subseteq Payloads \union {Blank}
  /\ resent \in Nat

\* The double buffer: a task that is storing a packet, or about to hand it
\* over, holds the buffer that the interrupt is not reading.
UpdatesInactiveBuffer ==
  \A t \in Tasks :
    pc[t] \in {"write", "commit"} => job[t].side # active[job[t].slot]

\* What the decoders receive: every packet on the wire comes from one load,
\* and nothing is ever clocked out of a register that was not loaded.
WirePacketWhole ==
  /\ Blank \notin wire
  /\ \A p, q \in wire : p = q

\* The interrupt only clocks out registers that have been loaded: it neither
\* cycles past the last one nor is sent to one by a half-finished load.
CurrentRegLoaded == currentReg <= maxLoadedReg

\* The bit cursor never passes the end of the packet, so the test for
\* equality in the interrupt cannot miss it and run into other memory.
CursorInPacket == currentBit <= ActiveBuffer.len

\* A one-time packet leaves the track: what an earlier load left in nRepeat,
\* its own repeats and those of the load that follows it add up to at most
\* three rounds, however the loads fall between the interrupts.
RepeatsBounded == resent <= 3 * Repeats

\* A packet that was handed over goes to the track.
UpdateReachesTrack == nextReg # NULL /\ timersOn ~> nextReg = NULL

\* A task never spins forever in loadPacket: loop() does not hang.
LoadReturns == \A t \in Tasks : pc[t] = "wait" /\ timersOn ~> pc[t] = "idle"

\* Packets of register 0 are one-time packets: when the interrupt leaves one,
\* it has been sent again the number of times its load asked for.
LeavesOneTimePacket ==
  /\ currentReg = 0 /\ ActiveBuffer.len > 0
  /\ currentReg' # 0 \/ active'[0] # active[0]
RepeatsHonoured == [][LeavesOneTimePacket => resent = Repeats]_vars

\* The register list seen from the track: packets change hands whole, one at
\* a time and none is lost, and only continuous packets are refreshed.
Content(b) ==
  IF b.len > 0 /\ \A c \in 0..(b.len - 1) : b.cell[c] = b.cell[0]
    THEN b.cell[0] ELSE Blank
Track == INSTANCE DccTrack WITH
  Empty <- Blank,
  stored <- [s \in Slots |-> Content(packet[s][active[s]])],
  pending <- IF nextReg = NULL THEN {}
             ELSE {[slot |-> nextReg,
                    payload |-> Content(packet[nextReg][1 - active[nextReg]])]},
  onTrack <- Content(ActiveBuffer)
ImplementsTrack == Track!Spec
=============================================================================
