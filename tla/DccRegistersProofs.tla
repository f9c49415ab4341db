------------------------- MODULE DccRegistersProofs -------------------------
(***************************************************************************)
(* Proofs about DccRegisters with a single loader, the Arduino loop task,  *)
(* for any number of registers, packet lengths, repeats and payloads.      *)
(* With WebTasks = {} no two loadPacket calls overlap; the interrupt may   *)
(* still fall between any two of their steps.                              *)
(***************************************************************************)
EXTENDS DccRegisters, TLAPS

loc == pc[LoopTask]
arg == job[LoopTask]

\* A buffer that holds one whole packet of a load.
Loaded(b) ==
  /\ b.len > 0
  /\ b.cell[0] # Blank
  /\ \A c \in 0..(b.len - 1) : b.cell[c] = b.cell[0]

\* The loaded registers are 0 and 1; register 1 gets its slot in setup().
SlotsInv ==
  /\ regMap[0] = 0 /\ regMap[1] \in {NULL, 1}
  /\ maxLoadedReg \in {0, 1} /\ currentReg \in {0, 1} /\ nextReg \in {NULL, 0, 1}
  /\ arg.reg \in {0, 1}
  /\ timersOn => maxLoadedReg = 1 /\ regMap[1] = 1

\* Before the timers run nothing but the idle packet is loaded.
SetupInv ==
  ~timersOn =>
    /\ currentReg = 0 /\ nRepeat = 0 /\ currentBit = 0 /\ wire = {}
    /\ packet[0][active[0]].len = 0
    /\ arg.repeats = 0
    /\ loc # "idle" => arg.reg = 1
    /\ loc \in {"wait", "capture"} => regMap[1] = NULL /\ maxLoadedReg = 0
    /\ loc \in {"repeat", "max"} => nextReg = 1
    /\ loc \in {"write", "commit", "repeat", "max"} => regMap[1] = 1
    /\ loc = "idle" => \/ regMap[1] = NULL /\ maxLoadedReg = 0 /\ nextReg = NULL
                       \/ regMap[1] = 1 /\ maxLoadedReg = 1 /\ nextReg = 1

\* Where the loader is, and what it has stored so far.
LoaderInv ==
  /\ loc \in {"capture", "write", "commit"} => nextReg = NULL
  /\ loc \in {"wait", "capture", "write"} =>
       arg.len > 0 /\ arg.payload # Blank /\ arg.done <= arg.len
  /\ loc \in {"wait", "capture"} => arg.done = 0
  /\ loc \in {"write", "commit"} =>
       /\ arg.slot = regMap[arg.reg]
       /\ arg.side = 1 - active[arg.slot]
  /\ loc = "write" =>
       \A c \in 0..(arg.done - 1) : packet[arg.slot][arg.side].cell[c] = arg.payload
  /\ loc = "commit" => Loaded(packet[arg.slot][arg.side])

\* The register handed over holds a whole packet in its update buffer, and
\* register 1 is only refreshed once it has one in its active buffer.
UpdateInv ==
  /\ nextReg # NULL => Loaded(packet[nextReg][1 - active[nextReg]])
  /\ timersOn => nextReg = 1 \/ Loaded(packet[1][active[1]])

\* Before its first switch the interrupt stands on the empty register 0.
NothingSentYet ==
  /\ currentReg = 0 /\ currentBit = 0 /\ wire = {} /\ nRepeat = 0
  /\ ActiveBuffer.len = 0
  /\ timersOn => nextReg = 1 /\ loc \in {"idle", "wait"}

TrackInv ==
  \/ NothingSentYet
  \/ /\ Loaded(ActiveBuffer)
     /\ currentBit <= ActiveBuffer.len
     /\ wire \subseteq {ActiveBuffer.cell[0]}

IInv == TypeOK /\ SlotsInv /\ SetupInv /\ LoaderInv /\ UpdateInv /\ TrackInv

-----------------------------------------------------------------------------
USE SizesAssumption, LensAssumption, NamesAssumption

\* With no web task the loop task is the only loader.
LEMMA OneLoader == WebTasks = {} => Tasks = {LoopTask}
  BY DEF Tasks

\* The registers the program uses exist, and NULL is none of them.
LEMMA SlotsOneAndZero == 0 \in Slots /\ 1 \in Slots /\ NULL \notin Slots
  BY DEF Slots, NULL

\* The initial state satisfies the invariant.
THEOREM InitInv == ASSUME WebTasks = {}, Init PROVE IInv
<1> USE OneLoader, SlotsOneAndZero DEF Init, RegisterList
<1>1. /\ loc = "idle" /\ arg = NoJob /\ ~timersOn /\ nextReg = NULL
      /\ packet[0][active[0]] = BlankBuffer
  BY DEF loc, arg
<1>2. BlankBuffer \in Buffer /\ NoJob \in Job
  BY DEF Buffer, BlankBuffer, Cells, Job, NoJob, Call, Slots
<1>3. TypeOK
  <2>1. packet \in [Slots -> [{0, 1} -> Buffer]] /\ job \in [Tasks -> Job]
    BY <1>2
  <2>2. /\ active \in [Slots -> {0, 1}] /\ regMap \in [Slots -> Slots \union {NULL}]
        /\ pc \in [Tasks -> Locations]
    BY DEF Locations
  <2>3. currentBit \in 0..(BitWrap - 1) /\ nRepeat \in 0..Repeats
    OBVIOUS
  <2> QED  BY <2>1, <2>2, <2>3 DEF TypeOK
<1>4. SlotsInv /\ SetupInv /\ LoaderInv /\ UpdateInv
  BY <1>1 DEF SlotsInv, SetupInv, LoaderInv, UpdateInv, NULL, NoJob, Call, BlankBuffer
<1>5. TrackInv
  BY <1>1 DEF TrackInv, NothingSentYet, ActiveBuffer, BlankBuffer
<1> QED  BY <1>3, <1>4, <1>5 DEF IInv

\* What every call of loadPacket changes.
LEMMA LoadPacketEffect ==
  ASSUME WebTasks = {}, TypeOK,
         NEW n \in {0, 1}, NEW len \in 1..MaxLen, NEW k \in 0..Repeats,
         NEW p \in Payloads, LoadPacket(LoopTask, n, len, k, p)
  PROVE  /\ loc = "idle" /\ loc' = "wait"
         /\ arg'.reg = n /\ arg'.len = len /\ arg'.repeats = k
         /\ arg'.payload = p /\ arg'.done = 0
         /\ pc' \in [Tasks -> Locations] /\ job' \in [Tasks -> Job]
         /\ UNCHANGED <<timersOn, regMap, packet, maxLoadedReg, nextReg, nRepeat,
                        isrVars>>
<1>1. n % (MaxRegs + 1) = n
  OBVIOUS
<1> DEFINE new == Call(n, len, k, p)
<1>2. job' = [job EXCEPT ![LoopTask] = new] /\ pc' = [pc EXCEPT !["loop"] = "wait"]
  BY <1>1 DEF LoadPacket, LoopTask
<1>3. /\ new \in Job /\ new.reg = n /\ new.len = len /\ new.repeats = k
      /\ new.payload = p /\ new.done = 0
  BY SlotsOneAndZero DEF Job, Call
<1>4. arg' = new /\ loc' = "wait" /\ loc = "idle"
  BY <1>2, OneLoader DEF TypeOK, LoadPacket, arg, loc, LoopTask
<1>5. pc' \in [Tasks -> Locations] /\ job' \in [Tasks -> Job]
  BY <1>2, <1>3 DEF TypeOK, Locations
<1>6. UNCHANGED <<timersOn, regMap, packet, maxLoadedReg, nextReg, nRepeat, isrVars>>
  BY DEF LoadPacket
<1> QED  BY <1>3, <1>4, <1>5, <1>6

\* A call of loadPacket only moves the task to its wait.
LEMMA LoadPacketInv ==
  ASSUME WebTasks = {}, IInv,
         NEW n \in {0, 1}, NEW len \in 1..MaxLen, NEW k \in 0..Repeats,
         NEW p \in Payloads, LoadPacket(LoopTask, n, len, k, p),
         ~timersOn => n = 1 /\ k = 0 /\ regMap[1] = NULL
  PROVE  IInv'
<1>0. p # Blank /\ len > 0
  OBVIOUS
<1> USE LoadPacketEffect DEF IInv
<1>1. TypeOK'
  BY DEF TypeOK, isrVars
<1>2. SlotsInv'
  BY DEF SlotsInv, isrVars
<1>3. SetupInv'
  BY DEF SetupInv, isrVars, NULL
<1>4. LoaderInv' /\ UpdateInv'
  BY <1>0 DEF LoaderInv, UpdateInv, isrVars
<1>5. TrackInv'
  BY DEF TrackInv, NothingSentYet, ActiveBuffer, isrVars
<1> QED  BY <1>1, <1>2, <1>3, <1>4, <1>5

\* The three calls the loop task makes: idle, throttle and function packet.
LEMMA LoadsInv ==
  ASSUME WebTasks = {}, IInv,
         SetupIdlePacket \/ SetThrottle(LoopTask) \/ SetFunction(LoopTask)
  PROVE  IInv'
<1>1. CASE SetupIdlePacket
  BY <1>1, LoadPacketInv DEF SetupIdlePacket
<1>2. CASE SetThrottle(LoopTask)
  BY <1>2, LoadPacketInv DEF SetThrottle
<1>3. CASE SetFunction(LoopTask)
  BY <1>3, LoadPacketInv DEF SetFunction
<1> QED  BY <1>1, <1>2, <1>3

\* The timers start once register 1 waits with the idle packet.
LEMMA EnableTimersInv == ASSUME WebTasks = {}, IInv, EnableTimers PROVE IInv'
<1> USE DEF EnableTimers, isrVars, loaderVars, IInv, arg, loc
<1>1. maxLoadedReg = 1 /\ nextReg = 1 /\ regMap[1] = 1
  BY DEF SetupInv
<1>2. TypeOK' /\ SlotsInv' /\ SetupInv' /\ LoaderInv' /\ UpdateInv'
  BY <1>1 DEF TypeOK, SlotsInv, SetupInv, LoaderInv, UpdateInv
<1>3. TrackInv'
  BY <1>1 DEF TrackInv, NothingSentYet, ActiveBuffer
<1> QED  BY <1>2, <1>3

\* With one loader, a step of its program counter is a step of loc.
LEMMA GotoEffect ==
  ASSUME WebTasks = {}, TypeOK, NEW from, NEW to \in Locations, Goto(LoopTask, from, to)
  PROVE  loc = from /\ loc' = to /\ pc' \in [Tasks -> Locations]
  BY OneLoader DEF TypeOK, Goto, loc

\* Leaving the wait establishes that no update is pending.
LEMMA WaitInv == ASSUME WebTasks = {}, IInv, Wait(LoopTask) PROVE IInv'
<1> USE DEF IInv
<1>1. /\ loc = "wait" /\ loc' = "capture" /\ pc' \in [Tasks -> Locations]
      /\ nextReg = NULL /\ arg' = arg
      /\ UNCHANGED <<timersOn, regMap, packet, job, maxLoadedReg, nextReg, nRepeat,
                     isrVars>>
  BY GotoEffect DEF Wait, Locations, arg
<1>2. TypeOK' /\ SlotsInv' /\ SetupInv' /\ LoaderInv' /\ UpdateInv'
  BY <1>1 DEF TypeOK, SlotsInv, SetupInv, LoaderInv, UpdateInv, isrVars, NULL
<1>3. NothingSentYet => ~timersOn
  BY <1>1 DEF NothingSentYet, NULL
<1>4. TrackInv'
  BY <1>1, <1>3 DEF TrackInv, NothingSentYet, ActiveBuffer, isrVars
<1> QED  BY <1>2, <1>4

\* The captured buffer is the one that the interrupt does not read.
LEMMA CaptureInv == ASSUME WebTasks = {}, IInv, Capture(LoopTask) PROVE IInv'
<1> DEFINE r == IF regMap[arg.reg] = NULL THEN maxLoadedReg + 1 ELSE regMap[arg.reg]
<1> USE DEF IInv
<1>1. /\ loc = "capture" /\ loc' = "write" /\ pc' \in [Tasks -> Locations]
      /\ UNCHANGED <<timersOn, packet, maxLoadedReg, nextReg, nRepeat, isrVars>>
  BY GotoEffect DEF Capture, Locations
<1>2. r \in {0, 1} /\ (arg.reg = 1 => r = 1) /\ (arg.reg = 0 => r = 0)
  <2>1. CASE timersOn
    BY <2>1 DEF SlotsInv, NULL
  <2>2. CASE ~timersOn
    BY <1>1, <2>2 DEF SlotsInv, SetupInv, NULL
  <2> QED  BY <2>1, <2>2
<1>3. r \in Slots /\ arg.reg \in Slots /\ active[r] \in {0, 1} /\ arg \in Job
  BY <1>2, SlotsOneAndZero, OneLoader DEF SlotsInv, TypeOK, arg
<1>4. /\ job' = [job EXCEPT ![LoopTask].slot = r, ![LoopTask].side = 1 - active[r]]
      /\ regMap' = [regMap EXCEPT ![arg.reg] = r]
  BY DEF Capture, arg
<1>5. /\ arg' = [arg EXCEPT !.slot = r, !.side = 1 - active[r]]
      /\ job' \in [Tasks -> Job] /\ regMap' \in [Slots -> Slots \union {NULL}]
  <2> DEFINE new == [arg EXCEPT !.slot = r, !.side = 1 - active[r]]
  <2>1. 1 - active[r] \in {0, 1}
    BY <1>3
  <2>2. new \in Job
    BY <1>3, <2>1 DEF Job
  <2>3. job' = [job EXCEPT ![LoopTask] = new]
    BY <1>4, OneLoader DEF TypeOK, arg
  <2>4. job' \in [Tasks -> Job] /\ arg' = new
    BY <2>2, <2>3, OneLoader DEF TypeOK, arg
  <2>5. regMap' \in [Slots -> Slots \union {NULL}]
    BY <1>3, <1>4 DEF TypeOK
  <2> QED  BY <2>4, <2>5
<1>6. /\ arg'.slot = r /\ arg'.side = 1 - active[r] /\ arg'.reg = arg.reg
      /\ arg'.len = arg.len /\ arg'.done = arg.done /\ arg'.payload = arg.payload
      /\ arg'.repeats = arg.repeats
  BY <1>3, <1>5 DEF Job
<1>7. regMap'[arg.reg] = r /\ regMap'[0] = 0 /\ regMap'[1] = (IF arg.reg = 1 THEN 1 ELSE regMap[1])
  BY <1>2, <1>3, <1>4, SlotsOneAndZero DEF TypeOK, SlotsInv
<1>8. TypeOK'
  BY <1>1, <1>5 DEF TypeOK, isrVars
<1>9. SlotsInv' /\ SetupInv'
  BY <1>1, <1>2, <1>6, <1>7 DEF SlotsInv, SetupInv, isrVars, NULL
<1>10. LoaderInv' /\ UpdateInv'
  <2>1. nextReg' = NULL /\ UNCHANGED <<active, packet, timersOn, nextReg>>
    BY <1>1 DEF LoaderInv, isrVars
  <2>2. arg'.len > 0 /\ arg'.payload # Blank /\ arg'.done <= arg'.len /\ arg'.done = 0
    BY <1>1, <1>6 DEF LoaderInv
  <2>3. arg'.slot = regMap'[arg'.reg] /\ arg'.side = 1 - active'[arg'.slot]
    BY <1>6, <1>7, <2>1
  <2>4. 0..(arg'.done - 1) = {}
    BY <2>2
  <2>5. LoaderInv'
    BY <1>1, <2>1, <2>2, <2>3, <2>4 DEF LoaderInv
  <2>6. UpdateInv'
    BY <2>1 DEF UpdateInv
  <2> QED  BY <2>5, <2>6
<1>11. NothingSentYet => ~timersOn
  BY <1>1 DEF NothingSentYet, NULL
<1>12. TrackInv'
  BY <1>1, <1>11 DEF TrackInv, NothingSentYet, ActiveBuffer, isrVars
<1> QED  BY <1>8, <1>9, <1>10, <1>12

\* A store into the captured buffer leaves every active buffer alone.
LEMMA InactiveStore ==
  ASSUME WebTasks = {}, IInv, loc = "write", NEW b \in Buffer,
         packet' = [packet EXCEPT ![arg.slot][arg.side] = b]
  PROVE  /\ packet' \in [Slots -> [{0, 1} -> Buffer]]
         /\ packet'[arg.slot][arg.side] = b
         /\ \A s \in Slots : packet'[s][active[s]] = packet[s][active[s]]
         /\ arg.slot \in {0, 1} /\ arg.side \in {0, 1}
         /\ arg.side = 1 - active[arg.slot] /\ arg \in Job
<1>1. /\ arg.slot \in {0, 1} /\ arg.slot \in Slots /\ arg.side = 1 - active[arg.slot]
      /\ arg \in Job
  <2>1. arg \in Job
    BY OneLoader DEF IInv, TypeOK, arg
  <2>2. arg.slot = regMap[arg.reg] /\ arg.side = 1 - active[arg.slot] /\ arg.slot \in Slots
    BY <2>1 DEF IInv, LoaderInv, Job
  <2>3. regMap[arg.reg] \in {NULL, 0, 1}
    BY DEF IInv, SlotsInv
  <2> QED  BY <2>1, <2>2, <2>3, SlotsOneAndZero
<1>2. active[arg.slot] \in {0, 1} /\ packet \in [Slots -> [{0, 1} -> Buffer]]
  BY <1>1 DEF IInv, TypeOK
<1>3. arg.side \in {0, 1} /\ arg.side # active[arg.slot]
  BY <1>1, <1>2
<1>4. packet' \in [Slots -> [{0, 1} -> Buffer]] /\ packet'[arg.slot][arg.side] = b
  BY <1>1, <1>2, <1>3
<1>5. ASSUME NEW s \in Slots PROVE packet'[s][active[s]] = packet[s][active[s]]
  BY <1>1, <1>2, <1>3 DEF IInv, TypeOK
<1> QED  BY <1>1, <1>3, <1>4, <1>5

\* A store goes to the captured buffer, never to the one on the track.
LEMMA WriteCellInv == ASSUME WebTasks = {}, IInv, WriteCell(LoopTask) PROVE IInv'
<1> DEFINE old == packet[arg.slot][arg.side]
           new == [old EXCEPT !.cell[arg.done] = arg.payload]
<1> USE DEF IInv
<1>1. /\ loc = "write" /\ arg.done < arg.len /\ loc' = loc
      /\ UNCHANGED <<timersOn, pc, regMap, maxLoadedReg, nextReg, nRepeat, isrVars>>
  BY DEF WriteCell, loc, arg
<1>2. arg \in Job /\ arg.done \in Cells /\ arg.len \in 1..MaxLen
  BY <1>1, OneLoader DEF TypeOK, arg, Job, Cells
<1>3. old \in Buffer /\ new \in Buffer /\ new.cell = [old.cell EXCEPT ![arg.done] = arg.payload]
  <2>1. arg.slot \in Slots /\ arg.side \in {0, 1} /\ arg.payload \in Payloads \union {Blank}
    BY <1>2 DEF Job
  <2>2. old \in Buffer
    BY <2>1 DEF TypeOK
  <2> QED  BY <1>2, <2>1, <2>2 DEF Buffer
<1>4. packet' = [packet EXCEPT ![arg.slot][arg.side] = new]
  BY DEF WriteCell, arg
<1>5. /\ packet' \in [Slots -> [{0, 1} -> Buffer]]
      /\ packet'[arg.slot][arg.side] = new
      /\ \A s \in Slots : packet'[s][active[s]] = packet[s][active[s]]
      /\ arg.slot \in {0, 1} /\ arg.side \in {0, 1} /\ arg.side = 1 - active[arg.slot]
  BY <1>1, <1>3, <1>4, InactiveStore
<1>6. job' = [job EXCEPT ![LoopTask].done = arg.done + 1]
  BY DEF WriteCell, arg
<1>7. /\ arg' = [arg EXCEPT !.done = arg.done + 1] /\ job' \in [Tasks -> Job]
  <2>1. [arg EXCEPT !.done = arg.done + 1] \in Job
    BY <1>1, <1>2 DEF Job
  <2> QED  BY <1>6, <2>1, OneLoader DEF TypeOK, arg
<1>8. /\ arg'.slot = arg.slot /\ arg'.side = arg.side /\ arg'.reg = arg.reg
      /\ arg'.len = arg.len /\ arg'.done = arg.done + 1
      /\ arg'.payload = arg.payload /\ arg'.repeats = arg.repeats
  BY <1>2, <1>7 DEF Job
<1>9. nextReg = NULL /\ (NothingSentYet => ~timersOn)
  BY <1>1 DEF LoaderInv, NothingSentYet, NULL
<1>10. TypeOK'
  BY <1>1, <1>5, <1>7 DEF TypeOK, isrVars
<1>11. SlotsInv' /\ SetupInv'
  BY <1>1, <1>5, <1>8, SlotsOneAndZero DEF SlotsInv, SetupInv, isrVars
<1>12. LoaderInv'
  <2>1. ASSUME NEW c \in 0..arg.done PROVE new.cell[c] = arg.payload
    <3>1. old.cell \in [Cells -> Payloads \union {Blank}]
      BY <1>3 DEF Buffer
    <3>2. CASE c = arg.done
      BY <1>2, <1>3, <3>1, <3>2
    <3>3. CASE c # arg.done
      <4>1. c \in 0..(arg.done - 1) /\ c \in Cells
        BY <1>2, <3>3 DEF Cells
      <4>2. old.cell[c] = arg.payload
        BY <1>1, <4>1 DEF LoaderInv
      <4> QED  BY <1>2, <1>3, <3>1, <3>3, <4>1, <4>2
    <3> QED  BY <3>2, <3>3
  <2>2. arg'.done - 1 = arg.done /\ arg'.done <= arg'.len
    BY <1>1, <1>2, <1>8 DEF Cells
  <2>3. \A c \in 0..(arg'.done - 1) : packet'[arg'.slot][arg'.side].cell[c] = arg'.payload
    <3>1. packet'[arg'.slot][arg'.side] = new /\ arg'.payload = arg.payload
      BY <1>5, <1>8
    <3> HIDE DEF new
    <3> QED  BY <3>1, <2>1, <2>2
  <2>4. arg'.len > 0 /\ arg'.payload # Blank /\ arg'.slot = regMap'[arg'.reg]
    BY <1>1, <1>8 DEF LoaderInv
  <2>5. arg'.side = 1 - active'[arg'.slot] /\ nextReg' = NULL /\ loc' = "write"
    BY <1>1, <1>5, <1>8, <1>9 DEF isrVars
  <2> QED  BY <2>2, <2>3, <2>4, <2>5 DEF LoaderInv
<1>13. UpdateInv' /\ ActiveBuffer' = ActiveBuffer
  BY <1>1, <1>5, <1>9, SlotsOneAndZero DEF UpdateInv, ActiveBuffer, TypeOK, isrVars
<1>14. TrackInv'
  BY <1>1, <1>9, <1>13 DEF TrackInv, NothingSentYet, isrVars
<1> QED  BY <1>10, <1>11, <1>12, <1>13, <1>14

\* With its length stored, the captured buffer holds a whole packet.
LEMMA WriteLenInv == ASSUME WebTasks = {}, IInv, WriteLen(LoopTask) PROVE IInv'
<1> DEFINE old == packet[arg.slot][arg.side]
           new == [old EXCEPT !.len = arg.len]
<1> USE DEF IInv
<1>1. /\ loc = "write" /\ arg.done = arg.len /\ loc' = "commit" /\ arg' = arg
      /\ pc' \in [Tasks -> Locations]
      /\ UNCHANGED <<timersOn, job, regMap, maxLoadedReg, nextReg, nRepeat, isrVars>>
  BY GotoEffect DEF WriteLen, Locations, arg
<1>2. arg \in Job /\ arg.len \in 1..MaxLen
  BY <1>1, OneLoader DEF TypeOK, arg, Job, LoaderInv
<1>3. old \in Buffer /\ new \in Buffer /\ new.cell = old.cell /\ new.len = arg.len
  <2>1. old \in Buffer
    BY <1>2 DEF TypeOK, Job
  <2> QED  BY <1>2, <2>1 DEF Buffer
<1>4. packet' = [packet EXCEPT ![arg.slot][arg.side] = new]
  BY DEF WriteLen, arg
<1>5. /\ packet' \in [Slots -> [{0, 1} -> Buffer]]
      /\ packet'[arg.slot][arg.side] = new
      /\ \A s \in Slots : packet'[s][active[s]] = packet[s][active[s]]
      /\ arg.slot \in {0, 1} /\ arg.side \in {0, 1} /\ arg.side = 1 - active[arg.slot]
  BY <1>1, <1>3, <1>4, InactiveStore
<1>6. Loaded(new)
  BY <1>1, <1>2, <1>3 DEF Loaded, LoaderInv
<1>7. nextReg = NULL /\ (NothingSentYet => ~timersOn)
  BY <1>1 DEF LoaderInv, NothingSentYet, NULL
<1>8. TypeOK'
  BY <1>1, <1>5 DEF TypeOK, isrVars
<1>9. SlotsInv' /\ SetupInv'
  BY <1>1, <1>5, SlotsOneAndZero DEF SlotsInv, SetupInv, isrVars
<1>10. LoaderInv'
  BY <1>1, <1>5, <1>6 DEF LoaderInv, isrVars
<1>11. UpdateInv' /\ ActiveBuffer' = ActiveBuffer
  BY <1>1, <1>5, <1>7, SlotsOneAndZero DEF UpdateInv, ActiveBuffer, TypeOK, isrVars
<1>12. TrackInv'
  BY <1>1, <1>7, <1>11 DEF TrackInv, NothingSentYet, isrVars
<1> QED  BY <1>8, <1>9, <1>10, <1>11, <1>12

\* The handed-over register has its whole packet in the update buffer.
LEMMA CommitInv == ASSUME WebTasks = {}, IInv, Commit(LoopTask) PROVE IInv'
<1> USE DEF IInv
<1>1. /\ loc = "commit" /\ loc' = "repeat" /\ arg' = arg /\ nextReg' = arg.slot
      /\ pc' \in [Tasks -> Locations]
      /\ UNCHANGED <<timersOn, packet, job, regMap, maxLoadedReg, nRepeat, isrVars>>
  BY GotoEffect DEF Commit, Locations, arg
<1>2. /\ arg.slot \in {0, 1} /\ arg.side = 1 - active[arg.slot] /\ arg.slot = regMap[arg.reg]
      /\ Loaded(packet[arg.slot][arg.side])
  <2>1. arg.slot = regMap[arg.reg] /\ arg.slot \in Slots
    BY <1>1, OneLoader DEF LoaderInv, TypeOK, arg, Job
  <2>2. regMap[arg.reg] \in {NULL, 0, 1}
    BY DEF SlotsInv
  <2> QED  BY <1>1, <2>1, <2>2, SlotsOneAndZero DEF LoaderInv
<1>3. nextReg = NULL /\ (NothingSentYet => ~timersOn)
  BY <1>1 DEF LoaderInv, NothingSentYet, NULL
<1>4. TypeOK' /\ SlotsInv'
  BY <1>1, <1>2, SlotsOneAndZero DEF TypeOK, SlotsInv, isrVars
<1>5. SetupInv'
  BY <1>1, <1>2 DEF SetupInv, isrVars
<1>6. LoaderInv'
  BY <1>1 DEF LoaderInv
<1>7. UpdateInv'
  BY <1>1, <1>2, <1>3 DEF UpdateInv, isrVars, NULL
<1>8. TrackInv'
  BY <1>1, <1>3 DEF TrackInv, NothingSentYet, ActiveBuffer, isrVars
<1> QED  BY <1>4, <1>5, <1>6, <1>7, <1>8

\* Storing the repeat count disturbs nothing else.
LEMMA SetRepeatInv == ASSUME WebTasks = {}, IInv, SetRepeat(LoopTask) PROVE IInv'
<1> USE DEF IInv
<1>1. /\ loc = "repeat" /\ loc' = "max" /\ arg' = arg /\ nRepeat' = arg.repeats
      /\ pc' \in [Tasks -> Locations] /\ arg.repeats \in 0..Repeats
      /\ UNCHANGED <<timersOn, packet, job, regMap, maxLoadedReg, nextReg, isrVars>>
  BY GotoEffect, OneLoader DEF SetRepeat, Locations, arg, TypeOK, Job
<1>2. TypeOK' /\ SlotsInv' /\ SetupInv' /\ LoaderInv' /\ UpdateInv'
  BY <1>1 DEF TypeOK, SlotsInv, SetupInv, LoaderInv, UpdateInv, isrVars
<1>3. TrackInv'
  BY <1>1 DEF TrackInv, NothingSentYet, SetupInv, ActiveBuffer, isrVars
<1> QED  BY <1>2, <1>3

\* maxLoadedReg never exceeds a register that was loaded.
LEMMA SetMaxLoadedInv == ASSUME WebTasks = {}, IInv, SetMaxLoaded(LoopTask) PROVE IInv'
<1> USE DEF IInv
<1>1. /\ loc = "max" /\ loc' = "idle" /\ pc' \in [Tasks -> Locations]
      /\ maxLoadedReg' = IF nextReg > maxLoadedReg THEN nextReg ELSE maxLoadedReg
      /\ UNCHANGED <<timersOn, packet, regMap, nextReg, nRepeat, isrVars>>
  BY GotoEffect DEF SetMaxLoaded, Locations
<1>2. arg' = NoJob /\ job' \in [Tasks -> Job]
  <2>1. NoJob \in Job
    BY DEF Job, NoJob, Call, Slots
  <2> QED  BY <2>1, OneLoader DEF SetMaxLoaded, TypeOK, arg
<1>3. NoJob.reg = 0 /\ NoJob.repeats = 0
  BY DEF NoJob, Call
<1>4. maxLoadedReg' \in {0, 1} /\ (maxLoadedReg = 1 => maxLoadedReg' = 1)
  BY <1>1 DEF SlotsInv, NULL
<1>5. TypeOK'
  BY <1>1, <1>2, <1>4, SlotsOneAndZero DEF TypeOK, isrVars
<1>6. SlotsInv'
  BY <1>1, <1>2, <1>3, <1>4 DEF SlotsInv, isrVars
<1>7. SetupInv'
  BY <1>1, <1>2, <1>3 DEF SetupInv, SlotsInv, isrVars
<1>8. LoaderInv' /\ UpdateInv'
  BY <1>1 DEF LoaderInv, UpdateInv, isrVars
<1>9. TrackInv'
  BY <1>1 DEF TrackInv, NothingSentYet, ActiveBuffer, isrVars
<1> QED  BY <1>5, <1>6, <1>7, <1>8, <1>9

\* The interrupt leaves the loader and its locals alone.
LEMMA InterruptFrame ==
  ASSUME TypeOK, timersOn, UNCHANGED <<timersOn, loaderVars>>
  PROVE  /\ loc' = loc /\ arg' = arg /\ timersOn'
         /\ UNCHANGED <<regMap, packet, pc, job, maxLoadedReg>>
         /\ ActiveBuffer \in Buffer
  BY DEF loaderVars, loc, arg, TypeOK, ActiveBuffer

\* The next cell of the active buffer is a cell of the same packet.
LEMMA NextBitInv ==
  ASSUME WebTasks = {}, IInv, timersOn, NextBit, UNCHANGED <<timersOn, loaderVars>>
  PROVE  IInv'
<1> USE InterruptFrame DEF IInv
<1>1. /\ currentBit # ActiveBuffer.len /\ UNCHANGED <<currentReg, active, nextReg, nRepeat, resent>>
      /\ currentBit' = (currentBit + 1) % BitWrap
      /\ wire' = wire \union {CellAt(currentReg, active[currentReg], currentBit)}
  BY DEF NextBit, AtEnd
<1>2. ~NothingSentYet
  BY <1>1 DEF NothingSentYet
<1>3. /\ currentBit \in Nat /\ currentBit < ActiveBuffer.len
      /\ ActiveBuffer.len \in 0..MaxLen /\ Loaded(ActiveBuffer)
      /\ wire \subseteq {ActiveBuffer.cell[0]}
  <2>1. currentBit \in Nat
    BY DEF TypeOK
  <2>2. ActiveBuffer.len \in 0..MaxLen
    BY DEF Buffer
  <2>3. /\ Loaded(ActiveBuffer) /\ currentBit <= ActiveBuffer.len
        /\ wire \subseteq {ActiveBuffer.cell[0]}
    BY <1>2 DEF TrackInv
  <2> QED  BY <1>1, <2>1, <2>2, <2>3
<1>4. currentBit' = currentBit + 1 /\ currentBit' \in 0..(BitWrap - 1)
  <2>1. currentBit + 1 \in Nat /\ currentBit + 1 < BitWrap
    BY <1>3
  <2> QED  BY <1>1, <2>1
<1>5. CellAt(currentReg, active[currentReg], currentBit) = ActiveBuffer.cell[0]
  <2>1. currentReg \in Slots /\ currentBit \in Cells
    BY <1>3 DEF TypeOK, Cells
  <2>2. currentBit \in 0..(ActiveBuffer.len - 1)
    BY <1>3
  <2>3. ActiveBuffer.cell[currentBit] = ActiveBuffer.cell[0]
    BY <1>3, <2>2 DEF Loaded
  <2> QED  BY <2>1, <2>3 DEF CellAt, ActiveBuffer
<1>6. ActiveBuffer.cell[0] \in Payloads \union {Blank}
  BY DEF Buffer, Cells
<1>7. ActiveBuffer' = ActiveBuffer
  BY <1>1 DEF ActiveBuffer
<1>8. TypeOK'
  BY <1>1, <1>4, <1>5, <1>6 DEF TypeOK
<1>9. SlotsInv' /\ SetupInv' /\ LoaderInv' /\ UpdateInv'
  BY <1>1 DEF SlotsInv, SetupInv, LoaderInv, UpdateInv
<1>10. TrackInv'
  <2>1. currentBit' <= ActiveBuffer'.len /\ Loaded(ActiveBuffer')
    BY <1>3, <1>4, <1>7
  <2>2. wire' \subseteq {ActiveBuffer'.cell[0]}
    BY <1>1, <1>3, <1>5, <1>7
  <2> QED  BY <2>1, <2>2 DEF TrackInv
<1> QED  BY <1>8, <1>9, <1>10

\* Sending the packet of register 0 again.
LEMMA RepeatPacketInv ==
  ASSUME WebTasks = {}, IInv, timersOn, RepeatPacket, UNCHANGED <<timersOn, loaderVars>>
  PROVE  IInv'
<1> USE InterruptFrame DEF IInv
<1>1. /\ nRepeat > 0 /\ nRepeat' = nRepeat - 1 /\ currentBit' = 1
      /\ wire' = {CellAt(currentReg, active[currentReg], 0)} /\ resent' = resent + 1
      /\ UNCHANGED <<currentReg, active, nextReg>>
  BY DEF RepeatPacket, Repeating
<1>2. Loaded(ActiveBuffer) /\ ActiveBuffer.len \in 1..MaxLen
  BY <1>1 DEF NothingSentYet, TrackInv, Loaded, Buffer
<1>3. /\ CellAt(currentReg, active[currentReg], 0) = ActiveBuffer.cell[0]
      /\ ActiveBuffer.cell[0] \in Payloads \union {Blank}
  BY DEF CellAt, ActiveBuffer, Cells, TypeOK, Buffer
<1>4. ActiveBuffer' = ActiveBuffer
  BY <1>1 DEF ActiveBuffer
<1>5. TypeOK'
  BY <1>1, <1>3 DEF TypeOK
<1>6. SlotsInv' /\ SetupInv' /\ LoaderInv' /\ UpdateInv'
  BY <1>1 DEF SlotsInv, SetupInv, LoaderInv, UpdateInv
<1>7. TrackInv'
  BY <1>1, <1>2, <1>3, <1>4 DEF TrackInv
<1> QED  BY <1>5, <1>6, <1>7

\* The switch to the updated register, whose update buffer is whole.
LEMMA SwitchInv ==
  ASSUME WebTasks = {}, IInv, timersOn, SwitchToUpdated, UNCHANGED <<timersOn, loaderVars>>
  PROVE  IInv'
<1> USE InterruptFrame DEF IInv
<1> DEFINE b == packet[nextReg][1 - active[nextReg]]
<1>1. /\ nextReg \in {0, 1} /\ currentReg' = nextReg /\ nextReg' = NULL
      /\ active' = [active EXCEPT ![nextReg] = 1 - active[nextReg]]
      /\ currentBit' = 1 /\ resent' = 0 /\ nRepeat' = nRepeat
      /\ wire' = {CellAt(nextReg, 1 - active[nextReg], 0)}
  BY DEF SwitchToUpdated, SlotsInv
<1>2. /\ active' \in [Slots -> {0, 1}] /\ active'[nextReg] = 1 - active[nextReg]
      /\ active'[nextReg] \in {0, 1}
      /\ \A s \in Slots : s # nextReg => active'[s] = active[s]
  BY <1>1, SlotsOneAndZero DEF TypeOK
<1>3. Loaded(b) /\ b \in Buffer /\ ActiveBuffer' = b
  BY <1>1, <1>2, SlotsOneAndZero DEF UpdateInv, TypeOK, NULL, ActiveBuffer
<1>4. /\ CellAt(nextReg, 1 - active[nextReg], 0) = b.cell[0] /\ b.len \in 1..MaxLen
      /\ b.cell[0] \in Payloads \union {Blank}
  BY <1>1, <1>3, SlotsOneAndZero DEF CellAt, Cells, Loaded, Buffer
<1>5. TypeOK'
  BY <1>1, <1>2, <1>4, SlotsOneAndZero DEF TypeOK
<1>6. SlotsInv' /\ SetupInv'
  BY <1>1 DEF SlotsInv, SetupInv
<1>7. loc \notin {"capture", "write", "commit"}
  BY <1>1 DEF LoaderInv, NULL
<1>8. LoaderInv'
  BY <1>7 DEF LoaderInv
<1>9. Loaded(packet[1][active'[1]])
  BY <1>1, <1>2, <1>3, SlotsOneAndZero DEF UpdateInv
<1>10. UpdateInv'
  BY <1>1, <1>9 DEF UpdateInv
<1>11. TrackInv'
  BY <1>1, <1>3, <1>4 DEF TrackInv
<1> QED  BY <1>5, <1>6, <1>8, <1>10, <1>11

\* The refresh goes to register 1, whose active buffer is whole.
LEMMA CycleInv ==
  ASSUME WebTasks = {}, IInv, timersOn, CycleRegister, UNCHANGED <<timersOn, loaderVars>>
  PROVE  IInv'
<1> USE InterruptFrame DEF IInv
<1> DEFINE b == packet[1][active[1]]
<1>1. /\ currentReg' = 1 /\ nextReg = NULL
      /\ wire' = {CellAt(1, active[1], 0)} /\ currentBit' = 1 /\ resent' = 0
      /\ UNCHANGED <<active, nextReg, nRepeat>>
  BY SlotsOneAndZero DEF CycleRegister, SlotsInv
<1>2. Loaded(b) /\ b \in Buffer /\ ActiveBuffer' = b
  BY <1>1, SlotsOneAndZero DEF UpdateInv, TypeOK, NULL, ActiveBuffer
<1>3. /\ CellAt(1, active[1], 0) = b.cell[0] /\ b.len \in 1..MaxLen
      /\ b.cell[0] \in Payloads \union {Blank}
  BY <1>2, SlotsOneAndZero DEF CellAt, Cells, Loaded, Buffer
<1>4. TypeOK'
  BY <1>1, <1>3, SlotsOneAndZero DEF TypeOK
<1>5. SlotsInv' /\ SetupInv' /\ LoaderInv' /\ UpdateInv'
  BY <1>1 DEF SlotsInv, SetupInv, LoaderInv, UpdateInv
<1>6. TrackInv'
  BY <1>1, <1>2, <1>3 DEF TrackInv
<1> QED  BY <1>4, <1>5, <1>6

\* A stuttering step keeps the invariant.
LEMMA StutterInv == ASSUME IInv, UNCHANGED vars PROVE IInv'
<1> USE DEF vars, loc, arg, IInv
<1>1. TypeOK' /\ SlotsInv' /\ SetupInv'
  BY DEF TypeOK, SlotsInv, SetupInv
<1>2. LoaderInv' /\ UpdateInv' /\ TrackInv'
  BY DEF LoaderInv, UpdateInv, TrackInv, NothingSentYet, ActiveBuffer
<1> QED  BY <1>1, <1>2

\* Every step of the system keeps the invariant.
LEMMA StepInv == ASSUME WebTasks = {}, IInv, [Next]_vars PROVE IInv'
<1>1. CASE SetupIdlePacket \/ SetThrottle(LoopTask) \/ SetFunction(LoopTask)
  BY <1>1, LoadsInv
<1>2. CASE EnableTimers
  BY <1>2, EnableTimersInv
<1>3. CASE LoaderStep(LoopTask)
  BY <1>3, WaitInv, CaptureInv, WriteCellInv, WriteLenInv, CommitInv, SetRepeatInv,
     SetMaxLoadedInv DEF LoaderStep
<1>4. CASE OnTimer1
  BY <1>4, NextBitInv, RepeatPacketInv, SwitchInv, CycleInv DEF OnTimer1
<1>5. CASE UNCHANGED vars
  BY <1>5, StutterInv
<1> QED  BY <1>1, <1>2, <1>3, <1>4, <1>5, OneLoader DEF Next

-----------------------------------------------------------------------------
(* The theorems.                                                           *)

\* With one loader every reachable state satisfies the inductive invariant.
THEOREM Inductive == ASSUME WebTasks = {} PROVE Spec => []IInv
<1>1. Init => IInv
  BY InitInv
<1>2. IInv /\ [Next]_vars => IInv'
  BY StepInv
<1> QED  BY <1>1, <1>2, PTL DEF Spec

\* The interrupt and loadPacket keep the type invariant: no step leaves the
\* register array, the bit cursor's range or the repeat count's range.
THEOREM TypeCorrect == ASSUME WebTasks = {} PROVE Spec => []TypeOK
<1>1. IInv => TypeOK
  BY DEF IInv
<1> QED  BY <1>1, Inductive, PTL

\* loadPacket never stores into the buffer that onTimer1 is reading.
THEOREM DoubleBuffer == ASSUME WebTasks = {} PROVE Spec => []UpdatesInactiveBuffer
<1>1. IInv => UpdatesInactiveBuffer
  <2> SUFFICES ASSUME IInv, loc \in {"write", "commit"}
               PROVE  arg.side # active[arg.slot]
    BY OneLoader DEF UpdatesInactiveBuffer, loc, arg
  <2>1. arg.side = 1 - active[arg.slot] /\ arg \in Job
    BY OneLoader DEF IInv, LoaderInv, TypeOK, arg
  <2>2. active[arg.slot] \in {0, 1}
    BY <2>1 DEF IInv, TypeOK, Job
  <2> QED  BY <2>1, <2>2
<1> QED  BY <1>1, Inductive, PTL

\* Every packet that onTimer1 clocks out is the whole packet of one load.
THEOREM WholePackets == ASSUME WebTasks = {} PROVE Spec => []WirePacketWhole
<1>1. IInv => WirePacketWhole
  BY DEF IInv, TrackInv, NothingSentYet, Loaded, WirePacketWhole
<1> QED  BY <1>1, Inductive, PTL

\* onTimer1 always finds the end of the packet it is sending.
THEOREM CursorBounded == ASSUME WebTasks = {} PROVE Spec => []CursorInPacket
<1>1. IInv => CursorInPacket
  BY DEF IInv, TrackInv, NothingSentYet, CursorInPacket
<1> QED  BY <1>1, Inductive, PTL

-----------------------------------------------------------------------------
(* The registers implement the abstract track.                             *)

stored == [s \in Slots |-> Content(packet[s][active[s]])]
pending == IF nextReg = NULL THEN {}
           ELSE {[slot |-> nextReg,
                  payload |-> Content(packet[nextReg][1 - active[nextReg]])]}
onTrack == Content(ActiveBuffer)

\* A loaded buffer has a content, which is a payload.
LEMMA LoadedContent ==
  ASSUME NEW b \in Buffer, Loaded(b)
  PROVE  Content(b) = b.cell[0] /\ Content(b) \in Payloads
  BY DEF Loaded, Content, Buffer, Cells

\* The initial state maps to the initial state of the track.
LEMMA InitTrack == ASSUME Init PROVE Track!Init
<1>1. \A s \in Slots : packet[s][active[s]] = BlankBuffer
  BY DEF Init, RegisterList
<1>2. Content(BlankBuffer) = Blank /\ ActiveBuffer = BlankBuffer /\ nextReg = NULL
  BY <1>1, SlotsOneAndZero DEF Content, BlankBuffer, ActiveBuffer, Init, RegisterList
<1>3. Track!Init <=> stored = [s \in Slots |-> Blank] /\ pending = {} /\ onTrack = Blank
  BY DEF Track!Init, stored, pending, onTrack
<1> QED  BY <1>1, <1>2, <1>3 DEF stored, pending, onTrack

\* Steps that change neither an active buffer, nor the register on the
\* track, nor what waits to go there, are invisible on the track.
LEMMA InvisibleStep ==
  ASSUME UNCHANGED <<active, currentReg, nextReg>>, currentReg \in Slots,
         \A s \in Slots : packet'[s][active[s]] = packet[s][active[s]],
         nextReg # NULL => packet' = packet
  PROVE  UNCHANGED Track!vars
<1>1. stored' = stored
  BY DEF stored
<1>2. pending' = pending
  BY DEF pending
<1>3. onTrack' = onTrack
  BY DEF onTrack, ActiveBuffer
<1> QED  BY <1>1, <1>2, <1>3 DEF Track!vars, stored, pending, onTrack

\* nextReg = r is the offer of the abstract track.
LEMMA CommitTrack ==
  ASSUME WebTasks = {}, IInv, Commit(LoopTask)
  PROVE  Track!Next
<1>1. /\ loc = "commit" /\ nextReg' = arg.slot
      /\ UNCHANGED <<packet, active, currentReg>>
  BY DEF Commit, Goto, loc, arg, isrVars
<1>2. nextReg = NULL /\ arg \in Job /\ arg.slot \in Slots
  BY <1>1, OneLoader DEF IInv, LoaderInv, TypeOK, arg, Job
<1> DEFINE b == packet[arg.slot][1 - active[arg.slot]]
<1>3. Loaded(b) /\ b \in Buffer
  BY <1>1, <1>2 DEF IInv, LoaderInv, TypeOK
<1>4. Content(b) \in Payloads
  BY <1>3, LoadedContent
<1>5. pending = {} /\ pending' = {[slot |-> arg.slot, payload |-> Content(b)]}
  BY <1>1, <1>2, SlotsOneAndZero DEF pending
<1>6. stored' = stored /\ onTrack' = onTrack
  BY <1>1 DEF stored, onTrack, ActiveBuffer
<1>7. Track!Offer(arg.slot, Content(b))
  BY <1>5, <1>6 DEF Track!Offer, stored, pending, onTrack
<1> QED  BY <1>2, <1>4, <1>7 DEF Track!Next

\* The switch is the take-over of the abstract track.
LEMMA SwitchTrack ==
  ASSUME WebTasks = {}, IInv, SwitchToUpdated, UNCHANGED packet
  PROVE  Track!Next
<1>1. /\ nextReg # NULL /\ nextReg \in Slots /\ nextReg' = NULL /\ currentReg' = nextReg
      /\ active' = [active EXCEPT ![nextReg] = 1 - active[nextReg]]
      /\ active \in [Slots -> {0, 1}]
  BY DEF SwitchToUpdated, IInv, TypeOK
<1> DEFINE b == packet[nextReg][1 - active[nextReg]]
           o == [slot |-> nextReg, payload |-> Content(b)]
<1>2. pending = {o} /\ pending' = {}
  BY <1>1 DEF pending
<1>3. stored' = [stored EXCEPT ![nextReg] = Content(b)]
  BY <1>1 DEF stored
<1>4. onTrack' = Content(b)
  BY <1>1 DEF onTrack, ActiveBuffer
<1>5. Track!TakeOver
  <2>1. o \in pending /\ o.slot = nextReg /\ o.payload = Content(b)
    BY <1>2
  <2>2. stored' = [stored EXCEPT ![o.slot] = o.payload] /\ onTrack' = o.payload
    BY <1>3, <1>4, <2>1
  <2> HIDE DEF o
  <2> QED  BY <1>2, <2>1, <2>2 DEF Track!TakeOver, stored, pending, onTrack
<1> QED  BY <1>5 DEF Track!Next

\* Cycling to the next register is a refresh of the abstract track.
LEMMA CycleTrack ==
  ASSUME WebTasks = {}, IInv, timersOn, CycleRegister, UNCHANGED packet
  PROVE  Track!Next
<1>1. /\ nextReg = NULL /\ currentReg' = 1 /\ UNCHANGED <<active, nextReg>>
  BY SlotsOneAndZero DEF CycleRegister, IInv, SlotsInv
<1> DEFINE b == packet[1][active[1]]
<1>2. Loaded(b) /\ b \in Buffer
  BY <1>1, SlotsOneAndZero DEF IInv, UpdateInv, TypeOK, NULL
<1>3. Content(b) \in Payloads /\ Content(b) # Blank
  BY <1>2, LoadedContent
<1>4. pending = {} /\ pending' = pending /\ stored' = stored /\ stored[1] = Content(b)
  BY <1>1, SlotsOneAndZero DEF pending, stored
<1>5. onTrack' = stored[1]
  BY <1>1, <1>4 DEF onTrack, ActiveBuffer
<1>6. Track!Refresh
  BY <1>3, <1>4, <1>5, SlotsOneAndZero DEF Track!Refresh, stored, pending, onTrack
<1> QED  BY <1>6 DEF Track!Next

\* Every step is a step of the abstract track or a stutter.
LEMMA StepTrack ==
  ASSUME WebTasks = {}, IInv, [Next]_vars
  PROVE  [Track!Next]_(Track!vars)
<1>0. currentReg \in Slots
  BY DEF IInv, TypeOK
<1>1. CASE SetupIdlePacket \/ SetThrottle(LoopTask) \/ SetFunction(LoopTask) \/ EnableTimers
  <2>1. UNCHANGED <<active, currentReg, nextReg, packet>>
    BY <1>1 DEF SetupIdlePacket, SetThrottle, SetFunction, EnableTimers, LoadPacket,
       isrVars, loaderVars
  <2> QED  BY <1>0, <2>1, InvisibleStep
<1>2. CASE /\ Wait(LoopTask) \/ Capture(LoopTask) \/ SetRepeat(LoopTask)
              \/ SetMaxLoaded(LoopTask)
  <2>1. UNCHANGED <<active, currentReg, nextReg, packet>>
    BY <1>2 DEF Wait, Capture, SetRepeat, SetMaxLoaded, isrVars
  <2> QED  BY <1>0, <2>1, InvisibleStep
<1>3. CASE WriteCell(LoopTask) \/ WriteLen(LoopTask)
  <2>1. loc = "write" /\ UNCHANGED <<active, currentReg, nextReg>>
    BY <1>3 DEF WriteCell, WriteLen, Goto, loc, isrVars
  <2>2. nextReg = NULL /\ arg.slot \in Slots /\ arg.side = 1 - active[arg.slot]
    BY <2>1, OneLoader DEF IInv, LoaderInv, TypeOK, arg, Job
  <2>3. ASSUME NEW s \in Slots PROVE packet'[s][active[s]] = packet[s][active[s]]
    <3>1. active[arg.slot] \in {0, 1} /\ arg.side # active[arg.slot]
      BY <2>2 DEF IInv, TypeOK
    <3>2. packet \in [Slots -> [{0, 1} -> Buffer]]
      BY DEF IInv, TypeOK
    <3>3. CASE WriteCell(LoopTask)
      <4>1. packet' = [packet EXCEPT ![arg.slot][arg.side].cell[arg.done] = arg.payload]
        BY <3>3 DEF WriteCell, arg
      <4>2. CASE s = arg.slot
        BY <2>2, <3>1, <3>2, <4>1, <4>2
      <4>3. CASE s # arg.slot
        BY <3>2, <4>1, <4>3
      <4> QED  BY <4>2, <4>3
    <3>4. CASE WriteLen(LoopTask)
      <4>1. packet' = [packet EXCEPT ![arg.slot][arg.side].len = arg.len]
        BY <3>4 DEF WriteLen, arg
      <4>2. CASE s = arg.slot
        BY <2>2, <3>1, <3>2, <4>1, <4>2
      <4>3. CASE s # arg.slot
        BY <3>2, <4>1, <4>3
      <4> QED  BY <4>2, <4>3
    <3> QED  BY <1>3, <3>3, <3>4
  <2> QED  BY <1>0, <2>1, <2>2, <2>3, InvisibleStep
<1>4. CASE Commit(LoopTask)
  BY <1>4, CommitTrack
<1>5. CASE OnTimer1
  <2>1. UNCHANGED packet /\ timersOn
    BY <1>5 DEF OnTimer1, loaderVars
  <2>2. CASE NextBit \/ RepeatPacket
    <3>1. UNCHANGED <<active, currentReg, nextReg>>
      BY <2>2 DEF NextBit, RepeatPacket
    <3> QED  BY <1>0, <2>1, <3>1, InvisibleStep
  <2> QED  BY <1>5, <2>1, <2>2, SwitchTrack, CycleTrack DEF OnTimer1
<1>6. CASE UNCHANGED vars
  BY <1>0, <1>6, InvisibleStep DEF vars
<1> QED  BY <1>1, <1>2, <1>3, <1>4, <1>5, <1>6, OneLoader DEF Next, LoaderStep

\* Seen from the track the register list is the one-place mailbox of DccTrack:
\* no packet is lost, torn or replayed out of register 0.
THEOREM RefinesTrack == ASSUME WebTasks = {} PROVE Spec => Track!SafeSpec
<1>1. Init => Track!Init
  BY InitTrack
<1>2. IInv /\ [Next]_vars => [Track!Next]_(Track!vars)
  BY StepTrack
<1> QED  BY <1>1, <1>2, Inductive, PTL DEF Spec, Track!SafeSpec

-----------------------------------------------------------------------------
(* How often a one-time packet is sent.                                    *)

\* What is left of nRepeat and what was sent of the packet: a load adds its
\* repeats once, and none can follow it before the packet leaves the track.
RepeatInv ==
  /\ resent \in Nat
  /\ currentReg # 0 => resent = 0
  /\ nextReg = NULL /\ loc = "repeat" => resent + nRepeat <= Repeats
  /\ nextReg = NULL \/ loc = "repeat" => resent + nRepeat <= 2 * Repeats
  /\ resent + nRepeat <= 3 * Repeats

LEMMA RepeatLoader ==
  ASSUME WebTasks = {}, IInv, RepeatInv, LoaderStep(LoopTask)
  PROVE  RepeatInv'
<1>0. UNCHANGED <<resent, currentReg>>
  BY DEF LoaderStep, Wait, Capture, WriteCell, WriteLen, Commit, SetRepeat, SetMaxLoaded, isrVars
<1>1. resent \in Nat /\ nRepeat \in 0..Repeats
  BY DEF RepeatInv, IInv, TypeOK
<1>2. TypeOK /\ {"capture", "write", "commit", "repeat", "max", "idle"} \subseteq Locations
  BY DEF IInv, Locations
<1>3. CASE Commit(LoopTask)
  <2>1. Goto(LoopTask, "commit", "repeat") /\ nRepeat' = nRepeat
    BY <1>3 DEF Commit
  <2>2. loc = "commit" /\ loc' = "repeat"
    BY <1>2, <2>1, GotoEffect
  <2>3. nextReg = NULL
    BY <2>2 DEF IInv, LoaderInv
  <2>4. resent + nRepeat <= 2 * Repeats
    BY <2>2, <2>3 DEF RepeatInv
  <2>5. nextReg' # NULL
    BY <1>2, <1>3, OneLoader, SlotsOneAndZero DEF Commit, TypeOK, Job
  <2> QED BY <1>0, <1>1, <2>1, <2>2, <2>4, <2>5 DEF RepeatInv
<1>4. CASE SetRepeat(LoopTask)
  <2>1. Goto(LoopTask, "repeat", "max") /\ nextReg' = nextReg /\ nRepeat' = arg.repeats
    BY <1>4 DEF SetRepeat, arg
  <2>2. loc = "repeat" /\ loc' = "max"
    BY <1>2, <2>1, GotoEffect
  <2>3. arg.repeats \in 0..Repeats
    BY <1>2, OneLoader DEF TypeOK, Job, arg
  <2>4. resent <= 2 * Repeats /\ (nextReg = NULL => resent <= Repeats)
    BY <1>1, <2>2 DEF RepeatInv
  <2> QED BY <1>0, <1>1, <2>1, <2>2, <2>3, <2>4 DEF RepeatInv
<1>5. ASSUME NEW from, NEW to \in Locations, from # "repeat", to # "repeat",
             Goto(LoopTask, from, to), nextReg' = nextReg, nRepeat' = nRepeat
      PROVE  RepeatInv'
  <2>1. loc # "repeat" /\ loc' # "repeat"
    BY <1>2, <1>5, GotoEffect
  <2> QED BY <1>0, <1>1, <1>5, <2>1 DEF RepeatInv
<1>6. CASE Wait(LoopTask) \/ Capture(LoopTask)
  BY <1>2, <1>5, <1>6 DEF Wait, Capture
<1>7. CASE WriteLen(LoopTask) \/ SetMaxLoaded(LoopTask)
  BY <1>2, <1>5, <1>7 DEF WriteLen, SetMaxLoaded
<1>8. CASE WriteCell(LoopTask)
  BY <1>0, <1>8 DEF WriteCell, RepeatInv, loc
<1> QED BY <1>3, <1>4, <1>6, <1>7, <1>8 DEF LoaderStep

LEMMA RepeatInterrupt ==
  ASSUME WebTasks = {}, IInv, RepeatInv, OnTimer1
  PROVE  RepeatInv'
<1>1. resent \in Nat /\ nRepeat \in 0..Repeats /\ loc' = loc
  BY DEF RepeatInv, IInv, TypeOK, OnTimer1, loaderVars, loc
<1>2. CASE NextBit
  BY <1>1, <1>2 DEF NextBit, RepeatInv
<1>3. CASE RepeatPacket
  <2>1. /\ resent' = resent + 1 /\ nRepeat' = nRepeat - 1 /\ nRepeat > 0
        /\ currentReg = 0 /\ UNCHANGED <<currentReg, nextReg>>
    BY <1>3 DEF RepeatPacket, Repeating
  <2>2. resent' + nRepeat' = resent + nRepeat /\ resent' \in Nat
    BY <1>1, <2>1
  <2> QED BY <1>1, <2>1, <2>2 DEF RepeatInv
<1>4. CASE SwitchToUpdated \/ CycleRegister
  <2>1. resent' = 0 /\ nRepeat' = nRepeat
    BY <1>4 DEF SwitchToUpdated, CycleRegister
  <2>2. 0 + nRepeat' <= Repeats /\ Repeats <= 2 * Repeats /\ Repeats <= 3 * Repeats
    BY <1>1, <2>1
  <2>3. resent' + nRepeat' <= Repeats
    BY <2>1, <2>2
  <2> QED BY <1>1, <2>1, <2>2, <2>3 DEF RepeatInv
<1> QED BY <1>2, <1>3, <1>4 DEF OnTimer1

LEMMA RepeatStep == ASSUME WebTasks = {}, IInv, RepeatInv, [Next]_vars PROVE RepeatInv'
<1>1. CASE SetupIdlePacket \/ SetThrottle(LoopTask) \/ SetFunction(LoopTask)
  <2>1. PICK n, len, k, p : LoadPacket(LoopTask, n, len, k, p)
    BY <1>1 DEF SetupIdlePacket, SetThrottle, SetFunction
  <2>2. loc = "idle" /\ loc' = "wait" /\ UNCHANGED <<nextReg, nRepeat, isrVars>>
    BY <2>1, OneLoader DEF LoadPacket, IInv, TypeOK, loc
  <2> QED BY <2>2 DEF RepeatInv, isrVars
<1>2. CASE EnableTimers
  BY <1>2 DEF EnableTimers, isrVars, loaderVars, RepeatInv, loc
<1>3. CASE LoaderStep(LoopTask)
  BY <1>3, RepeatLoader
<1>4. CASE OnTimer1
  BY <1>4, RepeatInterrupt
<1>5. CASE UNCHANGED vars
  BY <1>5 DEF vars, RepeatInv, loc
<1> QED  BY <1>1, <1>2, <1>3, <1>4, <1>5, OneLoader DEF Next

\* A one-time packet leaves the track after at most three rounds of repeats,
\* wherever the interrupt falls between nextReg and nRepeat in loadPacket.
THEOREM RepeatsEnd == ASSUME WebTasks = {} PROVE Spec => []RepeatsBounded
<1>1. Init => RepeatInv
  <2> SUFFICES ASSUME Init PROVE RepeatInv
    OBVIOUS
  <2>1. resent = 0 /\ nRepeat = 0 /\ loc = "idle"
    BY OneLoader DEF Init, RegisterList, loc
  <2> QED BY <2>1 DEF RepeatInv
<1>2. IInv /\ RepeatInv /\ [Next]_vars => RepeatInv'
  BY RepeatStep
<1>3. IInv /\ RepeatInv => RepeatsBounded
  BY DEF IInv, TypeOK, RepeatInv, RepeatsBounded
<1> QED BY <1>1, <1>2, <1>3, Inductive, PTL DEF Spec

-----------------------------------------------------------------------------
(* Which registers the interrupt reaches, for any number of loaders.       *)

AnyLoader(t) ==
  /\ job[t].reg \in {0, 1} /\ job[t].slot \in {0, 1}
  /\ ~timersOn /\ t # LoopTask => pc[t] = "idle"

MapInv ==
  /\ timersOn \in BOOLEAN /\ pc \in [Tasks -> Locations] /\ job \in [Tasks -> Job]
  /\ active \in [Slots -> {0, 1}] /\ regMap \in [Slots -> {NULL, 0, 1}]
  /\ regMap[0] = 0 /\ regMap[1] \in {NULL, 1}
  /\ maxLoadedReg \in {0, 1} /\ currentReg \in {0, 1} /\ nextReg \in {NULL, 0, 1}
  /\ timersOn => maxLoadedReg = 1 /\ regMap[1] = 1
  /\ \A t \in Tasks : AnyLoader(t)

\* Until the timers run only the idle packet is loaded, and not yet sent.
FirstLoad ==
  ~timersOn =>
    /\ currentReg = 0
    /\ regMap[1] = NULL => maxLoadedReg = 0
    /\ loc = "idle" => regMap[1] = NULL \/ maxLoadedReg = 1
    /\ loc # "idle" => arg.reg = 1
    /\ loc \in {"write", "commit"} => arg.slot = 1
    /\ loc \in {"write", "commit", "repeat", "max"} => regMap[1] = 1
    /\ loc \in {"wait", "capture"} => regMap[1] = NULL
    /\ loc \in {"repeat", "max"} => nextReg = 1

LEMMA LoopIsTask == LoopTask \in Tasks /\ \A t \in WebTasks : t \in Tasks /\ t # LoopTask
  BY DEF Tasks

\* A step of one task: enough is what it does to its own job.
LEMMA OneTask ==
  ASSUME MapInv, NEW t \in Tasks, NEW l \in Locations, NEW j \in Job,
         pc' = [pc EXCEPT ![t] = l], job' = [job EXCEPT ![t] = j],
         j.reg \in {0, 1}, j.slot \in {0, 1},
         ~timersOn => t = LoopTask,
         UNCHANGED <<timersOn, active, currentReg>>
  PROVE  /\ pc' \in [Tasks -> Locations] /\ job' \in [Tasks -> Job]
         /\ \A u \in Tasks : AnyLoader(u)'
         /\ pc'[t] = l /\ job'[t] = j
         /\ t # LoopTask => loc' = loc /\ arg' = arg
         /\ t = LoopTask => loc' = l /\ arg' = j
  BY LoopIsTask DEF MapInv, AnyLoader, loc, arg

LEMMA LoadMap ==
  ASSUME MapInv, FirstLoad, NEW t \in Tasks, NEW n \in {0, 1}, NEW len \in 1..MaxLen,
         NEW k \in 0..Repeats, NEW p \in Payloads, LoadPacket(t, n, len, k, p),
         ~timersOn => t = LoopTask /\ n = 1 /\ regMap[1] = NULL
  PROVE  MapInv' /\ FirstLoad'
<1> DEFINE new == Call(n, len, k, p)
<1>1. n % (MaxRegs + 1) = n
  OBVIOUS
<1>2. /\ pc' = [pc EXCEPT ![t] = "wait"] /\ job' = [job EXCEPT ![t] = new]
      /\ UNCHANGED <<timersOn, regMap, maxLoadedReg, nextReg, active, currentReg>>
  BY <1>1 DEF LoadPacket, isrVars
<1>3. new \in Job /\ new.reg = n /\ new.slot = 0
  BY SlotsOneAndZero DEF Job, Call
<1>4. "wait" \in Locations
  BY DEF Locations
<1> HIDE DEF new
<1>5. /\ pc' \in [Tasks -> Locations] /\ job' \in [Tasks -> Job]
      /\ \A u \in Tasks : AnyLoader(u)'
      /\ t # LoopTask => loc' = loc /\ arg' = arg
      /\ t = LoopTask => loc' = "wait" /\ arg' = new
  BY <1>2, <1>3, <1>4, OneTask
<1>6. MapInv'
  BY <1>2, <1>5 DEF MapInv
<1> QED BY <1>2, <1>3, <1>5, <1>6 DEF FirstLoad

LEMMA LoaderMap ==
  ASSUME MapInv, FirstLoad, NEW t \in Tasks, LoaderStep(t)
  PROVE  MapInv' /\ FirstLoad'
<1>0. UNCHANGED <<timersOn, active, currentReg>>
  BY DEF LoaderStep, Wait, Capture, WriteCell, WriteLen, Commit, SetRepeat, SetMaxLoaded, isrVars
<1>1. /\ pc[t] \in Locations /\ job[t] \in Job /\ pc[t] # "idle"
      /\ job[t].reg \in {0, 1} /\ job[t].slot \in {0, 1} /\ t \in Tasks
  BY DEF MapInv, AnyLoader, LoaderStep, Wait, Capture, WriteCell, WriteLen, Commit,
         SetRepeat, SetMaxLoaded, Goto
<1>2. ~timersOn => t = LoopTask
  BY <1>1 DEF MapInv, AnyLoader
<1>3. {"capture", "write", "commit", "repeat", "max", "idle"} \subseteq Locations
  BY DEF Locations
<1>4. t = LoopTask => pc[t] = loc /\ job[t] = arg
  BY DEF loc, arg
<1>5. ASSUME NEW l \in Locations, NEW j \in Job, pc' = [pc EXCEPT ![t] = l],
             job' = [job EXCEPT ![t] = j], j.reg \in {0, 1}, j.slot \in {0, 1}
      PROVE  /\ pc' \in [Tasks -> Locations] /\ job' \in [Tasks -> Job]
             /\ \A u \in Tasks : AnyLoader(u)'
             /\ t # LoopTask => loc' = loc /\ arg' = arg
             /\ t = LoopTask => loc' = l /\ arg' = j
  BY <1>0, <1>2, <1>5, OneTask
<1>6. CASE Wait(t) \/ WriteLen(t) \/ SetRepeat(t)
  <2>1. /\ job' = job /\ UNCHANGED <<regMap, maxLoadedReg, nextReg>>
        /\ \E l \in {"capture", "commit", "max"} :
             /\ pc' = [pc EXCEPT ![t] = l]
             /\ l = "capture" => pc[t] = "wait"
             /\ l = "commit" => pc[t] = "write"
             /\ l = "max" => pc[t] = "repeat"
    BY <1>6 DEF Wait, WriteLen, SetRepeat, Goto
  <2>2. job' = [job EXCEPT ![t] = job[t]]
    BY <2>1 DEF MapInv
  <2>3. PICK l \in {"capture", "commit", "max"} :
          /\ pc' = [pc EXCEPT ![t] = l]
          /\ l = "capture" => pc[t] = "wait"
          /\ l = "commit" => pc[t] = "write"
          /\ l = "max" => pc[t] = "repeat"
    BY <2>1
  <2>4. /\ pc' \in [Tasks -> Locations] /\ job' \in [Tasks -> Job]
        /\ \A u \in Tasks : AnyLoader(u)'
        /\ t # LoopTask => loc' = loc /\ arg' = arg
        /\ t = LoopTask => loc' = l /\ arg' = job[t]
    BY <1>1, <1>3, <1>5, <2>2, <2>3
  <2>5. MapInv'
    BY <1>0, <2>1, <2>4 DEF MapInv
  <2>6. FirstLoad'
    BY <1>0, <1>2, <1>4, <2>1, <2>3, <2>4 DEF FirstLoad
  <2> QED BY <2>5, <2>6
<1>7. CASE Capture(t)
  <2> DEFINE n == job[t].reg
             r == IF regMap[n] = NULL THEN maxLoadedReg + 1 ELSE regMap[n]
             j == [job[t] EXCEPT !.slot = r, !.side = 1 - active[r]]
  <2>1. /\ pc[t] = "capture" /\ pc' = [pc EXCEPT ![t] = "write"]
        /\ regMap' = [regMap EXCEPT ![n] = r] /\ job' = [job EXCEPT ![t] = j]
        /\ UNCHANGED <<maxLoadedReg, nextReg>>
    BY <1>7 DEF Capture, Goto, MapInv
  <2>2. r \in {0, 1} /\ (n = 0 => r = 0) /\ (n = 1 => r = 1)
    <3>1. CASE n = 0
      BY <3>1, SlotsOneAndZero DEF MapInv, NULL
    <3>2. CASE n = 1 /\ regMap[1] # NULL
      BY <3>2 DEF MapInv
    <3>3. CASE n = 1 /\ regMap[1] = NULL
      <4>1. ~timersOn
        BY <3>3, SlotsOneAndZero DEF MapInv, NULL
      <4>2. maxLoadedReg = 0
        BY <3>3, <4>1 DEF FirstLoad
      <4> QED BY <3>3, <4>2
    <3> QED BY <1>1, <3>1, <3>2, <3>3
  <2>3. j \in Job /\ j.reg = n /\ j.slot = r
    <3>1. r \in Slots /\ 1 - active[r] \in {0, 1}
      <4>1. r \in Slots
        BY <2>2, SlotsOneAndZero
      <4>2. active[r] \in {0, 1}
        BY <4>1 DEF MapInv
      <4> QED BY <4>1, <4>2
    <3> QED BY <1>1, <3>1 DEF Job
  <2> HIDE DEF r, j
  <2>4. /\ pc' \in [Tasks -> Locations] /\ job' \in [Tasks -> Job]
        /\ \A u \in Tasks : AnyLoader(u)'
        /\ t # LoopTask => loc' = loc /\ arg' = arg
        /\ t = LoopTask => loc' = "write" /\ arg' = j
    BY <1>1, <1>3, <1>5, <2>1, <2>2, <2>3
  <2>5. /\ regMap' \in [Slots -> {NULL, 0, 1}] /\ regMap'[0] = 0
        /\ regMap'[1] = IF n = 1 THEN 1 ELSE regMap[1]
    <3>1. 0 \in Slots /\ 1 \in Slots
      BY SlotsOneAndZero
    <3> QED BY <1>1, <2>1, <2>2, <3>1 DEF MapInv
  <2>6. MapInv'
    BY <1>0, <2>1, <2>4, <2>5 DEF MapInv
  <2>7. FirstLoad'
    <3>1. ~timersOn => n = 1 /\ t = LoopTask
      BY <1>1, <1>2, <1>4 DEF FirstLoad
    <3> QED BY <1>0, <2>1, <2>2, <2>3, <2>4, <2>5, <3>1, SlotsOneAndZero DEF FirstLoad, NULL
  <2> QED BY <2>6, <2>7
<1>8. CASE WriteCell(t)
  <2> DEFINE j == [job[t] EXCEPT !.done = @ + 1]
  <2>1. /\ job' = [job EXCEPT ![t] = j] /\ pc' = pc
        /\ pc[t] = "write" /\ UNCHANGED <<regMap, maxLoadedReg, nextReg>>
    BY <1>8 DEF WriteCell, MapInv
  <2>2. j \in Job /\ j.reg = job[t].reg /\ j.slot = job[t].slot
    BY <1>1, <1>8 DEF WriteCell, Job
  <2>3. pc' = [pc EXCEPT ![t] = "write"]
    BY <2>1 DEF MapInv
  <2> HIDE DEF j
  <2>4. /\ pc' \in [Tasks -> Locations] /\ job' \in [Tasks -> Job]
        /\ \A u \in Tasks : AnyLoader(u)'
        /\ t # LoopTask => loc' = loc /\ arg' = arg
        /\ t = LoopTask => loc' = "write" /\ arg' = j
    BY <1>1, <1>3, <1>5, <2>1, <2>2, <2>3
  <2>5. MapInv'
    BY <1>0, <2>1, <2>4 DEF MapInv
  <2>6. FirstLoad'
    BY <1>0, <1>2, <1>4, <2>1, <2>2, <2>4 DEF FirstLoad
  <2> QED BY <2>5, <2>6
<1>9. CASE Commit(t)
  <2>1. /\ pc[t] = "commit" /\ pc' = [pc EXCEPT ![t] = "repeat"] /\ job' = job
        /\ nextReg' = job[t].slot /\ UNCHANGED <<regMap, maxLoadedReg>>
    BY <1>9 DEF Commit, Goto
  <2>2. job' = [job EXCEPT ![t] = job[t]]
    BY <2>1 DEF MapInv
  <2>3. /\ pc' \in [Tasks -> Locations] /\ job' \in [Tasks -> Job]
        /\ \A u \in Tasks : AnyLoader(u)'
        /\ t # LoopTask => loc' = loc /\ arg' = arg
        /\ t = LoopTask => loc' = "repeat" /\ arg' = job[t]
    BY <1>1, <1>3, <1>5, <2>1, <2>2
  <2>4. MapInv'
    BY <1>0, <1>1, <2>1, <2>3 DEF MapInv
  <2>5. FirstLoad'
    BY <1>0, <1>2, <1>4, <2>1, <2>3 DEF FirstLoad
  <2> QED BY <2>4, <2>5
<1>10. CASE SetMaxLoaded(t)
  <2>1. /\ pc[t] = "max" /\ pc' = [pc EXCEPT ![t] = "idle"]
        /\ job' = [job EXCEPT ![t] = NoJob]
        /\ maxLoadedReg' = (IF nextReg > maxLoadedReg THEN nextReg ELSE maxLoadedReg)
        /\ UNCHANGED <<regMap, nextReg>>
    BY <1>10 DEF SetMaxLoaded, Goto
  <2>2. NoJob \in Job /\ NoJob.reg = 0 /\ NoJob.slot = 0
    BY SlotsOneAndZero DEF NoJob, Call, Job
  <2>3. /\ pc' \in [Tasks -> Locations] /\ job' \in [Tasks -> Job]
        /\ \A u \in Tasks : AnyLoader(u)'
        /\ t # LoopTask => loc' = loc /\ arg' = arg
        /\ t = LoopTask => loc' = "idle" /\ arg' = NoJob
    BY <1>3, <1>5, <2>1, <2>2
  <2>4. maxLoadedReg' \in {0, 1} /\ maxLoadedReg' >= maxLoadedReg
        /\ (nextReg = 1 => maxLoadedReg' = 1)
    BY <2>1 DEF MapInv, NULL
  <2>5. MapInv'
    BY <1>0, <2>1, <2>3, <2>4 DEF MapInv
  <2>6. FirstLoad'
    BY <1>0, <1>2, <1>4, <2>1, <2>3, <2>4, SlotsOneAndZero DEF FirstLoad, NULL
  <2> QED BY <2>5, <2>6
<1> QED BY <1>6, <1>7, <1>8, <1>9, <1>10 DEF LoaderStep

LEMMA InterruptMap == ASSUME MapInv, FirstLoad, OnTimer1 PROVE MapInv' /\ FirstLoad'
<1>1. timersOn /\ UNCHANGED <<timersOn, regMap, pc, job, maxLoadedReg>>
  BY DEF OnTimer1, loaderVars
<1>2. currentReg' \in {0, 1} /\ nextReg' \in {NULL, 0, 1} /\ active' \in [Slots -> {0, 1}]
  <2>1. CASE NextBit \/ RepeatPacket
    BY <2>1 DEF NextBit, RepeatPacket, MapInv
  <2>2. CASE SwitchToUpdated
    <3>1. nextReg \in {0, 1} /\ nextReg \in Slots
      BY <2>2, SlotsOneAndZero DEF SwitchToUpdated, MapInv
    <3>2. 1 - active[nextReg] \in {0, 1}
      BY <3>1 DEF MapInv
    <3> QED BY <2>2, <3>1, <3>2 DEF SwitchToUpdated, MapInv
  <2>3. CASE CycleRegister
    <3>1. maxLoadedReg = 1 /\ currentReg \in {0, 1}
      BY <1>1 DEF MapInv
    <3> QED BY <2>3, <3>1 DEF CycleRegister, MapInv
  <2> QED BY <2>1, <2>2, <2>3 DEF OnTimer1
<1>3. MapInv'
  BY <1>1, <1>2 DEF MapInv, AnyLoader
<1> QED BY <1>1, <1>3 DEF FirstLoad

LEMMA MapStep == MapInv /\ FirstLoad /\ [Next]_vars => MapInv' /\ FirstLoad'
<1> SUFFICES ASSUME MapInv, FirstLoad, [Next]_vars PROVE MapInv' /\ FirstLoad'
  OBVIOUS
<1>1. CASE SetupIdlePacket
  BY <1>1, LoadMap, LoopIsTask DEF SetupIdlePacket
<1>2. CASE SetThrottle(LoopTask)
  BY <1>2, LoadMap, LoopIsTask DEF SetThrottle
<1>3. CASE SetFunction(LoopTask)
  BY <1>3, LoadMap, LoopIsTask DEF SetFunction
<1>4. ASSUME NEW t \in WebTasks, WriteCVByteMain(t) PROVE MapInv' /\ FirstLoad'
  BY <1>4, LoadMap, LoopIsTask DEF WriteCVByteMain
<1>5. CASE EnableTimers
  <2>1. timersOn' = TRUE /\ UNCHANGED <<nextReg, nRepeat, isrVars, loaderVars>>
        /\ ~timersOn /\ loc = "idle" /\ regMap[1] # NULL
    BY <1>5 DEF EnableTimers, loc
  <2>2. maxLoadedReg = 1 /\ regMap[1] = 1
    BY <2>1 DEF FirstLoad, MapInv
  <2> QED BY <2>1, <2>2 DEF MapInv, AnyLoader, FirstLoad, isrVars, loaderVars
<1>6. ASSUME NEW t \in Tasks, LoaderStep(t) PROVE MapInv' /\ FirstLoad'
  BY <1>6, LoaderMap
<1>7. CASE OnTimer1
  BY <1>7, InterruptMap
<1>8. CASE UNCHANGED vars
  BY <1>8 DEF vars, MapInv, AnyLoader, FirstLoad, loc, arg
<1> QED BY <1>1, <1>2, <1>3, <1>4, <1>5, <1>6, <1>7, <1>8 DEF Next

\* However many tasks call loadPacket at once, onTimer1 only visits registers
\* that have been loaded.
THEOREM OnlyLoadedRegisters == Spec => []CurrentRegLoaded
<1>1. Init => MapInv /\ FirstLoad
  <2> SUFFICES ASSUME Init PROVE MapInv /\ FirstLoad
    OBVIOUS
  <2>1. NoJob \in Job /\ NoJob.reg = 0 /\ NoJob.slot = 0
    BY SlotsOneAndZero DEF NoJob, Call, Job
  <2>2. "idle" \in Locations
    BY DEF Locations
  <2>3. 0 \in Slots /\ 1 \in Slots /\ regMap[0] = 0 /\ regMap[1] = NULL
    BY SlotsOneAndZero DEF Init, RegisterList
  <2>4. MapInv
    BY <2>1, <2>2, <2>3 DEF Init, RegisterList, MapInv, AnyLoader
  <2>5. FirstLoad
    BY <2>3, LoopIsTask DEF Init, RegisterList, FirstLoad, loc
  <2> QED BY <2>4, <2>5
<1>2. MapInv /\ FirstLoad => CurrentRegLoaded
  BY DEF MapInv, FirstLoad, CurrentRegLoaded
<1> QED BY <1>1, <1>2, MapStep, PTL DEF Spec
=============================================================================
