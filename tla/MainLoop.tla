------------------------------ MODULE MainLoop ------------------------------
(***************************************************************************)
(* loop() of main.cpp as a schedule: in each pass it ticks three timers    *)
(* (MultiTimer.cpp), runs the handler of at most one message, reads at     *)
(* most one byte of the waypoint reader, takes one command from the queue  *)
(* of decoder functions if the 200 ms timer has expired, and runs          *)
(* Throttle::loop if the one-second timer has.  What the handlers do is    *)
(* the subject of the other modules; here they push 0 to MaxPush commands. *)
(*                                                                         *)
(* millis() is a counter that wraps, and goes on between any two readings: *)
(* tick reads it once to test the interval and again to store the start of *)
(* the next one.  `age` is a history variable, the time since the start    *)
(* each timer has stored was read; `recent` is another, the last bytes     *)
(* read as far as they begin or make a frame, and `framed` the waypoints   *)
(* that arrived between START and END.                                     *)
(***************************************************************************)
EXTENDS UartReader, Sequences

CONSTANTS Interval,   \* per timer, in units of time
          Wrap,       \* millis() counts modulo Wrap
          MaxPass,    \* bound of the time the handlers of one pass take
          MaxRead,    \* bound of the time between two readings of millis() in tick
          MaxPush,    \* commands a message, or Throttle::loop, pushes at most
          MaxQueue,   \* bound of the queue, which has none in the code
          Bytes       \* what arrives at the serial port

Timers == {"timer1sec", "timer200ms", "timerMCL"}

\* The longest time between two tests of the same timer.
Round == MaxPass + 5 * MaxRead

ASSUME LoopAssumption ==
  /\ Interval \in [Timers -> Nat \ {0}]
  /\ MaxPass \in Nat \ {0} /\ MaxRead \in Nat /\ Wrap \in Nat
  /\ \A t \in Timers : Interval[t] + Round <= Wrap
  /\ MaxPush \in Nat /\ MaxQueue \in Nat /\ Bytes \subseteq 0..255

VARIABLES now, start, expired,    \* millis(), and _startMillis and expired of each timer
          turn,                   \* the timer loop() ticks next, or "handlers"
          due,                    \* tick found the interval over, its start not stored yet
          queue,                  \* commands waiting in commandFifo
          calls,                  \* do messages and the brakes still push commands?
          uart, age, recent, framed

timing == <<now, start, expired, turn, due, age>>
vars == <<now, start, expired, turn, due, queue, calls, uart, age, recent, framed>>

Since(n, t) == (n - start[t]) % Wrap      \* unsigned subtraction

Init ==
  /\ now = 0 /\ start = [t \in Timers |-> 0] /\ expired = [t \in Timers |-> FALSE]
  /\ turn = "timer1sec" /\ due = FALSE
  /\ queue = 0 /\ calls = TRUE /\ uart = NewReader
  /\ age = [t \in Timers |-> 0] /\ recent = <<>> /\ framed = {}

After == [timer1sec |-> "timer200ms", timer200ms |-> "timerMCL", timerMCL |-> "handlers"]
Clock(d) == now' = (now + d) % Wrap

\* Mutant of TestTimer: the end of the interval is compared with millis().
TestTimerAbsolute(d) ==
  /\ turn \in Timers /\ ~due
  /\ Clock(d) /\ age' = [t \in Timers |-> age[t] + d]
  /\ due' = (now' >= start[turn] + Interval[turn])
  /\ expired' = [expired EXCEPT ![turn] = due']
  /\ turn' = IF due' THEN turn ELSE After[turn]
  /\ UNCHANGED <<start, queue, calls, uart, recent, framed>>

\* MultiTimer::tick: the interval is tested, and if it is over, its next start
\* is what millis() says by then.
TestTimer(d) ==
  /\ turn \in Timers /\ ~due
  /\ Clock(d) /\ age' = [t \in Timers |-> age[t] + d]
  /\ due' = (Since(now', turn) >= Interval[turn])
  /\ expired' = [expired EXCEPT ![turn] = due']
  /\ turn' = IF due' THEN turn ELSE After[turn]
  /\ UNCHANGED <<start, queue, calls, uart, recent, framed>>

StoreStart(d) ==
  /\ due /\ due' = FALSE
  /\ Clock(d) /\ start' = [start EXCEPT ![turn] = now']
  /\ age' = [t \in Timers |-> IF t = turn THEN 0 ELSE age[t] + d]
  /\ turn' = After[turn]
  /\ UNCHANGED <<expired, queue, calls, uart, recent, framed>>

\* UartReader::check: at most one byte.
Frame(bytes) ==
  Len(bytes) = 3 /\ bytes[1] = StartSync /\ IsData(bytes[2]) /\ bytes[3] = EndSync

Follow(bytes, byte) ==
  CASE byte = StartSync -> <<byte>>
    [] Len(bytes) = 1 /\ IsData(byte) -> Append(bytes, byte)
    [] Len(bytes) = 2 /\ byte = EndSync -> Append(bytes, byte)
    [] OTHER -> <<>>

Read ==
  \/ UNCHANGED <<uart, recent, framed>>
  \/ \E byte \in Bytes :
       /\ uart' = Check(uart, byte)
       /\ recent' = Follow(recent, byte)
       /\ framed' = IF Frame(recent') THEN framed \union {recent'[2]} ELSE framed

\* Mutant of Serve: the queue is served only when something is behind its head.
ServeButLast(message, second) ==
  LET arrived == queue + message
      left == IF expired["timer200ms"] /\ arrived > 1 THEN arrived - 1 ELSE arrived
  IN  /\ message + second > 0 => calls
      /\ second > 0 => expired["timer1sec"]
      /\ queue' = left + second /\ left + second <= MaxQueue

\* The message's commands, one command out, and those of Throttle::loop.
Serve(message, second) ==
  LET arrived == queue + message
      left == IF expired["timer200ms"] /\ arrived > 0 THEN arrived - 1 ELSE arrived
  IN  /\ message + second > 0 => calls
      /\ second > 0 => expired["timer1sec"]
      /\ queue' = left + second /\ left + second <= MaxQueue

\* The rest of a pass, d long.
Handlers(d) ==
  /\ turn = "handlers" /\ turn' = "timer1sec"
  /\ Clock(d) /\ age' = [t \in Timers |-> age[t] + d]
  /\ Read
  /\ \E message, second \in 0..MaxPush : Serve(message, second)
  /\ UNCHANGED <<start, expired, due, calls>>

\* No more messages come, and the brakes are left alone.
Settle ==
  /\ calls /\ calls' = FALSE
  /\ UNCHANGED <<timing, queue, uart, recent, framed>>

Loop ==
  \/ \E d \in 0..MaxRead : TestTimer(d) \/ StoreStart(d)
  \/ \E d \in 0..MaxPass : Handlers(d)

Next == Settle \/ Loop

\* loop() is called again and again, and time passes: it is not for ever that
\* passes take no time at all.
Spec == /\ Init /\ [][Next]_vars
        /\ WF_vars(Loop) /\ SF_vars(\E d \in 1..MaxPass : Handlers(d))

-----------------------------------------------------------------------------
(* Properties.                                                             *)

\* Every variable keeps its type.
LoopTypeOK ==
  /\ now \in 0..Wrap - 1 /\ start \in [Timers -> 0..Wrap - 1]
  /\ expired \in [Timers -> BOOLEAN] /\ queue \in 0..MaxQueue /\ calls \in BOOLEAN
  /\ uart.stage \in 0..2 /\ uart.counter \in 0..1
  /\ uart.currentPOL \in 0..255 /\ uart.candidate \in 0..255
  /\ turn \in Timers \union {"handlers"} /\ due \in BOOLEAN
  /\ age \in [Timers -> Nat] /\ Len(recent) <= 3 /\ framed \subseteq Bytes

\* A timer is found expired in exactly those passes of loop() in which its
\* interval has gone by since the start it has stored, also when millis() wraps
\* in between or the interval is over several times; and it is never found
\* later than one round of loop() after that.  (Nothing is caught up: what went
\* by between the end of the interval and the new start is lost, so that a
\* second that is not noticed in time is skipped.)
TimersExact ==
  [][\A t \in Timers : turn = t /\ ~due /\ <<turn, due>>' # <<turn, due>> =>
       /\ expired'[t] <=> age'[t] >= Interval[t]
       /\ age'[t] < Interval[t] + Round]_vars

\* What was pushed reaches the decoder once the handlers stop pushing.
QueueDrains == ~calls ~> queue = 0

\* The reader understands frames and nothing else: whatever garbage came
\* before, it has the waypoint of a frame that is complete, and neither its
\* position nor a report ever names a byte that was not in a frame.
FramesUnderstood ==
  /\ Frame(recent) => uart.candidate = recent[2]
  /\ uart.currentPOL \in framed \union {0}
  /\ uart.reported # None => uart.reported[1] \in framed

\* What is handed to the throttle is the waypoint just read ("If waypoint is
\* detected, provide to throttle object for further use", UartReader.cpp).
ReportsTheWaypointRead == uart.reported # None => uart.reported[1] = uart.candidate % 128
=============================================================================
