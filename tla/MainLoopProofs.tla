--------------------------- MODULE MainLoopProofs ---------------------------
(***************************************************************************)
(* Theorems about MainLoop: the timers are exact although millis() wraps   *)
(* and goes on while they are ticked, for any intervals, width of the      *)
(* counter and length of a pass, and the waypoint reader understands       *)
(* frames and nothing else, for any bytes.                                 *)
(***************************************************************************)
EXTENDS MainLoop, SequenceTheorems, TLAPS

-----------------------------------------------------------------------------
(* Unsigned subtraction.                                                   *)

LEMMA ModSmall == ASSUME NEW w \in Nat \ {0}, NEW x \in 0..(w - 1) PROVE x % w = x
  BY SMT
LEMMA ModZero == ASSUME NEW w \in Nat \ {0}, NEW x \in Int PROVE (x - x) % w = 0
  BY SMT
LEMMA ModOver ==
  ASSUME NEW w \in Nat \ {0}, NEW x \in Nat, w <= x, x < w + w PROVE x % w = x - w
  BY SMT
LEMMA ModUnder == ASSUME NEW w \in Nat \ {0}, NEW x \in -w..-1 PROVE x % w = x + w
  BY SMT

\* The difference of a counter that went on by d and an earlier value of it.
LEMMA Elapsed ==
  ASSUME NEW w \in Nat \ {0}, NEW n \in 0..(w - 1), NEW s \in 0..(w - 1), NEW d \in Nat,
         ((n - s) % w) + d < w
  PROVE  /\ (n + d) % w \in 0..(w - 1)
         /\ (((n + d) % w) - s) % w = ((n - s) % w) + d
<1> DEFINE e == (n - s) % w
           m == (n + d) % w
<1>1. \/ n >= s /\ e = n - s
      \/ n < s /\ e = n - s + w
  BY ModSmall, ModUnder
<1>2. d < w
  BY <1>1
<1>3. \/ n + d < w /\ m = n + d
      \/ n + d >= w /\ m = n + d - w
  <2>1. CASE n + d < w
    <3>1. n + d \in 0..(w - 1)
      BY <2>1
    <3> QED BY <2>1, <3>1, ModSmall
  <2>2. CASE n + d >= w
    <3>1. n + d \in Nat /\ w <= n + d /\ n + d < w + w
      BY <1>2, <2>2
    <3>2. (n + d) % w = n + d - w
      BY <3>1, ModOver
    <3> QED BY <2>2, <3>2
  <2> QED BY <2>1, <2>2
<1>4. m \in 0..(w - 1)
  BY <1>2, <1>3
<1>5. \/ m - s = e + d
      \/ m - s = e + d - w
  BY <1>1, <1>2, <1>3
<1>6. (m - s) % w = e + d
  <2> HIDE DEF m, e
  <2>0. e \in Int /\ e + d \in 0..(w - 1) /\ m - s \in Int
    BY <1>1, <1>4 DEF e
  <2>1. CASE m - s = e + d
    BY <2>0, <2>1, ModSmall
  <2>2. CASE m - s = e + d - w
    <3>1. m - s \in -w..-1
      BY <2>0, <2>2
    <3>2. (m - s) % w = m - s + w
      BY <3>1, ModUnder
    <3> QED BY <2>0, <2>2, <3>2
  <2> QED BY <1>5, <2>1, <2>2
<1> QED BY <1>4, <1>6

-----------------------------------------------------------------------------
(* The timers.                                                             *)

\* The time that may have gone by since a timer was tested last, by whose turn
\* it is: two readings of the clock for each timer in between, and the handlers.
Slack ==
  [timer1sec |-> [timer200ms |-> 0, timerMCL |-> 2 * MaxRead, handlers |-> 4 * MaxRead,
                  timer1sec |-> MaxPass + 4 * MaxRead],
   timer200ms |-> [timerMCL |-> 0, handlers |-> 2 * MaxRead,
                   timer1sec |-> MaxPass + 2 * MaxRead, timer200ms |-> MaxPass + 4 * MaxRead],
   timerMCL |-> [handlers |-> 0, timer1sec |-> MaxPass, timer200ms |-> MaxPass + 2 * MaxRead,
                 timerMCL |-> MaxPass + 4 * MaxRead]]

\* The age of a timer is what unsigned subtraction makes of its start, and less
\* than its interval when it was tested last.
TimerInv ==
  /\ now \in 0..(Wrap - 1) /\ start \in [Timers -> 0..(Wrap - 1)]
  /\ age \in [Timers -> Nat] /\ expired \in [Timers -> BOOLEAN]
  /\ turn \in Timers \union {"handlers"} /\ due \in BOOLEAN /\ (due => turn \in Timers)
  /\ \A t \in Timers :
       /\ age[t] = Since(now, t)
       /\ age[t] < Interval[t] + Slack[t][turn] + (IF due THEN MaxRead ELSE 0)

LEMMA WidthPositive ==
  /\ Wrap \in Nat \ {0} /\ MaxPass \in Nat /\ MaxRead \in Nat
  /\ \A t \in Timers : Interval[t] \in Nat \ {0} /\ Interval[t] + MaxPass + 5 * MaxRead <= Wrap
  BY LoopAssumption DEF Timers, Round

LEMMA TimerInit == Init => TimerInv
<1> SUFFICES ASSUME Init PROVE TimerInv
  OBVIOUS
<1>1. (0 - 0) % Wrap = 0
  BY WidthPositive, ModSmall
<1>2. \A t \in Timers : Slack[t]["timer1sec"] \in Nat
  BY WidthPositive DEF Slack, Timers
<1>3. "timer1sec" \in Timers
  BY DEF Timers
<1>4. /\ now = 0 /\ start = [t \in Timers |-> 0] /\ expired = [t \in Timers |-> FALSE]
      /\ turn = "timer1sec" /\ due = FALSE /\ age = [t \in Timers |-> 0]
  BY Zenon DEF Init
<1>5. \A t \in Timers : age[t] < Interval[t] + Slack[t][turn] + (IF due THEN MaxRead ELSE 0)
  BY <1>2, <1>4, WidthPositive
<1>6. \A t \in Timers : age[t] = Since(now, t)
  BY <1>1, <1>4 DEF Since
<1>7. now \in 0..(Wrap - 1) /\ start \in [Timers -> 0..(Wrap - 1)] /\ age \in [Timers -> Nat]
  BY <1>4, WidthPositive
<1> QED BY <1>3, <1>4, <1>5, <1>6, <1>7 DEF TimerInv

\* The clock goes on by less than it would take to wrap past a start.
LEMMA ClockOn ==
  ASSUME TimerInv, NEW d \in Nat, Clock(d), NEW t \in Timers, age[t] + d < Wrap
  PROVE  now' \in 0..(Wrap - 1) /\ Since(now', t) = age[t] + d
<1>1. ((now - start[t]) % Wrap) + d < Wrap
  BY DEF TimerInv, Since
<1>2. start[t] \in 0..(Wrap - 1) /\ now \in 0..(Wrap - 1)
  BY DEF TimerInv
<1>3. /\ (now + d) % Wrap \in 0..(Wrap - 1)
      /\ (((now + d) % Wrap) - start[t]) % Wrap = ((now - start[t]) % Wrap) + d
  BY <1>1, <1>2, WidthPositive, Elapsed
<1> QED BY <1>3 DEF TimerInv, Clock, Since

LEMMA ClockRange ==
  ASSUME TimerInv, NEW d \in Nat, Clock(d) PROVE now' \in 0..(Wrap - 1)
<1>1. now \in Nat
  BY WidthPositive DEF TimerInv
<1>2. (now + d) % Wrap \in 0..(Wrap - 1)
  BY <1>1, WidthPositive, SMT
<1> QED BY <1>2 DEF Clock

\* How the slack grows from one turn to the next.
LEMMA SlackGrows ==
  ASSUME NEW t \in Timers, NEW u \in Timers
  PROVE  /\ Slack[t][u] \in 0..(MaxPass + 4 * MaxRead)
         /\ t # u => Slack[t][u] + 2 * MaxRead <= Slack[t][After[u]]
         /\ t = u => Slack[t][After[u]] = 0
         /\ Slack[t][After[u]] \in Nat /\ After[u] \in Timers \union {"handlers"}
         /\ Slack[t]["handlers"] \in 0..(4 * MaxRead)
         /\ Slack[t]["handlers"] + MaxPass <= Slack[t]["timer1sec"]
  BY WidthPositive DEF Slack, Timers, After

\* A test: exact, and in time.
LEMMA TestStep ==
  ASSUME TimerInv, NEW d \in 0..MaxRead, TestTimer(d)
  PROVE  /\ TimerInv'
         /\ expired'[turn] <=> age'[turn] >= Interval[turn]
         /\ age'[turn] < Interval[turn] + Round
<1>1. /\ turn \in Timers /\ due = FALSE /\ d \in Nat /\ d <= MaxRead
      /\ now' \in 0..(Wrap - 1) /\ start' = start
  BY WidthPositive, ClockRange DEF TestTimer, TimerInv
<1>2. ASSUME NEW t \in Timers
      PROVE  /\ age'[t] = age[t] + d /\ age'[t] = Since(now', t) /\ age'[t] \in Nat
             /\ age'[t] < Interval[t] + Slack[t][turn] + MaxRead
             /\ age'[t] < Interval[t] + Round
  <2>1. age[t] \in Nat /\ age[t] < Interval[t] + Slack[t][turn]
    BY <1>1, SlackGrows, WidthPositive DEF TimerInv
  <2>2. age[t] + d < Interval[t] + MaxPass + 5 * MaxRead
    BY <1>1, <2>1, SlackGrows, WidthPositive
  <2>3. Since(now', t) = age[t] + d
    BY <1>1, <2>1, <2>2, WidthPositive, ClockOn DEF TestTimer
  <2>4. age'[t] = age[t] + d
    BY DEF TestTimer
  <2> QED BY <1>1, <2>1, <2>2, <2>3, <2>4, SlackGrows, WidthPositive DEF Round
<1>3. /\ due' = (Since(now', turn) >= Interval[turn])
      /\ expired' = [expired EXCEPT ![turn] = due']
      /\ turn' = IF due' THEN turn ELSE After[turn]
      /\ age' = [t \in Timers |-> age[t] + d]
  BY DEF TestTimer
<1>4. /\ due' \in BOOLEAN /\ expired'[turn] = due'
      /\ expired' \in [Timers -> BOOLEAN]
  <2>1. ASSUME NEW x, NEW y PROVE (x >= y) \in BOOLEAN
    OBVIOUS
  <2> QED BY <1>1, <1>3, <2>1 DEF TimerInv
<1>5. due' <=> age'[turn] >= Interval[turn]
  BY <1>1, <1>2, <1>3
<1>6. age' \in [Timers -> Nat]
  BY <1>2, <1>3
<1>7. ASSUME NEW t \in Timers
      PROVE  age'[t] < Interval[t] + Slack[t][turn'] + (IF due' THEN MaxRead ELSE 0)
  <2>1. CASE due'
    BY <1>2, <1>3, <2>1
  <2>2. CASE ~due'
    <3>1. turn' = After[turn]
      BY <1>3, <2>2
    <3>2. CASE t = turn
      <4>1. age'[t] < Interval[t] /\ Slack[t][turn'] = 0
        BY <1>1, <1>2, <1>5, <2>2, <3>1, <3>2, SlackGrows, WidthPositive
      <4> QED BY <2>2, <4>1, WidthPositive
    <3>3. CASE t # turn
      <4>1. Slack[t][turn] + 2 * MaxRead <= Slack[t][turn'] /\ Slack[t][turn] \in Nat
            /\ Slack[t][turn'] \in Nat
        BY <1>1, <3>1, <3>3, SlackGrows, WidthPositive
      <4> QED BY <1>2, <2>2, <4>1, WidthPositive
    <3> QED BY <3>2, <3>3
  <2> QED BY <2>1, <2>2
<1>8. turn' \in Timers \union {"handlers"} /\ (due' => turn' \in Timers)
  BY <1>1, <1>3, SlackGrows
<1>9. TimerInv'
  BY <1>1, <1>2, <1>4, <1>6, <1>7, <1>8 DEF TimerInv, Since
<1> QED BY <1>1, <1>2, <1>4, <1>5, <1>9

LEMMA StoreStep ==
  ASSUME TimerInv, NEW d \in 0..MaxRead, StoreStart(d)
  PROVE  TimerInv'
<1>1. /\ turn \in Timers /\ due = TRUE /\ d \in Nat /\ d <= MaxRead
      /\ now' \in 0..(Wrap - 1) /\ start' = [start EXCEPT ![turn] = now']
      /\ due' = FALSE /\ turn' = After[turn] /\ expired' = expired
      /\ age' = [t \in Timers |-> IF t = turn THEN 0 ELSE age[t] + d]
  BY WidthPositive, ClockRange DEF StoreStart, TimerInv
<1>2. ASSUME NEW t \in Timers
      PROVE  /\ age'[t] \in Nat /\ age'[t] = (now' - start'[t]) % Wrap
             /\ age'[t] < Interval[t] + Slack[t][turn']
  <2>1. CASE t = turn
    <3>1. start'[t] = now'
      BY <1>1, <2>1 DEF TimerInv
    <3>2. (now' - now') % Wrap = 0
      <4>1. now' \in Int
        BY <1>1, WidthPositive
      <4> QED BY <4>1, WidthPositive, ModZero
    <3>3. Slack[t][turn'] = 0
      BY <1>1, <2>1, SlackGrows
    <3> QED BY <1>1, <2>1, <3>1, <3>2, <3>3, WidthPositive
  <2>2. CASE t # turn
    <3>1. age[t] \in Nat /\ age[t] < Interval[t] + Slack[t][turn] + MaxRead
      BY <1>1 DEF TimerInv
    <3>2. /\ Slack[t][turn] + 2 * MaxRead <= Slack[t][turn']
          /\ Slack[t][turn] \in Nat /\ Slack[t][turn'] \in 0..(MaxPass + 4 * MaxRead)
      <4>1. After[turn] = "handlers" \/ After[turn] \in Timers
        BY <1>1, SlackGrows
      <4>2. Slack[t]["handlers"] \in 0..(MaxPass + 4 * MaxRead)
        BY SlackGrows, WidthPositive
      <4> QED BY <1>1, <2>2, <4>1, <4>2, SlackGrows, WidthPositive
    <3>3. age[t] + d < Interval[t] + Slack[t][turn'] /\ age[t] + d < Wrap
      BY <1>1, <3>1, <3>2, WidthPositive
    <3>4. Since(now', t) = age[t] + d
      BY <1>1, <3>1, <3>3, ClockOn DEF StoreStart
    <3>5. start'[t] = start[t] /\ age'[t] = age[t] + d
      BY <1>1, <2>2 DEF TimerInv
    <3> QED BY <1>1, <3>1, <3>3, <3>4, <3>5 DEF Since
  <2> QED BY <2>1, <2>2
<1>3. start' \in [Timers -> 0..(Wrap - 1)] /\ age' \in [Timers -> Nat]
  BY <1>1, <1>2 DEF TimerInv
<1>4. turn' \in Timers \union {"handlers"} /\ \A t \in Timers : Slack[t][turn'] \in Nat
  BY <1>1, SlackGrows
<1>5. \A t \in Timers : /\ age'[t] = (now' - start'[t]) % Wrap
                         /\ age'[t] < Interval[t] + Slack[t][turn'] + (IF due' THEN MaxRead ELSE 0)
  BY <1>1, <1>2, <1>4, WidthPositive
<1> QED BY <1>1, <1>3, <1>4, <1>5 DEF TimerInv, Since

LEMMA HandlersStep ==
  ASSUME TimerInv, NEW d \in 0..MaxPass, Handlers(d)
  PROVE  TimerInv'
<1>1. /\ turn = "handlers" /\ due = FALSE /\ due' = FALSE /\ turn' = "timer1sec"
      /\ d \in Nat /\ d <= MaxPass /\ now' \in 0..(Wrap - 1)
      /\ start' = start /\ expired' = expired
      /\ age' = [t \in Timers |-> age[t] + d]
  <2>1. d \in Nat /\ d <= MaxPass
    BY WidthPositive
  <2>2. turn \notin Timers
    BY DEF Handlers, Timers
  <2> QED BY <2>1, <2>2, ClockRange DEF Handlers, TimerInv
<1>2. ASSUME NEW t \in Timers
      PROVE  /\ age'[t] \in Nat /\ age'[t] = Since(now', t)
             /\ age'[t] < Interval[t] + Slack[t]["timer1sec"]
  <2>1. age[t] \in Nat /\ age[t] < Interval[t] + Slack[t]["handlers"]
    <3>1. Slack[t]["handlers"] \in Nat
      BY SlackGrows, WidthPositive
    <3> QED BY <1>1, <3>1, WidthPositive DEF TimerInv
  <2>2. /\ Slack[t]["handlers"] + MaxPass <= Slack[t]["timer1sec"]
        /\ Slack[t]["handlers"] \in 0..(4 * MaxRead)
        /\ Slack[t]["timer1sec"] \in Nat
    <3>1. "timer1sec" \in Timers
      BY DEF Timers
    <3>2. Slack[t]["timer1sec"] \in 0..(MaxPass + 4 * MaxRead)
      BY <3>1, SlackGrows
    <3>3. /\ Slack[t]["handlers"] + MaxPass <= Slack[t]["timer1sec"]
          /\ Slack[t]["handlers"] \in 0..(4 * MaxRead)
      BY <3>1, SlackGrows
    <3> QED BY <3>2, <3>3, WidthPositive
  <2>3. age[t] + d < Interval[t] + Slack[t]["timer1sec"] /\ age[t] + d < Wrap
    BY <1>1, <2>1, <2>2, WidthPositive
  <2>4. Since(now', t) = age[t] + d
    BY <1>1, <2>1, <2>3, ClockOn DEF Handlers
  <2> QED BY <1>1, <2>1, <2>3, <2>4
<1>3. age' \in [Timers -> Nat] /\ "timer1sec" \in Timers
  BY <1>1, <1>2 DEF Timers
<1>4. \A t \in Timers : /\ age'[t] = Since(now', t)
                         /\ age'[t] < Interval[t] + Slack[t][turn'] + (IF due' THEN MaxRead ELSE 0)
  <2>1. ASSUME NEW t \in Timers PROVE Interval[t] + Slack[t]["timer1sec"] \in Int
    <3>1. Slack[t]["timer1sec"] \in 0..(MaxPass + 4 * MaxRead)
      BY <1>3, SlackGrows
    <3> QED BY <3>1, WidthPositive
  <2> QED BY <1>1, <1>2, <2>1
<1> QED BY <1>1, <1>3, <1>4 DEF TimerInv, Since

LEMMA TimerNext == TimerInv /\ [Next]_vars => TimerInv'
<1> SUFFICES ASSUME TimerInv, [Next]_vars PROVE TimerInv'
  OBVIOUS
<1>1. CASE UNCHANGED timing
  BY <1>1 DEF TimerInv, Since, timing
<1>2. ASSUME NEW d \in 0..MaxRead, TestTimer(d) \/ StoreStart(d) PROVE TimerInv'
  BY <1>2, TestStep, StoreStep
<1>3. ASSUME NEW d \in 0..MaxPass, Handlers(d) PROVE TimerInv'
  BY <1>3, HandlersStep
<1> QED BY <1>1, <1>2, <1>3 DEF Next, Loop, Settle, vars, timing

\* tick() finds a timer expired in exactly the passes in which its interval has
\* gone by since its stored start, and at most a round of loop() late, for
\* every interval, width of millis(), length of a pass and delay between the
\* two readings of MultiTimer.cpp:11 and 13.
THEOREM ExactTimers == Spec => TimersExact
<1>1. TimerInv /\ [Next]_vars =>
        [\A t \in Timers : turn = t /\ ~due /\ <<turn, due>>' # <<turn, due>> =>
           /\ expired'[t] <=> age'[t] >= Interval[t]
           /\ age'[t] < Interval[t] + Round]_vars
  <2> SUFFICES ASSUME TimerInv, Next, turn \in Timers, ~due, <<turn, due>>' # <<turn, due>>
               PROVE  /\ expired'[turn] <=> age'[turn] >= Interval[turn]
                      /\ age'[turn] < Interval[turn] + Round
    OBVIOUS
  <2>1. turn # "handlers"
    BY DEF Timers
  <2>2. PICK d \in 0..MaxRead : TestTimer(d)
    BY <2>1 DEF Next, Loop, Settle, timing, StoreStart, Handlers
  <2> QED BY <2>2, TestStep
<1> QED BY <1>1, TimerInit, TimerNext, PTL DEF Spec, TimersExact

-----------------------------------------------------------------------------
(* The reader of waypoints.                                                *)

\* The bytes remembered are the beginning of a frame, the reader's stage
\* tells how far it is, and a candidate that waits for END is either the byte
\* of that beginning or was in a frame before (a frame is repeated by END).
ReaderInv ==
  /\ recent \in Seq(0..255) /\ Len(recent) <= 3
  /\ Len(recent) >= 1 => recent[1] = StartSync
  /\ Len(recent) >= 2 => IsData(recent[2])
  /\ Len(recent) = 3 => recent[3] = EndSync
  /\ uart.stage = 1 <=> Len(recent) = 1
  /\ Len(recent) = 2 => uart.stage = 2
  /\ Len(recent) >= 2 => uart.candidate = recent[2]
  /\ uart.stage = 2 => Len(recent) = 2 \/ uart.candidate \in framed
  /\ uart.currentPOL \in framed \union {0}
  /\ \/ uart.reported = None
     \/ uart.currentPOL \in framed /\ uart.reported[1] = uart.currentPOL

\* The fields of a reader; what it may report is left open.
IsReader(r) ==
  /\ DOMAIN r = {"currentPOL", "stage", "candidate", "counter", "reported"}
  /\ r.stage \in 0..2 /\ r.counter \in Nat
  /\ r.currentPOL \in 0..255 /\ r.candidate \in 0..255

LEMMA ReaderInit == Init => IsReader(uart) /\ ReaderInv
<1> SUFFICES ASSUME Init PROVE IsReader(uart) /\ ReaderInv
  OBVIOUS
<1>1. uart = NewReader /\ recent = <<>> /\ framed = {}
  BY DEF Init
<1>2. recent \in Seq(0..255) /\ Len(recent) = 0
  BY <1>1
<1>3. IsReader(uart)
  BY <1>1 DEF NewReader, IsReader
<1> QED BY <1>1, <1>2, <1>3 DEF NewReader, ReaderInv

\* c is the reader r after one byte: in step with a START, a waypoint byte and
\* an END, and with a new waypoint only at an END.
Effect(r, byte, c) ==
  /\ IsReader(c)
  /\ byte = StartSync => c.stage = 1
  /\ byte # StartSync => c.stage # 1
  /\ byte # StartSync /\ r.stage = 1 /\ IsData(byte) =>
       c.stage = 2 /\ c.candidate = byte
  /\ byte # StartSync /\ r.stage = 1 /\ ~IsData(byte) => c.stage = 0
  /\ c.stage = 2 /\ r.stage # 1 =>
       r.stage = 2 /\ byte = EndSync /\ c.candidate = r.candidate
  /\ r.stage = 2 /\ byte = EndSync => c.candidate = r.candidate
  /\ \/ c.currentPOL = r.currentPOL
     \/ /\ r.stage = 2 /\ byte = EndSync
        /\ c.currentPOL = r.candidate
  /\ \/ c.reported = None
     \/ /\ c.currentPOL = r.currentPOL /\ r.currentPOL # 0
        /\ c.reported[1] = r.currentPOL

\* What one byte does to the reader.
LEMMA CheckEffect ==
  ASSUME NEW r, IsReader(r), NEW byte \in 0..255
  PROVE  Effect(r, byte, Check(r, byte))
<1> DEFINE s == [r EXCEPT !.reported = None]
<1>1. IsReader(s) /\ s.stage = r.stage /\ s.candidate = r.candidate
      /\ s.currentPOL = r.currentPOL /\ s.reported = None /\ s.counter = r.counter
  BY DEF IsReader, None
<1> HIDE DEF s
<1> USE DEF Effect
<1>2. CASE byte = StartSync
  <2>1. Check(r, byte) = [s EXCEPT !.stage = 1]
    BY <1>2 DEF Check, s, StartSync, EndSync
  <2> QED BY <1>1, <1>2, <2>1 DEF IsReader, StartSync, EndSync
<1>3. CASE byte # StartSync /\ r.stage = 1
  <2>1. Check(r, byte) = TakeByte(s, byte)
    BY <1>1, <1>3 DEF Check, s
  <2>2. CASE IsData(byte)
    <3>1. Check(r, byte) = [s EXCEPT !.candidate = byte, !.stage = 2]
      BY <2>1, <2>2 DEF TakeByte
    <3> QED BY <1>1, <1>3, <2>2, <3>1 DEF IsReader, IsData
  <2>3. CASE ~IsData(byte)
    <3>1. Check(r, byte) = [s EXCEPT !.candidate = 0, !.stage = 0, !.counter = 0]
      BY <2>1, <2>3 DEF TakeByte
    <3> QED BY <1>1, <1>3, <2>3, <3>1 DEF IsReader
  <2> QED BY <2>2, <2>3
<1>4. CASE byte = EndSync /\ r.stage = 2
  <2>1. Check(r, byte) = TakeEnd(s)
    BY <1>1, <1>4 DEF Check, s, StartSync, EndSync
  <2>2. CASE s.candidate = s.currentPOL
    <3>1. Check(r, byte) = [s EXCEPT !.stage = 0, !.counter = 0]
      BY <2>1, <2>2 DEF TakeEnd
    <3>2. /\ IsReader(Check(r, byte)) /\ Check(r, byte).stage = 0
          /\ Check(r, byte).candidate = s.candidate
          /\ Check(r, byte).currentPOL = s.currentPOL /\ Check(r, byte).reported = None
      BY <1>1, <3>1 DEF IsReader
    <3> QED BY <1>1, <1>4, <3>2 DEF StartSync, EndSync
  <2>3. CASE s.candidate # s.currentPOL /\ s.counter # 1
    <3>1. Check(r, byte) = [s EXCEPT !.counter = (@ + 1) % 256]
      BY <2>1, <2>3 DEF TakeEnd
    <3>2. (s.counter + 1) % 256 \in Nat
      BY <1>1 DEF IsReader
    <3>3. /\ IsReader(Check(r, byte)) /\ Check(r, byte).stage = s.stage
          /\ Check(r, byte).candidate = s.candidate
          /\ Check(r, byte).currentPOL = s.currentPOL /\ Check(r, byte).reported = None
      BY <1>1, <3>1, <3>2 DEF IsReader
    <3> QED BY <1>1, <1>4, <3>3 DEF StartSync, EndSync
  <2>4. CASE s.candidate # s.currentPOL /\ s.counter = 1
    <3> DEFINE counted == [s EXCEPT !.counter = 0]
    <3>1. \/ Check(r, byte) = counted
          \/ Check(r, byte) = [counted EXCEPT !.currentPOL = s.candidate]
          \/ /\ Check(r, byte) =
                  [counted EXCEPT !.reported = <<s.currentPOL, s.candidate \div 128>>]
             /\ s.currentPOL # 0
      BY <1>1, <2>1, <2>4 DEF TakeEnd, Truth, EndSync, IsReader
    <3>2. IsReader(counted) /\ counted.stage = 2 /\ counted.candidate = r.candidate
          /\ counted.currentPOL = r.currentPOL /\ counted.reported = None
      BY <1>1, <1>4 DEF IsReader
    <3> HIDE DEF counted
    <3>3. /\ IsReader(Check(r, byte)) /\ Check(r, byte).stage = 2
          /\ Check(r, byte).candidate = r.candidate
      BY <1>1, <3>1, <3>2 DEF IsReader
    <3>4. \/ Check(r, byte).currentPOL = r.currentPOL /\ Check(r, byte).reported = None
          \/ Check(r, byte).currentPOL = r.candidate /\ Check(r, byte).reported = None
          \/ /\ Check(r, byte).currentPOL = r.currentPOL /\ r.currentPOL # 0
             /\ Check(r, byte).reported[1] = r.currentPOL
      BY <1>1, <3>1, <3>2 DEF IsReader
    <3> QED BY <1>1, <1>4, <3>3, <3>4 DEF StartSync, EndSync
  <2> QED BY <2>2, <2>3, <2>4
<1>5. CASE byte \notin {StartSync, EndSync} /\ r.stage = 2
  <2>1. Check(r, byte) = [s EXCEPT !.candidate = 0, !.stage = 0]
    BY <1>1, <1>5 DEF Check, s, StartSync, EndSync
  <2> QED BY <1>1, <1>5, <2>1 DEF IsReader, StartSync, EndSync
<1>6. CASE byte # StartSync /\ r.stage = 0
  <2>1. Check(r, byte) = s
    BY <1>1, <1>6 DEF Check, s
  <2> QED BY <1>1, <1>6, <2>1 DEF EndSync, StartSync
<1>7. r.stage = 0 \/ r.stage = 1 \/ r.stage = 2
  <2>1. r.stage \in 0..2
    BY Zenon DEF IsReader
  <2> QED BY <2>1
<1> QED BY <1>2, <1>3, <1>4, <1>5, <1>6, <1>7, Zenon

\* What is remembered after one more byte.
LEMMA FollowEffect ==
  ASSUME ReaderInv, NEW byte \in 0..255, NEW next, next = Follow(recent, byte)
  PROVE  /\ byte = StartSync => next = <<byte>>
         /\ byte # StartSync /\ Len(recent) = 1 /\ IsData(byte) => next = Append(recent, byte)
         /\ byte = EndSync /\ Len(recent) = 2 => next = Append(recent, byte)
         /\ byte # StartSync /\ ~(Len(recent) = 1 /\ IsData(byte))
              /\ ~(byte = EndSync /\ Len(recent) = 2) => next = <<>>
  BY DEF Follow, IsData, StartSync, EndSync

\* A byte is appended to one byte, and to two.
LEMMA SecondOfTwo ==
  ASSUME NEW bytes, NEW byte, NEW next, Len(bytes) = 1, Len(next) = Len(bytes) + 1,
         next[Len(bytes) + 1] = byte, \A i \in 1..Len(bytes) : next[i] = bytes[i]
  PROVE  Len(next) = 2 /\ next[1] = bytes[1] /\ next[2] = byte
<1>1. Len(bytes) + 1 = 2 /\ 1 \in 1..Len(bytes)
  OBVIOUS
<1> QED BY <1>1

LEMMA ThirdOfThree ==
  ASSUME NEW bytes, NEW byte, NEW next, Len(bytes) = 2, Len(next) = Len(bytes) + 1,
         next[Len(bytes) + 1] = byte, \A i \in 1..Len(bytes) : next[i] = bytes[i]
  PROVE  Len(next) = 3 /\ next[1] = bytes[1] /\ next[2] = bytes[2] /\ next[3] = byte
<1>1. Len(bytes) + 1 = 3 /\ 1 \in 1..Len(bytes) /\ 2 \in 1..Len(bytes)
  OBVIOUS
<1> QED BY <1>1

LEMMA OneByte ==
  ASSUME NEW byte \in 0..255, NEW next, next = <<byte>>
  PROVE  next \in Seq(0..255) /\ Len(next) = 1 /\ next[1] = byte
  OBVIOUS

\* A byte and the reader: the beginning of the frame grows, or the reader is lost.
LEMMA ReaderRead ==
  ASSUME IsReader(uart), ReaderInv, Read
  PROVE  IsReader(uart)' /\ ReaderInv'
<1>1. CASE UNCHANGED <<uart, recent, framed>>
  BY <1>1 DEF IsReader, ReaderInv
<1>2. ASSUME NEW byte \in Bytes,
             uart' = Check(uart, byte), recent' = Follow(recent, byte),
             framed' = IF Frame(recent') THEN framed \union {recent'[2]} ELSE framed
      PROVE  IsReader(uart)' /\ ReaderInv'
  <2>1. byte \in 0..255
    BY LoopAssumption
  <2>7. Effect(uart, byte, uart')
    BY <1>2, <2>1, CheckEffect
  <2>2. IsReader(uart')
    BY <2>7 DEF Effect
  <2>3. CASE byte = StartSync
    <3>1. /\ recent' \in Seq(0..255) /\ Len(recent') = 1 /\ recent'[1] = StartSync
          /\ framed' = framed
      <4>1. recent' = <<byte>>
        BY <1>2, <2>1, <2>3, FollowEffect
      <4>2. recent' \in Seq(0..255) /\ Len(recent') = 1 /\ recent'[1] = byte
        BY <2>1, <4>1, OneByte
      <4>3. ~Frame(recent')
        BY <4>2 DEF Frame
      <4> QED BY <1>2, <2>3, <4>2, <4>3
    <3>2. uart'.stage = 1
      BY <2>3, <2>7 DEF Effect
    <3>3. /\ uart'.currentPOL = uart.currentPOL
          /\ uart'.reported = None \/ (uart.currentPOL # 0 /\ uart'.reported[1] = uart.currentPOL)
      BY <2>3, <2>7 DEF StartSync, EndSync, Effect
    <3> QED BY <2>2, <3>1, <3>2, <3>3 DEF ReaderInv
  <2>4. CASE byte # StartSync /\ Len(recent) = 1 /\ IsData(byte)
    <3>1. /\ recent' \in Seq(0..255) /\ Len(recent') = 2
          /\ recent'[1] = StartSync /\ recent'[2] = byte /\ framed' = framed
      <4>1. recent' = Append(recent, byte)
        BY <1>2, <2>1, <2>4, FollowEffect
      <4>2. recent \in Seq(0..255)
        BY DEF ReaderInv
      <4>5. Len(recent) = 1 /\ recent[1] = StartSync
        BY <2>4 DEF ReaderInv
      <4>3. /\ recent' \in Seq(0..255) /\ Len(recent') = 2
            /\ recent'[1] = StartSync /\ recent'[2] = byte
        <5>1. /\ recent' \in Seq(0..255) /\ Len(recent') = Len(recent) + 1
              /\ recent'[Len(recent) + 1] = byte
              /\ \A i \in 1..Len(recent) : recent'[i] = recent[i]
          BY <2>1, <4>1, <4>2, AppendProperties
        <5>2. Len(recent') = 2 /\ recent'[1] = recent[1] /\ recent'[2] = byte
          BY <4>5, <5>1, SecondOfTwo
        <5> QED BY <4>5, <5>1, <5>2
      <4>4. ~Frame(recent')
        BY <4>3 DEF Frame
      <4> QED BY <1>2, <4>3, <4>4
    <3>2. uart'.stage = 2 /\ uart'.candidate = byte
      BY <2>4, <2>7 DEF ReaderInv, Effect
    <3>3. /\ uart'.currentPOL = uart.currentPOL
          /\ uart'.reported = None \/ (uart.currentPOL # 0 /\ uart'.reported[1] = uart.currentPOL)
      BY <2>4, <2>7 DEF IsData, Effect
    <3> QED BY <2>1, <2>2, <2>4, <3>1, <3>2, <3>3 DEF ReaderInv
  <2>5. CASE byte = EndSync /\ Len(recent) = 2
    <3> DEFINE b == recent[2]
    <3>1. IsData(b) /\ uart.stage = 2 /\ uart.candidate = b
      BY <2>5 DEF ReaderInv
    <3>2. /\ recent' \in Seq(0..255) /\ Len(recent') = 3 /\ recent'[1] = StartSync
          /\ recent'[2] = b /\ recent'[3] = EndSync /\ framed' = framed \union {b}
      <4>1. /\ recent' \in Seq(0..255) /\ Len(recent') = 3 /\ recent'[1] = StartSync
            /\ recent'[2] = b /\ recent'[3] = EndSync
        <5>1. recent' = Append(recent, byte)
          BY <1>2, <2>1, <2>5, FollowEffect
        <5>2. recent \in Seq(0..255)
          BY DEF ReaderInv
        <5>3. Len(recent) = 2 /\ recent[1] = StartSync
          BY <2>5 DEF ReaderInv
        <5>4. /\ recent' \in Seq(0..255) /\ Len(recent') = Len(recent) + 1
              /\ recent'[Len(recent) + 1] = byte
              /\ \A i \in 1..Len(recent) : recent'[i] = recent[i]
          BY <2>1, <5>1, <5>2, AppendProperties
        <5>5. /\ Len(recent') = 3 /\ recent'[1] = recent[1] /\ recent'[2] = recent[2]
              /\ recent'[3] = byte
          BY <5>3, <5>4, ThirdOfThree
        <5> QED BY <2>5, <5>3, <5>4, <5>5
      <4>2. Frame(recent')
        BY <3>1, <4>1 DEF Frame
      <4> QED BY <1>2, <4>1, <4>2
    <3>4. uart'.candidate = b /\ uart'.stage # 1
      BY <2>5, <3>1, <2>7 DEF StartSync, EndSync, Effect
    <3>5. /\ uart'.currentPOL \in {uart.currentPOL, b}
          /\ uart'.reported = None
             \/ (/\ uart'.currentPOL = uart.currentPOL /\ uart.currentPOL # 0
                 /\ uart'.reported[1] = uart.currentPOL)
      BY <3>1, <2>7 DEF Effect
    <3> QED BY <2>2, <3>1, <3>2, <3>4, <3>5 DEF ReaderInv
  <2>6. CASE /\ byte # StartSync /\ ~(Len(recent) = 1 /\ IsData(byte))
             /\ ~(byte = EndSync /\ Len(recent) = 2)
    <3>1. recent' = <<>> /\ framed' = framed
      <4>1. recent' = <<>>
        BY <1>2, <2>1, <2>6, FollowEffect
      <4>2. ~Frame(recent')
        BY <4>1 DEF Frame
      <4> QED BY <1>2, <4>1, <4>2
    <3>2. uart'.stage # 1
      BY <2>6, <2>7 DEF Effect
    <3>3. uart'.stage = 2 => uart'.candidate \in framed
      <4> SUFFICES ASSUME uart'.stage = 2 PROVE uart'.candidate \in framed
        OBVIOUS
      <4>1. uart.stage # 1
        <5> SUFFICES ASSUME uart.stage = 1 PROVE FALSE
          OBVIOUS
        <5>1. ~IsData(byte)
          BY <2>6 DEF ReaderInv
        <5>2. uart'.stage = 0
          BY <2>6, <5>1, <2>7 DEF Effect
        <5> QED BY <5>2
      <4>2. uart.stage = 2 /\ byte = EndSync /\ uart'.candidate = uart.candidate
        BY <4>1, <2>7 DEF Effect
      <4> QED BY <2>6, <4>2 DEF ReaderInv
    <3>4. /\ uart'.currentPOL \in framed \union {0}
          /\ uart'.reported = None
             \/ (uart'.currentPOL \in framed /\ uart'.reported[1] = uart'.currentPOL)
      <4>1. uart'.currentPOL = uart.currentPOL
            \/ (uart.stage = 2 /\ byte = EndSync /\ uart'.currentPOL = uart.candidate)
        BY <2>7 DEF Effect
      <4>2. uart'.reported = None
            \/ (/\ uart'.currentPOL = uart.currentPOL /\ uart.currentPOL # 0
                /\ uart'.reported[1] = uart.currentPOL)
        BY <2>7 DEF Effect
      <4> QED BY <2>6, <4>1, <4>2 DEF ReaderInv
    <3> QED BY <2>2, <3>1, <3>2, <3>3, <3>4 DEF ReaderInv
  <2> QED BY <2>3, <2>4, <2>5, <2>6
<1> QED BY <1>1, <1>2 DEF Read

LEMMA ReaderNext == IsReader(uart) /\ ReaderInv /\ [Next]_vars => IsReader(uart)' /\ ReaderInv'
<1>1. CASE UNCHANGED <<uart, recent, framed>>
  BY <1>1 DEF IsReader, ReaderInv
<1>2. CASE \E d \in 0..MaxPass : Handlers(d)
  BY <1>2, ReaderRead DEF Handlers
<1> QED BY <1>1, <1>2 DEF Next, Loop, Settle, TestTimer, StoreStart, vars

\* Whatever bytes arrive, the reader has the waypoint of every complete frame,
\* and names only waypoints that were framed (UartReader::check).
THEOREM ReaderUnderstands == Spec => []FramesUnderstood
<1>1. IsReader(uart) /\ ReaderInv => FramesUnderstood
  BY DEF ReaderInv, FramesUnderstood, Frame
<1> QED BY <1>1, ReaderInit, ReaderNext, PTL DEF Spec
=============================================================================
