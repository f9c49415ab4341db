------------------------- MODULE FunctionFifoProofs -------------------------
(***************************************************************************)
(* The decoder follows the commands pushed into the queue, for every       *)
(* assignment of numbers to roles and buttons, shared or out of range, and *)
(* every length of the queue.                                              *)
(***************************************************************************)
EXTENDS FunctionFifo, TLAPS

\* DecoderFollows for a queue q, the wanted functions w and the decoder's d.
Follows(q, w, d) ==
  \A f \in Functions :
    \/ d[f] = w[f] /\ \A i \in DOMAIN q : q[i].fn # f
    \/ \E i \in DOMAIN q : /\ q[i] = Cmd(f, w[f])
                           /\ \A j \in DOMAIN q : j > i => q[j].fn # f

States == [Functions -> BOOLEAN]

LEMMA RoleNumber == ASSUME NEW r \in Roles, NEW on \in BOOLEAN
                    PROVE  Cmd(Fn[r], on) \in Commands
BY DEF Cmd, Commands, Numbers

\* pushCommand keeps the type of the queue, and what the queue promises
\* becomes what is wanted.
LEMMA PushFollows ==
  ASSUME NEW q \in Seq(Commands), NEW w \in States, NEW d \in States,
         NEW c \in Commands, Follows(q, w, d)
  PROVE  /\ Append(q, c) \in Seq(Commands) /\ Want(w, c) \in States
         /\ Follows(Append(q, c), Want(w, c), d)
<1>1. c.on \in BOOLEAN /\ c = Cmd(c.fn, c.on)
  BY DEF Commands, Cmd
<1>2. Append(q, c) \in Seq(Commands) /\ Want(w, c) \in States
  BY <1>1 DEF Want, States
<1>3. ASSUME NEW f \in Functions
      PROVE  \/ d[f] = Want(w, c)[f]
                /\ \A i \in DOMAIN Append(q, c) : Append(q, c)[i].fn # f
             \/ \E i \in DOMAIN Append(q, c) :
                  /\ Append(q, c)[i] = Cmd(f, Want(w, c)[f])
                  /\ \A j \in DOMAIN Append(q, c) : j > i => Append(q, c)[j].fn # f
  <2> DEFINE n == Len(q) + 1
  <2>1. /\ DOMAIN Append(q, c) = 1..n /\ DOMAIN q = 1..(n - 1) /\ n \in Nat /\ n > 0
        /\ Append(q, c)[n] = c /\ \A i \in 1..(n - 1) : Append(q, c)[i] = q[i]
    OBVIOUS
  <2>2. CASE f = c.fn
    <3>1. Want(w, c)[f] = c.on
      BY <2>2 DEF Want, States
    <3>2. Append(q, c)[n] = Cmd(f, Want(w, c)[f])
      BY <1>1, <2>1, <2>2, <3>1
    <3> QED BY <2>1, <3>2
  <2>3. CASE f # c.fn
    <3>1. Want(w, c)[f] = w[f]
      BY <2>3 DEF Want, States
    <3>2. CASE d[f] = w[f] /\ \A i \in DOMAIN q : q[i].fn # f
      <4>1. ASSUME NEW i \in 1..n PROVE Append(q, c)[i].fn # f
        <5>1. CASE i = n BY <5>1, <2>1, <2>3
        <5>2. CASE i # n BY <5>2, <2>1, <3>2
        <5> QED BY <5>1, <5>2
      <4> QED BY <3>1, <3>2, <4>1, <2>1
    <3>3. CASE \E i \in DOMAIN q : /\ q[i] = Cmd(f, w[f])
                                   /\ \A j \in DOMAIN q : j > i => q[j].fn # f
      <4>1. PICK i \in DOMAIN q : /\ q[i] = Cmd(f, w[f])
                                  /\ \A j \in DOMAIN q : j > i => q[j].fn # f
        BY <3>3
      <4>2. i \in 1..n /\ Append(q, c)[i] = Cmd(f, Want(w, c)[f])
        BY <2>1, <3>1, <4>1
      <4>3. ASSUME NEW j \in 1..n, j > i PROVE Append(q, c)[j].fn # f
        <5>1. CASE j = n BY <5>1, <2>1, <2>3
        <5>2. CASE j # n BY <5>2, <2>1, <4>1, <4>3
        <5> QED BY <5>1, <5>2
      <4> QED BY <2>1, <4>2, <4>3
    <3> QED BY <3>2, <3>3 DEF Follows
  <2> QED BY <2>2, <2>3
<1> QED BY <1>2, <1>3 DEF Follows

\* The packet of a function carries it.
LEMMA OwnGroup == ASSUME NEW f \in 0..29 PROVE Grouped(f, f)
<1>1. \E span \in Spans : f \in span
  BY DEF Spans
<1> QED BY <1>1 DEF Grouped

\* Taking a command out of the queue and sending it keeps the promise.
LEMMA PopFollows ==
  ASSUME NEW q \in Seq(Commands), q # <<>>, NEW w \in States, NEW d \in States,
         NEW e \in States, Follows(q, w, d),
         e = IF Head(q).fn \in 0..28 THEN [d EXCEPT ![Head(q).fn] = Head(q).on] ELSE d
  PROVE  Follows(Tail(q), w, e)
<1> DEFINE n == Len(q)
<1>1. /\ n \in Nat /\ n > 0 /\ DOMAIN q = 1..n /\ DOMAIN Tail(q) = 1..(n - 1)
      /\ Head(q) = q[1] /\ \A i \in 1..(n - 1) : Tail(q)[i] = q[i + 1]
  OBVIOUS
<1>2. SUFFICES ASSUME NEW f \in Functions
               PROVE  \/ e[f] = w[f] /\ \A i \in 1..(n - 1) : Tail(q)[i].fn # f
                      \/ \E i \in 1..(n - 1) :
                           /\ Tail(q)[i] = Cmd(f, w[f])
                           /\ \A j \in 1..(n - 1) : j > i => Tail(q)[j].fn # f
  BY <1>1 DEF Follows
<1>3. f \in 0..28
  BY FunctionAssumption
<1>4. CASE d[f] = w[f] /\ \A i \in 1..n : q[i].fn # f
  <2>1. e[f] = d[f]
    BY <1>1, <1>4 DEF States
  <2>2. \A i \in 1..(n - 1) : Tail(q)[i].fn # f
    <3>1. \A i \in 1..(n - 1) : i + 1 \in 1..n
      BY <1>1
    <3> QED BY <1>1, <1>4, <3>1
  <2> QED BY <1>4, <2>1, <2>2
<1>5. CASE \E i \in 1..n : /\ q[i] = Cmd(f, w[f])
                           /\ \A j \in 1..n : j > i => q[j].fn # f
  <2>1. PICK i \in 1..n : /\ q[i] = Cmd(f, w[f])
                          /\ \A j \in 1..n : j > i => q[j].fn # f
    BY <1>5
  <2>2. CASE i = 1
    <3>1. Head(q).fn = f /\ Head(q).on = w[f]
      BY <1>1, <2>1, <2>2 DEF Cmd
    <3>2. e[f] = w[f]
      BY <1>3, <3>1 DEF States
    <3>3. \A k \in 1..(n - 1) : Tail(q)[k].fn # f
      <4>1. \A k \in 1..(n - 1) : k + 1 \in 1..n /\ k + 1 > i
        BY <1>1, <2>2
      <4> QED BY <1>1, <2>1, <4>1
    <3> QED BY <3>2, <3>3
  <2>3. CASE i # 1
    <3>1. i - 1 \in 1..(n - 1) /\ Tail(q)[i - 1] = Cmd(f, w[f])
      <4>1. i - 1 \in 1..(n - 1) /\ (i - 1) + 1 = i
        BY <1>1, <2>3
      <4> QED BY <1>1, <2>1, <4>1
    <3>2. \A j \in 1..(n - 1) : j > i - 1 => Tail(q)[j].fn # f
      <4>1. \A j \in 1..(n - 1) : j + 1 \in 1..n /\ (j > i - 1 => j + 1 > i)
        BY <1>1
      <4> QED BY <1>1, <2>1, <4>1
    <3> QED BY <3>1, <3>2
  <2> QED BY <2>2, <2>3
<1> QED BY <1>1, <1>4, <1>5 DEF Follows

-----------------------------------------------------------------------------
(* The inductive invariant: the map setFunction keeps is what the decoder  *)
(* was told.                                                               *)

IInv == FifoTypeOK /\ fMap = decoder /\ DecoderFollows

\* What init() pushes is wanted.
LEMMA InitFollows == FifoInit => IInv
<1> SUFFICES ASSUME FifoInit PROVE IInv
  OBVIOUS
<1> DEFINE off == AllOff
           enable == Cmd(Fn["notchingEnable"], TRUE)
           up == Cmd(Fn["notchUp"], FALSE)
           down == Cmd(Fn["notchDown"], FALSE)
<1>1. enable \in Commands /\ up \in Commands /\ down \in Commands
  BY RoleNumber DEF Roles
<1>2. off \in States /\ Follows(<<>>, off, off)
  BY DEF States, Follows, AllOff
<1>3. queue = <<enable, up, down>> /\ wanted = Want(Want(Want(off, queue[1]), queue[2]), queue[3])
  BY Zenon DEF FifoInit
<1>4. /\ wanted = Want(Want(Want(off, enable), up), down)
      /\ queue = Append(Append(Append(<<>>, enable), up), down)
  <2>1. ASSUME NEW c, NEW d, NEW e
        PROVE  /\ <<c, d, e>> = Append(Append(Append(<<>>, c), d), e)
               /\ <<c, d, e>>[1] = c /\ <<c, d, e>>[2] = d /\ <<c, d, e>>[3] = e
    OBVIOUS
  <2> HIDE DEF enable, up, down, off
  <2>2. queue[1] = enable /\ queue[2] = up /\ queue[3] = down
    BY <1>3, <2>1
  <2> QED BY <1>3, <2>1, <2>2
<1>5. Follows(queue, wanted, off) /\ queue \in Seq(Commands) /\ wanted \in States
  <2> HIDE DEF enable, up, down, off
  <2>1. <<>> \in Seq(Commands)
    OBVIOUS
  <2>2. /\ Append(<<>>, enable) \in Seq(Commands) /\ Want(off, enable) \in States
        /\ Follows(Append(<<>>, enable), Want(off, enable), off)
    BY <1>1, <1>2, <2>1, PushFollows
  <2>3. /\ Append(Append(<<>>, enable), up) \in Seq(Commands)
        /\ Want(Want(off, enable), up) \in States
        /\ Follows(Append(Append(<<>>, enable), up), Want(Want(off, enable), up), off)
    BY <1>1, <1>2, <2>2, PushFollows
  <2> QED BY <1>1, <1>2, <1>4, <2>3, PushFollows
<1>6. fMap = off /\ decoder = off
  BY Zenon DEF FifoInit
<1>7. FifoTypeOK
  <2>1. /\ running = FALSE /\ squealOn = FALSE /\ headlight = 0 /\ overrun = FALSE
        /\ muState \in MuStates /\ muReversed \in BOOLEAN
        /\ borrowed = (Bright \in {Fn["notchingEnable"], Fn["notchUp"], Fn["notchDown"]})
    BY Zenon DEF FifoInit
  <2>2. headlight \in 0..2
    BY <2>1, SMT
  <2>3. running \in BOOLEAN /\ squealOn \in BOOLEAN /\ overrun \in BOOLEAN
    BY <2>1, Zenon
  <2>5. borrowed \in BOOLEAN
    <3>1. ASSUME NEW x, NEW S PROVE (x \in S) \in BOOLEAN
      OBVIOUS
    <3> QED BY <2>1, <3>1, Zenon
  <2>4. {fMap, decoder, wanted} \subseteq [Functions -> BOOLEAN]
    BY <1>2, <1>5, <1>6 DEF States
  <2> QED BY <1>5, <2>1, <2>2, <2>3, <2>4, <2>5 DEF FifoTypeOK
<1> QED BY <1>5, <1>6, <1>7 DEF IInv, DecoderFollows, Follows

\* A handler that pushes one command, or two, keeps the promise.
LEMMA HandlerFollows ==
  ASSUME FifoTypeOK, DecoderFollows, UNCHANGED decoder,
         \/ \E c \in Commands : Push(c)
         \/ \E c, d \in Commands : EnqueueTwo(c, d)
  PROVE  DecoderFollows' /\ queue' \in Seq(Commands) /\ wanted' \in States
<1>1. Follows(queue, wanted, decoder) /\ queue \in Seq(Commands)
      /\ wanted \in States /\ decoder \in States
  BY DEF DecoderFollows, Follows, FifoTypeOK, States
<1>2. CASE \E c \in Commands : Push(c)
  <2>1. PICK c \in Commands : queue' = Append(queue, c) /\ wanted' = Want(wanted, c)
    BY <1>2 DEF Push
  <2>2. Follows(queue', wanted', decoder') /\ queue' \in Seq(Commands) /\ wanted' \in States
    BY <1>1, <2>1, PushFollows
  <2> QED BY <2>2 DEF DecoderFollows, Follows
<1>3. CASE \E c, d \in Commands : EnqueueTwo(c, d)
  <2>1. PICK c \in Commands, d \in Commands :
          /\ queue' = Append(Append(queue, c), d)
          /\ wanted' = Want(Want(wanted, c), d)
    BY <1>3 DEF EnqueueTwo
  <2>2. /\ Follows(Append(queue, c), Want(wanted, c), decoder)
        /\ Append(queue, c) \in Seq(Commands) /\ Want(wanted, c) \in States
    BY <1>1, PushFollows
  <2>3. Follows(queue', wanted', decoder') /\ queue' \in Seq(Commands) /\ wanted' \in States
    BY <1>1, <2>1, <2>2, PushFollows
  <2> QED BY <2>3 DEF DecoderFollows, Follows
<1> QED BY <1>2, <1>3

\* headlight pushes two commands, the bright lamp's last.
LEMMA HeadlightPushes ==
  ASSUME NEW r \in 0..2, Headlight(r)
  PROVE  /\ \E c \in Commands : EnqueueTwo(c, Cmd(Bright, r = 2))
         /\ Cmd(Bright, r = 2) \in Commands
         /\ headlight' = r /\ borrowed' = FALSE
         /\ UNCHANGED <<running, muState, muReversed, squealOn>>
<1>1. (r = 1) \in BOOLEAN /\ (r = 2) \in BOOLEAN
  OBVIOUS
<1>2. {"headlightBright", "headlightDim"} \subseteq Roles
  BY DEF Roles
<1>3. Dim("headlightDim", r) \in Commands /\ Lit("headlightBright", r) \in Commands
  BY <1>1, <1>2, RoleNumber, Zenon DEF Dim, Lit
<1>4. Lit("headlightBright", r) = Cmd(Bright, r = 2)
  BY Zenon DEF Lit, Bright
<1> QED BY <1>3, <1>4, Zenon DEF Headlight

\* The other handlers push one command or two, and leave the setting of the
\* headlight alone.
OtherPush == \/ \E c \in Commands : Push(c)
             \/ \E c, d \in Commands : PushTwo(c, d)

LEMMA HandlerPushes ==
  ASSUME FifoTypeOK, Handler, \A r \in 0..2 : ~Headlight(r)
  PROVE  /\ OtherPush
         /\ UNCHANGED <<muState, muReversed, headlight>>
         /\ running' \in BOOLEAN /\ squealOn' \in BOOLEAN
<1> DEFINE Kept == /\ UNCHANGED <<muState, muReversed, headlight>>
                   /\ running' \in BOOLEAN /\ squealOn' \in BOOLEAN
<1>1. running \in BOOLEAN /\ squealOn \in BOOLEAN
  BY DEF FifoTypeOK
<1>2. ASSUME NEW on \in BOOLEAN, PmOnOff(on) PROVE OtherPush /\ Kept
  <2>1. {Cmd(Fn["pm"], on), Cmd(Fn["notchingEnable"], on)} \subseteq Commands
    BY RoleNumber DEF Roles
  <2> QED BY <1>1, <1>2, <2>1 DEF PmOnOff, OtherPush
<1>3. ASSUME NEW on \in BOOLEAN, NEW role \in Sounds, Sound(role, on)
      PROVE  OtherPush /\ Kept
  <2>1. Cmd(Fn[role], on) \in Commands
    BY RoleNumber DEF Roles
  <2> QED BY <1>1, <1>3, <2>1 DEF Sound, OtherPush
<1>4. ASSUME NEW on \in BOOLEAN, NEW role \in Levers, Lever(role, on)
      PROVE  OtherPush /\ Kept
  <2>1. Cmd(Fn[role], on) \in Commands
    BY RoleNumber DEF Roles
  <2> QED BY <1>1, <1>4, <2>1 DEF Lever, OtherPush
<1>5. ASSUME NEW on \in BOOLEAN, NEW hard \in BOOLEAN, BrakeSqueal(on, hard)
      PROVE  OtherPush /\ Kept
  <2>1. Cmd(Fn["brakeSqueal"], on) \in Commands
    BY RoleNumber DEF Roles
  <2> QED BY <1>1, <1>5, <2>1 DEF BrakeSqueal, OtherPush
<1>6. ASSUME NEW on \in BOOLEAN, NEW f \in AppFunctions, AppFunction(f, on)
      PROVE  OtherPush /\ Kept
  <2>1. Cmd(f, on) \in Commands
    BY DEF Cmd, Commands, Numbers
  <2> QED BY <1>1, <1>6, <2>1 DEF AppFunction, OtherPush
<1>7. ASSUME NEW role \in Pulses, Pulse(role) PROVE OtherPush /\ Kept
  <2>1. Cmd(Fn[role], TRUE) \in Commands /\ Cmd(Fn[role], FALSE) \in Commands
    <3>1. role \in Roles
      BY FunctionAssumption DEF Roles
    <3> QED BY <3>1, RoleNumber
  <2> QED BY <1>1, <1>7, <2>1 DEF Pulse, OtherPush
<1>8. ASSUME NEW r \in 0..2, Rearlight(r) PROVE OtherPush /\ Kept
  <2>1. (r = 1) \in BOOLEAN /\ (r = 2) \in BOOLEAN
    OBVIOUS
  <2>2. RearDim \in Roles /\ "rearlightBright" \in Roles
    BY DEF Roles, RearDim
  <2>3. Dim(RearDim, r) \in Commands /\ Lit("rearlightBright", r) \in Commands
    BY <2>1, <2>2, RoleNumber, Zenon DEF Dim, Lit
  <2>4. OtherPush
    BY <1>8, <2>3, Zenon DEF Rearlight, OtherPush
  <2> QED BY <1>1, <1>8, <2>4 DEF Rearlight
<1> QED BY <1>2, <1>3, <1>4, <1>5, <1>6, <1>7, <1>8 DEF Handler

\* Every step preserves the invariant.
LEMMA StepFollows == IInv /\ [FifoNext]_vars => IInv'
<1> SUFFICES ASSUME IInv, [FifoNext]_vars PROVE IInv'
  OBVIOUS
<1>1. /\ FifoTypeOK /\ fMap = decoder /\ DecoderFollows
  BY DEF IInv
<1>2. CASE Pop
  <2>1. /\ queue # <<>> /\ queue \in Seq(Commands) /\ queue' = Tail(queue)
        /\ fMap \in States /\ wanted \in States /\ decoder \in States
        /\ UNCHANGED <<wanted, borrowed, running, muState, muReversed, headlight, squealOn>>
    BY <1>1, <1>2 DEF Pop, FifoTypeOK, States
  <2> DEFINE f == Head(queue).fn
             on == Head(queue).on
             d == IF f \in 0..28 THEN [decoder EXCEPT ![f] = on] ELSE decoder
  <2>2. Head(queue) \in Commands /\ Tail(queue) \in Seq(Commands)
    BY <2>1
  <2>3. on \in BOOLEAN /\ f \in Int /\ (f \in 0..28 => f \in Functions)
    BY <2>2, FunctionAssumption DEF Commands, Numbers
  <2>4. d \in States
    BY <2>1, <2>3 DEF States
  <2>5. fMap' = d /\ decoder' = d /\ overrun' \in BOOLEAN
    <3>1. SetFunction(f, on) /\ overrun \in BOOLEAN
      BY <1>1, <1>2 DEF Pop, FifoTypeOK
    <3>2. CASE f \notin 0..29
      BY <1>1, <3>1, <3>2 DEF SetFunction
    <3>3. CASE f \in 0..29
      <4>1. /\ fMap' = IF f = 29 THEN fMap ELSE [fMap EXCEPT ![f] = on]
            /\ overrun' = (overrun \/ f = 29)
            /\ decoder' = [g \in Functions |-> IF Grouped(f, g) THEN fMap'[g] ELSE decoder[g]]
        BY <3>1, <3>3 DEF SetFunction, SendGroup
      <4>2. overrun' \in BOOLEAN
        BY <3>1, <4>1, Zenon
      <4>3. fMap' = d /\ fMap' \in States /\ decoder' \in States
        <5>1. fMap' = d
          <6>1. CASE f = 29 BY <1>1, <4>1, <6>1
          <6>2. CASE f # 29
            <7>1. f \in 0..28
              BY <3>3, <6>2
            <7> QED BY <1>1, <4>1, <6>2, <7>1
          <6> QED BY <6>1, <6>2
        <5> QED BY <2>1, <2>4, <4>1, <5>1 DEF States
      <4>4. decoder' = fMap'
        <5>1. ASSUME NEW g \in Functions PROVE decoder'[g] = fMap'[g]
          <6>1. CASE g = f
            BY <3>3, <4>1, <6>1, OwnGroup
          <6>2. CASE g # f
            <7>1. fMap'[g] = decoder[g]
              BY <1>1, <2>1, <4>1, <6>2 DEF States
            <7> QED BY <4>1, <7>1
          <6> QED BY <6>1, <6>2
        <5> QED BY <4>3, <5>1 DEF States
      <4> QED BY <4>2, <4>3, <4>4
    <3> QED BY <3>2, <3>3
  <2>6. Follows(queue', wanted', decoder')
    <3>1. Follows(queue, wanted, decoder)
      BY <1>1 DEF DecoderFollows, Follows
    <3>2. Follows(Tail(queue), wanted, d)
      BY <2>1, <2>4, <3>1, PopFollows
    <3> QED BY <2>1, <2>5, <3>2
  <2>7. FifoTypeOK'
    BY <1>1, <2>1, <2>2, <2>4, <2>5 DEF FifoTypeOK, States
  <2> QED BY <2>5, <2>6, <2>7 DEF IInv, DecoderFollows, Follows
<1>3. CASE Handler
  <2>1. UNCHANGED <<fMap, decoder, overrun>>
    BY <1>3 DEF Handler
  <2>2. /\ \/ \E c \in Commands : Push(c)
           \/ \E c, d \in Commands : EnqueueTwo(c, d)
        /\ UNCHANGED <<muState, muReversed>> /\ headlight' \in 0..2
        /\ {running', squealOn', borrowed'} \subseteq BOOLEAN
    <3>1. {running, squealOn, borrowed} \subseteq BOOLEAN /\ headlight \in 0..2
      BY <1>1 DEF FifoTypeOK
    <3>2. CASE \E r \in 0..2 : Headlight(r)
      BY <3>1, <3>2, HeadlightPushes
    <3>3. CASE \A r \in 0..2 : ~Headlight(r)
      <4>1. /\ OtherPush /\ UNCHANGED <<muState, muReversed, headlight>>
            /\ running' \in BOOLEAN /\ squealOn' \in BOOLEAN
        BY <1>1, <1>3, <3>3, HandlerPushes
      <4>2. borrowed' \in BOOLEAN
        BY <4>1, Zenon DEF OtherPush, Push, PushTwo, Borrow
      <4> QED BY <3>1, <4>1, <4>2 DEF OtherPush, PushTwo
    <3> QED BY <3>2, <3>3
  <2>3. DecoderFollows' /\ queue' \in Seq(Commands) /\ wanted' \in States
    BY <1>1, <2>1, <2>2, HandlerFollows
  <2>4. FifoTypeOK'
    BY <1>1, <2>1, <2>2, <2>3 DEF FifoTypeOK, States
  <2> QED BY <1>1, <2>1, <2>3, <2>4 DEF IInv
<1>4. ASSUME NEW m \in MuStates, NEW rev \in BOOLEAN, MuSetState(m, rev) PROVE IInv'
  BY <1>1, <1>4 DEF MuSetState, IInv, FifoTypeOK, DecoderFollows
<1>5. CASE UNCHANGED vars
  BY <1>1, <1>5 DEF vars, IInv, FifoTypeOK, DecoderFollows
<1> QED BY <1>2, <1>3, <1>4, <1>5 DEF FifoNext

\* The queue, the map, the decoder and the handlers' state keep their types,
\* whatever numbers are configured or sent, shared, past the map (29) or out
\* of range, and however long the queue grows.
THEOREM FifoTypeCorrect == FifoSpec => []FifoTypeOK
<1>1. IInv => FifoTypeOK
  BY DEF IInv
<1> QED BY <1>1, InitFollows, StepFollows, PTL DEF FifoSpec

\* Packets of one function neither lose nor undo the commands for others.
THEOREM FunctionsFollow == FifoSpec => []DecoderFollows
<1>1. IInv => DecoderFollows
  BY DEF IInv
<1> QED BY <1>1, InitFollows, StepFollows, PTL DEF FifoSpec

-----------------------------------------------------------------------------
(* The headlight setting that is reported.                                 *)

\* While the number is the headlight's alone, the last command for it is the
\* setting that was recorded.
BrightWanted == ~borrowed /\ Bright \in Functions => wanted[Bright] = (headlight = 2)

LEMMA WantOther ==
  ASSUME NEW w \in States, NEW c \in Commands, c.fn # Bright, Bright \in Functions
  PROVE  Want(w, c) \in States /\ Want(w, c)[Bright] = w[Bright]
<1>1. c.on \in BOOLEAN
  BY DEF Commands
<1> QED BY <1>1 DEF Want, States

\* A command by another handler: it borrows the lamp, or is for another one.
LEMMA OtherKeeps ==
  ASSUME FifoTypeOK, BrightWanted, headlight' = headlight, OtherPush
  PROVE  BrightWanted'
<1> SUFFICES ASSUME ~borrowed', Bright \in Functions
             PROVE  wanted'[Bright] = (headlight = 2)
  BY DEF BrightWanted, Bright
<1>1. wanted \in States
  BY DEF FifoTypeOK, States
<1>2. CASE \E c \in Commands : Push(c)
  <2>1. PICK c \in Commands : Push(c)
    BY <1>2
  <2>2. ~borrowed /\ c.fn # Bright
    BY <2>1, Zenon DEF Push, Borrow
  <2> QED BY <1>1, <2>1, <2>2, WantOther DEF Push, BrightWanted
<1>3. CASE \E c, d \in Commands : PushTwo(c, d)
  <2>1. PICK c \in Commands, d \in Commands : PushTwo(c, d)
    BY <1>3
  <2>2. ~borrowed /\ c.fn # Bright /\ d.fn # Bright
    BY <2>1, Zenon DEF PushTwo, Borrow
  <2>3. wanted' = Want(Want(wanted, c), d)
    BY <2>1 DEF PushTwo, EnqueueTwo
  <2>4. wanted'[Bright] = wanted[Bright]
    BY <1>1, <2>2, <2>3, WantOther
  <2> QED BY <2>2, <2>4 DEF BrightWanted
<1> QED BY <1>2, <1>3 DEF OtherPush

LEMMA BrightStep == IInv /\ BrightWanted /\ [FifoNext]_vars => BrightWanted'
<1> SUFFICES ASSUME IInv, BrightWanted, [FifoNext]_vars PROVE BrightWanted'
  OBVIOUS
<1>1. FifoTypeOK
  BY DEF IInv
<1>2. ASSUME NEW r \in 0..2, Headlight(r) PROVE BrightWanted'
  <2> DEFINE d == Cmd(Bright, r = 2)
  <2>1. PICK c \in Commands : EnqueueTwo(c, d)
    BY <1>2, HeadlightPushes
  <2>2. headlight' = r /\ wanted' = Want(Want(wanted, c), d)
    BY <1>2, <2>1, HeadlightPushes DEF EnqueueTwo
  <2>3. d.fn = Bright /\ d.on = (r = 2) /\ c.on \in BOOLEAN /\ wanted \in States
    BY <1>1 DEF Cmd, Commands, FifoTypeOK, States
  <2> HIDE DEF d
  <2>4. Want(wanted, c) \in States
    BY <2>3 DEF Want, States
  <2>5. Bright \in Functions => Want(Want(wanted, c), d)[Bright] = d.on
    BY <2>3, <2>4 DEF Want, States
  <2> QED BY <2>2, <2>3, <2>5 DEF BrightWanted, Bright
<1>3. CASE Handler
  BY <1>1, <1>2, <1>3, HandlerPushes, OtherKeeps
<1>4. CASE Pop
  BY <1>4 DEF Pop, BrightWanted, Bright
<1>5. ASSUME NEW m \in MuStates, NEW rev \in BOOLEAN, MuSetState(m, rev) PROVE BrightWanted'
  BY <1>5 DEF MuSetState, BrightWanted, Bright
<1>6. CASE UNCHANGED vars
  BY <1>6 DEF vars, BrightWanted, Bright
<1> QED BY <1>3, <1>4, <1>5, <1>6 DEF FifoNext

\* What reportCondition tells the app of the headlight is what the bright lamp
\* shows once the queue is empty, however numbers are shared, until another
\* handler or a button of the app sends a command with the lamp's number.  A
\* consist joined or left, and the packets of its group, do not touch it.
THEOREM LampAsReported == FifoSpec => []BrightLampReported
<1>1. FifoInit => BrightWanted
  <2> SUFFICES ASSUME FifoInit, ~borrowed, Bright \in Functions
               PROVE  wanted[Bright] = (headlight = 2)
    BY Zenon DEF BrightWanted
  <2> DEFINE enable == Cmd(Fn["notchingEnable"], TRUE)
             up == Cmd(Fn["notchUp"], FALSE)
             down == Cmd(Fn["notchDown"], FALSE)
  <2>1. /\ queue = <<enable, up, down>> /\ headlight = 0
        /\ wanted = Want(Want(Want(AllOff, queue[1]), queue[2]), queue[3])
    BY Zenon DEF FifoInit
  <2>2. enable.fn # Bright /\ up.fn # Bright /\ down.fn # Bright
    BY DEF FifoInit, Cmd
  <2>3. enable \in Commands /\ up \in Commands /\ down \in Commands
    BY RoleNumber DEF Roles
  <2> HIDE DEF enable, up, down
  <2>4. wanted = Want(Want(Want(AllOff, enable), up), down)
    BY <2>1
  <2>5. AllOff \in States /\ AllOff[Bright] = FALSE
    BY DEF AllOff, States
  <2>6. Want(AllOff, enable) \in States /\ Want(AllOff, enable)[Bright] = FALSE
    BY <2>2, <2>3, <2>5, WantOther
  <2>7. Want(Want(AllOff, enable), up) \in States /\ Want(Want(AllOff, enable), up)[Bright] = FALSE
    BY <2>2, <2>3, <2>6, WantOther
  <2>8. wanted[Bright] = FALSE
    BY <2>2, <2>3, <2>4, <2>7, WantOther
  <2>9. (headlight = 2) = FALSE
    BY <2>1
  <2> QED BY <2>8, <2>9
<1>2. IInv /\ BrightWanted => BrightLampReported
  <2> SUFFICES ASSUME DecoderFollows, BrightWanted, queue = <<>>, ~borrowed,
                      Bright \in Functions
               PROVE  decoder[Bright] = (headlight = 2)
    BY DEF IInv, BrightLampReported
  <2>1. DOMAIN queue = {}
    OBVIOUS
  <2>2. decoder[Bright] = wanted[Bright]
    BY <2>1 DEF DecoderFollows
  <2> QED BY <2>2 DEF BrightWanted
<1> QED BY <1>1, <1>2, InitFollows, StepFollows, BrightStep, PTL DEF FifoSpec
=============================================================================
