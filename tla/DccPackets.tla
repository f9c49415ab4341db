----------------------------- MODULE DccPackets -----------------------------
(***************************************************************************)
(* What the packets say: the bytes that setThrottle, setFunction,          *)
(* writeCVByteMain and writeCVBitMain (PacketRegister.cpp, with the        *)
(* function groups of Function.cpp) make of a command, the bit stream      *)
(* loadPacket packs them into, and the bits the interrupt sends.  At the   *)
(* other end is a decoder, which is external: it follows the NMRA standard *)
(* that the comments of SerialCommand.cpp describe and may begin to listen *)
(* in the middle of a packet.  When packets are loaded and exchanged is    *)
(* the subject of DccRegisters; here they follow one another.              *)
(***************************************************************************)
EXTENDS Integers, Sequences

CONSTANTS Cabs,       \* the addresses of decoders
          Speeds,     \* speed steps, -1 for an emergency stop
          Fns,        \* the functions that are switched
          Cvs, CvValues, CvBits,
          MaxPackets  \* bound of the packets of a behaviour

ASSUME PacketsAssumption ==
  /\ Cabs \subseteq 1..10293       \* the range SerialCommand.cpp documents
  /\ Speeds \subseteq -1..126 /\ Fns \subseteq 0..28
  /\ Cvs \subseteq 1..1024 /\ CvValues \subseteq 0..255 /\ CvBits \subseteq 0..7
  /\ MaxPackets \in Nat

VARIABLES own,               \* the address of this decoder, and of the locomotive
          fMap,              \* setFunction's map of the functions
          packet, cursor,    \* the packet on the wire and the bits of it sent
          count,
          decoder,           \* what the decoder has received of a packet
          loco,              \* the state that the packets put the locomotive in
          told, asked        \* history: the state that the packets before this one
                             \* asked for, and the one this packet asks for

vars == <<own, fMap, packet, cursor, count, decoder, loco, told, asked>>

-----------------------------------------------------------------------------
(* The sender.                                                             *)

bitMask == <<128, 64, 32, 16, 8, 4, 2, 1>>
BitOf(n, i) == (n \div bitMask[8 - i]) % 2      \* bit 0 is the lowest
HighByte(n) == (n \div 256) % 256
Bool(b) == IF b THEN 1 ELSE 0

\* The byte of eight bits.
Byte(bit) ==
  bit[0] + bit[1] * 2 + bit[2] * 4 + bit[3] * 8 + bit[4] * 16 + bit[5] * 32
    + bit[6] * 64 + bit[7] * 128

Xor(a, b) == Byte([i \in 0..7 |-> (BitOf(a, i) + BitOf(b, i)) % 2])

\* `| 0xC0` sets the two high bits of the address.
Address(cab) ==
  (IF cab > 127 THEN <<192 + (HighByte(cab) % 64)>> ELSE <<>>) \o <<cab % 256>>

\* Mutant of SpeedByte: no step is left out for the emergency stop.
SpeedByteSteps(speed, forward) ==
  IF speed < 0 THEN 1 ELSE (speed + Bool(forward) * 128) % 256

SpeedByte(speed, forward) ==
  IF speed < 0 THEN 1 ELSE (speed + Bool(speed > 0) + Bool(forward) * 128) % 256

ThrottleBytes(cab, speed, forward) ==
  Address(cab) \o <<63, SpeedByte(speed, forward)>>

\* The functions in the bits of a byte, from bit 0 on.
Packed(map, fs) == Byte([i \in 0..7 |-> IF i < Len(fs) THEN Bool(map[fs[i + 1]]) ELSE 0])

GroupBytes(map, f) ==
  CASE f < 5  -> <<128 + Packed(map, <<1, 2, 3, 4, 0>>)>>
    [] f \in 5..8   -> <<176 + Packed(map, <<5, 6, 7, 8>>)>>
    [] f \in 9..12  -> <<160 + Packed(map, <<9, 10, 11, 12>>)>>
    [] f \in 13..20 -> <<222, Packed(map, <<13, 14, 15, 16, 17, 18, 19, 20>>)>>
    [] OTHER        -> <<223, Packed(map, <<21, 22, 23, 24, 25, 26, 27, 28>>)>>

\* RegisterList::setFunction forces the first byte into its class: `| 0x80`
\* and `& 0xBF` leave it six bits, `| 0xDE` and `& 0xDF` one.
FunctionBytes(cab, group) ==
  Address(cab) \o
  (IF Len(group) = 1 THEN <<128 + (group[1] % 64)>>
                     ELSE <<222 + (group[1] % 2), group[2]>>)

CvByteBytes(cab, cv, value) ==
  Address(cab) \o <<236 + (HighByte(cv - 1) % 4), (cv - 1) % 256, value>>

CvBitBytes(cab, cv, bit, value) ==
  Address(cab) \o <<232 + (HighByte(cv - 1) % 4), (cv - 1) % 256, 240 + value * 8 + bit>>

\* The exclusive or of the bytes of a packet, which are at most six.
Sum(b) ==
  LET at(i) == IF i <= Len(b) THEN b[i] ELSE 0
  IN  Xor(Xor(Xor(Xor(Xor(at(1), at(2)), at(3)), at(4)), at(5)), at(6))

Checked(b) == Append(b, Sum(b))

\* loadPacket: 22 ones, then each byte behind a zero.
Pack(b) ==
  LET at(i) == IF i < Len(b) THEN b[i + 1] ELSE 0
  IN  [buf |-> <<255, 255, 252 + BitOf(at(0), 7), ((at(0) * 2) % 256), at(1), at(2) \div 2,
                 ((at(2) * 128) % 256) + at(3) \div 4, ((at(3) * 64) % 256) + at(4) \div 8,
                 ((at(4) * 32) % 256) + at(5) \div 16, (at(5) * 16) % 256>>,
       nBits |-> CASE Len(b) = 3 -> 49 [] Len(b) = 4 -> 58 [] Len(b) = 5 -> 67 [] OTHER -> 76]

\* Mutant of WireBit: the low bits of a byte go first.
WireBitReversed == BitOf(packet.buf[cursor \div 8 + 1], cursor % 8)

\* The bit that onTimer1 sends.
WireBit == BitOf(packet.buf[cursor \div 8 + 1], 7 - (cursor % 8))

IdlePacket == Pack(Checked(<<255, 0>>))

-----------------------------------------------------------------------------
(* The decoder.                                                            *)

Lost == [phase |-> "preamble", ones |-> 0, byte |-> 0, bits |-> 0, bytes |-> <<>>]

\* Ten ones and a zero begin a packet; after each byte a zero announces
\* another one and a one ends the packet, being the first of a new preamble.
Receive(d, bit) ==
  CASE d.phase = "preamble" /\ bit = 1 -> [d EXCEPT !.ones = IF @ < 10 THEN @ + 1 ELSE 10]
    [] d.phase = "preamble" /\ bit = 0 ->
         IF d.ones = 10 THEN [Lost EXCEPT !.phase = "data"] ELSE Lost
    [] d.phase = "data" /\ d.bits < 8 -> [d EXCEPT !.byte = 2 * @ + bit, !.bits = @ + 1]
    [] d.phase = "data" /\ d.bits = 8 /\ bit = 0 ->
         [d EXCEPT !.bytes = Append(@, d.byte), !.byte = 0, !.bits = 0]
    [] OTHER -> [Lost EXCEPT !.ones = 1]

Complete(d, bit) == d.phase = "data" /\ d.bits = 8 /\ bit = 1

\* The state of a locomotive, and what an instruction makes of it.
Still == [step |-> 0, forward |-> TRUE, stopped |-> FALSE,
          fn |-> [f \in 0..28 |-> FALSE], cv |-> <<>>]

SetFns(l, fs, byte) ==
  [l EXCEPT !.fn = [f \in 0..28 |->
     IF \E i \in DOMAIN fs : fs[i] = f
       THEN \E i \in DOMAIN fs : fs[i] = f /\ BitOf(byte, i - 1) = 1 ELSE @[f]]]

Obey(l, b) ==
  LET cv == 256 * (b[1] % 4) + b[2] + 1
  IN  CASE b[1] = 63 ->
             [l EXCEPT !.forward = b[2] >= 128, !.stopped = b[2] % 128 = 1,
                       !.step = IF b[2] % 128 = 0 THEN 0 ELSE (b[2] % 128) - 1]
        [] b[1] \in 128..159 -> SetFns(l, <<1, 2, 3, 4, 0>>, b[1])
        [] b[1] \in 176..191 -> SetFns(l, <<5, 6, 7, 8>>, b[1])
        [] b[1] \in 160..175 -> SetFns(l, <<9, 10, 11, 12>>, b[1])
        [] b[1] = 222 -> SetFns(l, [i \in 1..8 |-> 12 + i], b[2])
        [] b[1] = 223 -> SetFns(l, [i \in 1..8 |-> 20 + i], b[2])
        [] b[1] \in 236..239 -> [l EXCEPT !.cv = <<cv, b[3]>>]
        [] b[1] \in 232..235 -> [l EXCEPT !.cv = <<cv, b[3] % 8, BitOf(b[3], 3)>>]
        [] OTHER -> l

\* A packet for this decoder whose bytes sum to zero is obeyed.
Accept(l, bytes) ==
  LET long == bytes[1] \in 192..231
      to == IF long THEN 256 * (bytes[1] - 192) + bytes[2] ELSE bytes[1]
      said == SubSeq(bytes, IF long THEN 3 ELSE 2, Len(bytes) - 1)
  IN  IF Len(bytes) >= 3 /\ Sum(bytes) = 0
         /\ to = own /\ long = (own > 127) /\ said # <<>>
        THEN Obey(l, said) ELSE l

-----------------------------------------------------------------------------
(* The track.                                                              *)

\* The decoder begins to listen at any bit of an idle packet.
Init ==
  /\ own \in Cabs /\ fMap = [f \in 0..28 |-> FALSE]
  /\ packet = IdlePacket /\ cursor \in 0..IdlePacket.nBits /\ count = 0
  /\ decoder = Lost /\ loco = Still
  /\ told = Still /\ asked = Still

Send ==
  /\ cursor < packet.nBits /\ cursor' = cursor + 1
  /\ decoder' = Receive(decoder, WireBit)
  /\ loco' = IF Complete(decoder, WireBit)
               THEN Accept(loco, Append(decoder.bytes, decoder.byte)) ELSE loco
  /\ UNCHANGED <<own, fMap, packet, count, told, asked>>

\* A command follows the packet that was sent: what it asks of own is `l`.
Load(cab, bytes, l) ==
  /\ cursor = packet.nBits /\ count < MaxPackets /\ count' = count + 1
  /\ packet' = Pack(Checked(bytes)) /\ cursor' = 0
  /\ told' = asked /\ asked' = IF cab = own THEN l ELSE asked
  /\ UNCHANGED <<own, decoder, loco>>

\* The direction is asked for at every speed: "Setting direction when speed=0
\* or speed=-1 only effects directionality of cab lighting".
SetThrottle(cab, speed, forward) ==
  /\ Load(cab, ThrottleBytes(cab, speed, forward),
          [asked EXCEPT !.step = IF speed < 0 THEN 0 ELSE speed, !.stopped = speed < 0,
                       !.forward = forward])
  /\ UNCHANGED fMap

\* Function.cpp sends to the address of this locomotive only.
SetFunction(f, on) ==
  /\ fMap' = [fMap EXCEPT ![f] = on]
  /\ Load(own, FunctionBytes(own, GroupBytes(fMap', f)), [asked EXCEPT !.fn[f] = on])

WriteCVByteMain(cab, cv, value) ==
  /\ Load(cab, CvByteBytes(cab, cv, value), [asked EXCEPT !.cv = <<cv, value>>])
  /\ UNCHANGED fMap

WriteCVBitMain(cab, cv, bit, value) ==
  /\ Load(cab, CvBitBytes(cab, cv, bit, value), [asked EXCEPT !.cv = <<cv, bit, value>>])
  /\ UNCHANGED fMap

\* Nothing to say: the idle packet, which also ends the last command's.
Idle ==
  /\ cursor = packet.nBits /\ packet' = IdlePacket /\ cursor' = 0
  /\ told' = asked /\ UNCHANGED <<own, fMap, count, decoder, loco, asked>>

Next ==
  \/ Send \/ Idle
  \/ \E f \in Fns, on \in BOOLEAN : SetFunction(f, on)
  \/ \E cab \in Cabs :
       \/ \E s \in Speeds, forward \in BOOLEAN : SetThrottle(cab, s, forward)
       \/ \E cv \in Cvs, v \in CvValues : WriteCVByteMain(cab, cv, v)
       \/ \E cv \in Cvs, b \in CvBits, v \in 0..1 : WriteCVBitMain(cab, cv, b, v)

Spec == Init /\ [][Next]_vars

-----------------------------------------------------------------------------
(* Properties.                                                             *)

\* Every variable keeps its type, and the bits of a packet fit its buffer.
TypeOK ==
  /\ own \in Cabs /\ fMap \in [0..28 -> BOOLEAN] /\ count \in 0..MaxPackets
  /\ \A i \in 1..10 : packet.buf[i] \in 0..255
  /\ cursor \in 0..packet.nBits /\ packet.nBits <= 80
  /\ decoder.bits \in 0..8 /\ decoder.byte \in 0..255

\* Once the first one of the next packet has ended a packet, the locomotive
\* is in the state that the commands for it asked for, whatever the
\* addresses, groups and boundaries, and commands for others leave it alone.
\* (The emergency stop, speed -1, which no caller sends, is not among them: its
\* byte has no direction, and the lamps turn backwards.)
DecoderObeys == cursor \in 1..22 => loco = told

\* Whatever bit a decoder begins to listen at, it is in step by the first
\* bit of the next packet's data, and never takes data for a preamble.
FramesFound ==
  cursor = 23 /\ (count > 0 \/ decoder.phase = "data") =>
    decoder.phase = "data" /\ decoder.bits = 0 /\ decoder.bytes = <<>>
=============================================================================
