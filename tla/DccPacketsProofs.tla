-------------------------- MODULE DccPacketsProofs --------------------------
(***************************************************************************)
(* Theorems about DccPackets, for any addresses, speeds, functions, CVs    *)
(* and any number of packets: a decoder that begins to listen anywhere     *)
(* finds the packets, and one at an address of the standard ends in the    *)
(* state that the commands asked for.  The proof goes upwards: the bits    *)
(* of a byte, the checksum, the buffer that loadPacket shifts the bytes    *)
(* into, the decoder in a packet, the idle packet, the addresses, what     *)
(* each command's instruction does, and then the steps of the track.       *)
(***************************************************************************)
EXTENDS DccPackets, SequenceTheorems, TLAPS

-----------------------------------------------------------------------------
(* Bytes and their bits.                                                   *)

\* What one byte and one bit can hold.
Bytes == 0..255
Binary == 0..1

\* The bits of a number, each by its mask.
LEMMA Bits ==
  ASSUME NEW n
  PROVE  /\ BitOf(n, 0) = (n \div 1) % 2 /\ BitOf(n, 1) = (n \div 2) % 2
         /\ BitOf(n, 2) = (n \div 4) % 2 /\ BitOf(n, 3) = (n \div 8) % 2
         /\ BitOf(n, 4) = (n \div 16) % 2 /\ BitOf(n, 5) = (n \div 32) % 2
         /\ BitOf(n, 6) = (n \div 64) % 2 /\ BitOf(n, 7) = (n \div 128) % 2
  BY DEF BitOf, bitMask

\* An index of a bit is one of eight.
LEMMA Eight == ASSUME NEW i \in 0..7
               PROVE i = 0 \/ i = 1 \/ i = 2 \/ i = 3 \/ i = 4 \/ i = 5 \/ i = 6 \/ i = 7
  OBVIOUS

\* A bit is zero or one.
LEMMA BitBinary == ASSUME NEW n \in Bytes, NEW i \in 0..7 PROVE BitOf(n, i) \in Binary
  BY Bits, Eight DEF Bytes, Binary

\* What eight bits add up to, and what halving the sum leaves of them.
Total(b0, b1, b2, b3, b4, b5, b6, b7) ==
  b0 + b1 * 2 + b2 * 4 + b3 * 8 + b4 * 16 + b5 * 32 + b6 * 64 + b7 * 128

\* The byte n has the bits b0 to b7.
Gives(n, b0, b1, b2, b3, b4, b5, b6, b7) ==
  /\ n \in Bytes
  /\ (n \div 1) % 2 = b0 /\ (n \div 2) % 2 = b1 /\ (n \div 4) % 2 = b2 /\ (n \div 8) % 2 = b3
  /\ (n \div 16) % 2 = b4 /\ (n \div 32) % 2 = b5 /\ (n \div 64) % 2 = b6
  /\ (n \div 128) % 2 = b7

\* Eight bits are the bits of their sum: each quotient of the sum, halved.
LEMMA EightBits ==
  ASSUME NEW b0 \in Binary, NEW b1 \in Binary, NEW b2 \in Binary, NEW b3 \in Binary,
         NEW b4 \in Binary, NEW b5 \in Binary, NEW b6 \in Binary, NEW b7 \in Binary
  PROVE  Gives(Total(b0, b1, b2, b3, b4, b5, b6, b7), b0, b1, b2, b3, b4, b5, b6, b7)
<1> SUFFICES ASSUME NEW n, n = b0 + b1 * 2 + b2 * 4 + b3 * 8 + b4 * 16 + b5 * 32 + b6 * 64
                               + b7 * 128
             PROVE  Gives(n, b0, b1, b2, b3, b4, b5, b6, b7)
  BY DEF Total
<1> USE DEF Binary, Bytes
<1>1. n \in Bytes
  OBVIOUS
<1>2. (n \div 1) % 2 = b0
  OBVIOUS
<1>3. (n \div 2) % 2 = b1
  OBVIOUS
<1>4. (n \div 4) % 2 = b2
  OBVIOUS
<1>5. (n \div 8) % 2 = b3
  OBVIOUS
<1>6. (n \div 16) % 2 = b4
  OBVIOUS
<1>7. (n \div 32) % 2 = b5
  OBVIOUS
<1>8. (n \div 64) % 2 = b6
  OBVIOUS
<1>9. (n \div 128) % 2 = b7
  OBVIOUS
<1> QED BY <1>1, <1>2, <1>3, <1>4, <1>5, <1>6, <1>7, <1>8, <1>9 DEF Gives

\* Halving a byte again and again drops its bits, the lowest first.
LEMMA Halves ==
  ASSUME NEW n \in Bytes
  PROVE  /\ n = 2 * (n \div 2) + (n % 2) /\ n \div 2 = 2 * (n \div 4) + ((n \div 2) % 2)
         /\ n \div 4 = 2 * (n \div 8) + ((n \div 4) % 2)
         /\ n \div 8 = 2 * (n \div 16) + ((n \div 8) % 2)
         /\ n \div 16 = 2 * (n \div 32) + ((n \div 16) % 2)
         /\ n \div 32 = 2 * (n \div 64) + ((n \div 32) % 2)
         /\ n \div 64 = 2 * (n \div 128) + ((n \div 64) % 2)
         /\ n \div 128 = (n \div 128) % 2
         /\ n \div 1 = n /\ n \div 256 = 0
  BY DEF Bytes

\* A byte is known by its bits.
LEMMA SameBits ==
  ASSUME NEW m \in Bytes, NEW n \in Bytes, \A i \in 0..7 : BitOf(m, i) = BitOf(n, i)
  PROVE  m = n
<1>1. /\ BitOf(m, 0) = BitOf(n, 0) /\ BitOf(m, 1) = BitOf(n, 1) /\ BitOf(m, 2) = BitOf(n, 2)
      /\ BitOf(m, 3) = BitOf(n, 3) /\ BitOf(m, 4) = BitOf(n, 4) /\ BitOf(m, 5) = BitOf(n, 5)
      /\ BitOf(m, 6) = BitOf(n, 6) /\ BitOf(m, 7) = BitOf(n, 7)
  OBVIOUS
<1>2. m \div 64 = n \div 64
  BY <1>1, Bits, Halves
<1>3. m \div 32 = n \div 32
  BY <1>1, <1>2, Bits, Halves
<1>4. m \div 16 = n \div 16
  BY <1>1, <1>3, Bits, Halves
<1>5. m \div 8 = n \div 8
  BY <1>1, <1>4, Bits, Halves
<1>6. m \div 4 = n \div 4
  BY <1>1, <1>5, Bits, Halves
<1>7. m \div 2 = n \div 2
  BY <1>1, <1>6, Bits, Halves
<1>8. m \div 1 = n \div 1
  BY <1>1, <1>7, Bits, Halves
<1> QED BY <1>8, Halves

\* Eight bits are the bits of the byte they make.
LEMMA BitsBack ==
  ASSUME NEW bit \in [0..7 -> Binary]
  PROVE  Byte(bit) \in Bytes /\ \A i \in 0..7 : BitOf(Byte(bit), i) = bit[i]
<1> DEFINE n == Byte(bit)
<1>1. /\ bit[0] \in Binary /\ bit[1] \in Binary /\ bit[2] \in Binary /\ bit[3] \in Binary
      /\ bit[4] \in Binary /\ bit[5] \in Binary /\ bit[6] \in Binary /\ bit[7] \in Binary
  OBVIOUS
<1>2. n = Total(bit[0], bit[1], bit[2], bit[3], bit[4], bit[5], bit[6], bit[7])
  BY DEF Byte, Total
<1> HIDE DEF n
<1>3. Gives(n, bit[0], bit[1], bit[2], bit[3], bit[4], bit[5], bit[6], bit[7])
  BY <1>1, <1>2, EightBits
<1>4. n \in Bytes /\ \A i \in 0..7 : BitOf(n, i) = bit[i]
  BY <1>3, Bits, Eight DEF Gives
<1> QED BY <1>4 DEF n

\* A byte is the byte of its bits.
LEMMA BitsOfByte ==
  ASSUME NEW n \in Bytes PROVE n = Byte([i \in 0..7 |-> BitOf(n, i)])
<1> DEFINE bit == [i \in 0..7 |-> BitOf(n, i)]
<1>1. bit \in [0..7 -> Binary] /\ \A i \in 0..7 : bit[i] = BitOf(n, i)
  BY BitBinary
<1> HIDE DEF bit
<1>2. n = Byte(bit)
  BY <1>1, BitsBack, SameBits
<1> QED BY <1>2 DEF bit

-----------------------------------------------------------------------------
(* The check sum.                                                          *)

\* Xor of bytes is a byte, and adds their bits without carry.
LEMMA XorBits ==
  ASSUME NEW a \in Bytes, NEW b \in Bytes
  PROVE  /\ Xor(a, b) \in Bytes
         /\ \A i \in 0..7 : BitOf(Xor(a, b), i) = (BitOf(a, i) + BitOf(b, i)) % 2
<1> DEFINE bit == [i \in 0..7 |-> (BitOf(a, i) + BitOf(b, i)) % 2]
<1>1. \A i \in 0..7 : BitOf(a, i) \in Binary /\ BitOf(b, i) \in Binary
  BY BitBinary
<1>2. bit \in [0..7 -> Binary]
  BY <1>1 DEF Binary
<1>3. Xor(a, b) = Byte(bit)
  BY DEF Xor
<1>4. \A i \in 0..7 : bit[i] = (BitOf(a, i) + BitOf(b, i)) % 2
  OBVIOUS
<1> HIDE DEF bit
<1> QED BY <1>2, <1>3, <1>4, BitsBack

\* Zero has no bits.
LEMMA ZeroBits == 0 \in Bytes /\ \A i \in 0..7 : BitOf(0, i) = 0
  BY Bits, Eight DEF Bytes

\* A byte cancels itself, and zero changes nothing.
LEMMA XorZero == ASSUME NEW a \in Bytes PROVE Xor(a, 0) = a /\ Xor(a, a) = 0
<1>1. \A i \in 0..7 : BitOf(a, i) \in Binary
  BY BitBinary
<1>2. \A x \in Binary : (x + 0) % 2 = x /\ (x + x) % 2 = 0
  BY DEF Binary
<1>3. /\ Xor(a, 0) \in Bytes /\ Xor(a, a) \in Bytes
      /\ \A i \in 0..7 : BitOf(Xor(a, 0), i) = BitOf(a, i) /\ BitOf(Xor(a, a), i) = 0
  BY <1>1, <1>2, ZeroBits, XorBits
<1> QED BY <1>3, ZeroBits, SameBits

\* The bytes that go on the rails: two to five of a command and their sum.
Commands == {b \in Seq(Bytes) : Len(b) \in 2..5}
\* What is loaded: a command and the byte that makes its sum zero.
Frames == {b \in Seq(Bytes) : Len(b) \in 3..6}

\* loadPacket's checksum: the exclusive or of a checked packet is zero, and
\* the bytes of the command come first in it.
LEMMA CheckedFrame ==
  ASSUME NEW b \in Commands
  PROVE  /\ Checked(b) \in Frames /\ Len(Checked(b)) = Len(b) + 1
         /\ \A i \in 1..Len(b) : Checked(b)[i] = b[i]
         /\ Sum(Checked(b)) = 0
<1> DEFINE at(q, i) == IF i <= Len(q) THEN q[i] ELSE 0
           s2 == Xor(at(b, 1), at(b, 2))
           s3 == Xor(s2, at(b, 3))
           s4 == Xor(s3, at(b, 4))
           s5 == Xor(s4, at(b, 5))
           sum == Sum(b)
           c == Checked(b)
<1>1. b \in Seq(Bytes) /\ Len(b) \in {2, 3, 4, 5} /\ 0 \in Bytes
  BY ZeroBits DEF Commands
<1>2. \A i \in 1..6 : at(b, i) \in Bytes
  BY <1>1
<1>3. sum = Xor(s5, at(b, 6)) /\ at(b, 6) = 0
  BY <1>1 DEF Sum
<1>4. s2 \in Bytes /\ s3 \in Bytes /\ s4 \in Bytes /\ s5 \in Bytes
  <2>1. s2 \in Bytes
    BY <1>2, XorBits
  <2>2. s3 \in Bytes
    BY <1>2, <2>1, XorBits
  <2>3. s4 \in Bytes
    BY <1>2, <2>2, XorBits
  <2>4. s5 \in Bytes
    BY <1>2, <2>3, XorBits
  <2> QED BY <2>1, <2>2, <2>3, <2>4
<1>5. sum = s5 /\ sum \in Bytes
  BY <1>3, <1>4, XorZero
<1>6. /\ c \in Seq(Bytes) /\ Len(c) = Len(b) + 1
      /\ \A i \in 1..Len(b) : c[i] = b[i]
      /\ c[Len(b) + 1] = sum
  BY <1>1, <1>5 DEF Checked
<1>7. Sum(c) = Xor(Xor(Xor(Xor(Xor(at(c, 1), at(c, 2)), at(c, 3)), at(c, 4)), at(c, 5)), at(c, 6))
  BY DEF Sum
<1>8. /\ Xor(0, 0) = 0 /\ Xor(s2, 0) = s2 /\ Xor(s3, 0) = s3 /\ Xor(s4, 0) = s4
      /\ Xor(s2, s2) = 0 /\ Xor(s3, s3) = 0 /\ Xor(s4, s4) = 0 /\ Xor(s5, s5) = 0
  BY <1>1, <1>4, XorZero
<1>9. at(c, 1) = at(b, 1) /\ at(c, 2) = at(b, 2)
  BY <1>1, <1>6
<1>10. Sum(c) = 0
  <2>1. CASE Len(b) = 2
    <3>1. at(c, 3) = sum /\ at(c, 4) = 0 /\ at(c, 5) = 0 /\ at(c, 6) = 0
      BY <1>6, <2>1
    <3>2. at(b, 3) = 0 /\ at(b, 4) = 0 /\ at(b, 5) = 0
      BY <2>1
    <3>3. sum = s2
      BY <1>5, <1>8, <3>2
    <3> QED BY <1>7, <1>8, <1>9, <3>1, <3>3
  <2>2. CASE Len(b) = 3
    <3>1. at(c, 3) = at(b, 3) /\ at(c, 4) = sum /\ at(c, 5) = 0 /\ at(c, 6) = 0
      BY <1>6, <2>2
    <3>2. at(b, 4) = 0 /\ at(b, 5) = 0
      BY <2>2
    <3>3. sum = s3
      BY <1>5, <1>8, <3>2
    <3> QED BY <1>7, <1>8, <1>9, <3>1, <3>3
  <2>3. CASE Len(b) = 4
    <3>1. /\ at(c, 3) = at(b, 3) /\ at(c, 4) = at(b, 4) /\ at(c, 5) = sum /\ at(c, 6) = 0
      BY <1>6, <2>3
    <3>2. at(b, 5) = 0
      BY <2>3
    <3>3. sum = s4
      BY <1>5, <1>8, <3>2
    <3> QED BY <1>7, <1>8, <1>9, <3>1, <3>3
  <2>4. CASE Len(b) = 5
    <3>1. /\ at(c, 3) = at(b, 3) /\ at(c, 4) = at(b, 4) /\ at(c, 5) = at(b, 5)
          /\ at(c, 6) = sum
      BY <1>6, <2>4
    <3> QED BY <1>5, <1>7, <1>8, <1>9, <3>1
  <2> QED BY <1>1, <2>1, <2>2, <2>3, <2>4
<1>11. c \in Frames
  <2>1. Len(c) \in 3..6
    BY <1>1, <1>6
  <2> HIDE DEF c
  <2> QED BY <1>6, <2>1 DEF Frames
<1> QED BY <1>6, <1>10, <1>11

-----------------------------------------------------------------------------
(* The bits on the rails.                                                  *)

\* Bit c of a packet, as the interrupt finds it in the buffer.
Sent(p, c) == BitOf(p.buf[(c \div 8) + 1], 7 - (c % 8))

\* A byte is the sum of its bits.
LEMMA ByteTotal ==
  ASSUME NEW n \in Bytes
  PROVE  n = Total(BitOf(n, 0), BitOf(n, 1), BitOf(n, 2), BitOf(n, 3),
           BitOf(n, 4), BitOf(n, 5), BitOf(n, 6), BitOf(n, 7))
  BY BitsOfByte DEF Byte, Total

\* What loadPacket's shifts leave of the bits of a byte.
Shifted(n, b0, b1, b2, b3, b4, b5, b6, b7) ==
  /\ (n * 2) % 256 = b0 * 2 + b1 * 4 + b2 * 8 + b3 * 16 + b4 * 32 + b5 * 64 + b6 * 128
  /\ (n * 128) % 256 = b0 * 128
  /\ (n * 64) % 256 = b0 * 64 + b1 * 128
  /\ (n * 32) % 256 = b0 * 32 + b1 * 64 + b2 * 128
  /\ (n * 16) % 256 = b0 * 16 + b1 * 32 + b2 * 64 + b3 * 128
  /\ n \div 2 = b1 + b2 * 2 + b3 * 4 + b4 * 8 + b5 * 16 + b6 * 32 + b7 * 64
  /\ n \div 4 = b2 + b3 * 2 + b4 * 4 + b5 * 8 + b6 * 16 + b7 * 32
  /\ n \div 8 = b3 + b4 * 2 + b5 * 4 + b6 * 8 + b7 * 16
  /\ n \div 16 = b4 + b5 * 2 + b6 * 4 + b7 * 8

\* What the shifts of loadPacket leave of eight bits.
LEMMA ShiftsOfBits ==
  ASSUME NEW b0 \in Binary, NEW b1 \in Binary, NEW b2 \in Binary, NEW b3 \in Binary,
         NEW b4 \in Binary, NEW b5 \in Binary, NEW b6 \in Binary, NEW b7 \in Binary
  PROVE  Shifted(Total(b0, b1, b2, b3, b4, b5, b6, b7), b0, b1, b2, b3, b4, b5, b6, b7)
<1> SUFFICES ASSUME NEW n, n = b0 + b1 * 2 + b2 * 4 + b3 * 8 + b4 * 16 + b5 * 32 + b6 * 64
                               + b7 * 128
             PROVE  Shifted(n, b0, b1, b2, b3, b4, b5, b6, b7)
  BY DEF Total
<1> USE DEF Binary
<1>1. (n * 2) % 256 = b0 * 2 + b1 * 4 + b2 * 8 + b3 * 16 + b4 * 32 + b5 * 64 + b6 * 128
  OBVIOUS
<1>2. (n * 128) % 256 = b0 * 128
  OBVIOUS
<1>3. (n * 64) % 256 = b0 * 64 + b1 * 128
  OBVIOUS
<1>4. (n * 32) % 256 = b0 * 32 + b1 * 64 + b2 * 128
  OBVIOUS
<1>5. (n * 16) % 256 = b0 * 16 + b1 * 32 + b2 * 64 + b3 * 128
  OBVIOUS
<1>6. n \div 2 = b1 + b2 * 2 + b3 * 4 + b4 * 8 + b5 * 16 + b6 * 32 + b7 * 64
  OBVIOUS
<1>7. n \div 4 = b2 + b3 * 2 + b4 * 4 + b5 * 8 + b6 * 16 + b7 * 32
  OBVIOUS
<1>8. n \div 8 = b3 + b4 * 2 + b5 * 4 + b6 * 8 + b7 * 16
  OBVIOUS
<1>9. n \div 16 = b4 + b5 * 2 + b6 * 4 + b7 * 8
  OBVIOUS
<1> QED BY <1>1, <1>2, <1>3, <1>4, <1>5, <1>6, <1>7, <1>8, <1>9 DEF Shifted

\* The same of a byte.
LEMMA ByteShifts ==
  ASSUME NEW n \in Bytes
  PROVE  Shifted(n, BitOf(n, 0), BitOf(n, 1), BitOf(n, 2), BitOf(n, 3),
                 BitOf(n, 4), BitOf(n, 5), BitOf(n, 6), BitOf(n, 7))
<1>1. /\ BitOf(n, 0) \in Binary /\ BitOf(n, 1) \in Binary /\ BitOf(n, 2) \in Binary
      /\ BitOf(n, 3) \in Binary /\ BitOf(n, 4) \in Binary /\ BitOf(n, 5) \in Binary
      /\ BitOf(n, 6) \in Binary /\ BitOf(n, 7) \in Binary
  BY BitBinary
<1>2. Shifted(Total(BitOf(n, 0), BitOf(n, 1), BitOf(n, 2), BitOf(n, 3),
                    BitOf(n, 4), BitOf(n, 5), BitOf(n, 6), BitOf(n, 7)),
              BitOf(n, 0), BitOf(n, 1), BitOf(n, 2), BitOf(n, 3),
              BitOf(n, 4), BitOf(n, 5), BitOf(n, 6), BitOf(n, 7))
  BY <1>1, ShiftsOfBits
<1> QED BY <1>2, ByteTotal

\* The bytes of the buffer, bit by bit: the zero that begins each byte of the
\* packet lies between the last bits of one and the first of the next.
LEMMA BufferBytes ==
  ASSUME NEW x \in Bytes, NEW y \in Bytes
  PROVE  /\ 252 + BitOf(x, 7)
              = Total(BitOf(x, 7), 0, 1, 1,
                      1, 1, 1, 1)
         /\ (x * 2) % 256
              = Total(0, BitOf(x, 0), BitOf(x, 1), BitOf(x, 2),
                      BitOf(x, 3), BitOf(x, 4), BitOf(x, 5), BitOf(x, 6))
         /\ y \div 2
              = Total(BitOf(y, 1), BitOf(y, 2), BitOf(y, 3), BitOf(y, 4),
                      BitOf(y, 5), BitOf(y, 6), BitOf(y, 7), 0)
         /\ ((x * 128) % 256) + (y \div 4)
              = Total(BitOf(y, 2), BitOf(y, 3), BitOf(y, 4), BitOf(y, 5),
                      BitOf(y, 6), BitOf(y, 7), 0, BitOf(x, 0))
         /\ ((x * 64) % 256) + (y \div 8)
              = Total(BitOf(y, 3), BitOf(y, 4), BitOf(y, 5), BitOf(y, 6),
                      BitOf(y, 7), 0, BitOf(x, 0), BitOf(x, 1))
         /\ ((x * 32) % 256) + (y \div 16)
              = Total(BitOf(y, 4), BitOf(y, 5), BitOf(y, 6), BitOf(y, 7),
                      0, BitOf(x, 0), BitOf(x, 1), BitOf(x, 2))
         /\ (x * 16) % 256
              = Total(0, 0, 0, 0,
                      BitOf(x, 0), BitOf(x, 1), BitOf(x, 2), BitOf(x, 3))
<1>1. \A i \in 0..7 : BitOf(x, i) \in Binary /\ BitOf(y, i) \in Binary
  BY BitBinary
<1>2. /\ Shifted(x, BitOf(x, 0), BitOf(x, 1), BitOf(x, 2), BitOf(x, 3),
                 BitOf(x, 4), BitOf(x, 5), BitOf(x, 6), BitOf(x, 7))
      /\ Shifted(y, BitOf(y, 0), BitOf(y, 1), BitOf(y, 2), BitOf(y, 3),
                 BitOf(y, 4), BitOf(y, 5), BitOf(y, 6), BitOf(y, 7))
  BY ByteShifts
<1>3. \A i \in 0..7 : BitOf(x, i) \in Int /\ BitOf(y, i) \in Int
  BY <1>1 DEF Binary
<1> QED BY <1>2, <1>3 DEF Shifted, Total

\* A byte reads as eight bits, given from the lowest on.
Reads(n, b0, b1, b2, b3, b4, b5, b6, b7) ==
  /\ n \in Bytes
  /\ BitOf(n, 0) = b0 /\ BitOf(n, 1) = b1 /\ BitOf(n, 2) = b2 /\ BitOf(n, 3) = b3
  /\ BitOf(n, 4) = b4 /\ BitOf(n, 5) = b5 /\ BitOf(n, 6) = b6 /\ BitOf(n, 7) = b7

\* The bits of a byte of the buffer, which loadPacket adds up from two bytes.
LEMMA TotalBits ==
  ASSUME NEW b0 \in Binary, NEW b1 \in Binary, NEW b2 \in Binary, NEW b3 \in Binary,
         NEW b4 \in Binary, NEW b5 \in Binary, NEW b6 \in Binary, NEW b7 \in Binary
  PROVE  Reads(Total(b0, b1, b2, b3, b4, b5, b6, b7), b0, b1, b2, b3, b4, b5, b6, b7)
<1> DEFINE n == Total(b0, b1, b2, b3, b4, b5, b6, b7)
<1>1. Gives(n, b0, b1, b2, b3, b4, b5, b6, b7)
  BY EightBits
<1> HIDE DEF n
<1>2. Reads(n, b0, b1, b2, b3, b4, b5, b6, b7)
  BY <1>1, Bits DEF Gives, Reads
<1> QED BY <1>2 DEF n

\* A zero and the eight bits of a byte, the highest first, from bit c on.
Framed(p, c, n) ==
  /\ Sent(p, c) = 0
  /\ Sent(p, c + 1) = BitOf(n, 7) /\ Sent(p, c + 2) = BitOf(n, 6)
  /\ Sent(p, c + 3) = BitOf(n, 5) /\ Sent(p, c + 4) = BitOf(n, 4)
  /\ Sent(p, c + 5) = BitOf(n, 3) /\ Sent(p, c + 6) = BitOf(n, 2)
  /\ Sent(p, c + 7) = BitOf(n, 1) /\ Sent(p, c + 8) = BitOf(n, 0)

\* loadPacket puts 22 ones on the rails, then every byte of the frame behind
\* a zero, whatever its length.
LEMMA OnTheRails ==
  ASSUME NEW B \in Frames
  PROVE  LET p == Pack(B)
         IN  /\ p.nBits = 22 + 9 * Len(B)
             /\ \A i \in 1..10 : p.buf[i] \in Bytes
             /\ \A c \in 0..21 : Sent(p, c) = 1
             /\ \A i \in 0..(Len(B) - 1) : Framed(p, 22 + 9 * i, B[i + 1])
<1> DEFINE p == Pack(B)
           x(i) == IF i < Len(B) THEN B[i + 1] ELSE 0
<1>1. B \in Seq(Bytes) /\ Len(B) \in 3..6
  BY DEF Frames
<1>2. /\ x(0) \in Bytes /\ x(1) \in Bytes /\ x(2) \in Bytes
      /\ x(3) \in Bytes /\ x(4) \in Bytes /\ x(5) \in Bytes
  <2>1. \A i \in 0..5 : i < Len(B) => B[i + 1] \in Bytes
    BY <1>1
  <2> QED BY <2>1, ZeroBits
<1>3. p.nBits = 22 + 9 * Len(B)
  <2>1. p.nBits = CASE Len(B) = 3 -> 49 [] Len(B) = 4 -> 58 [] Len(B) = 5 -> 67 [] OTHER -> 76
    BY DEF Pack
  <2>2. PICK n \in 3..6 : n = Len(B)
    BY <1>1
  <2> HIDE DEF p
  <2>3. CASE n = 3
    BY <2>1, <2>2, <2>3
  <2>4. CASE n = 4
    BY <2>1, <2>2, <2>4
  <2>5. CASE n = 5
    BY <2>1, <2>2, <2>5
  <2>6. CASE n = 6
    BY <2>1, <2>2, <2>6
  <2> QED BY <2>3, <2>4, <2>5, <2>6
<1>4. p.buf = <<255, 255, 252 + BitOf(x(0), 7), (x(0) * 2) % 256, x(1), x(2) \div 2,
                ((x(2) * 128) % 256) + (x(3) \div 4), ((x(3) * 64) % 256) + (x(4) \div 8),
                ((x(4) * 32) % 256) + (x(5) \div 16), (x(5) * 16) % 256>>
  BY DEF Pack
<1> HIDE DEF p, x
<1>5. /\ p.buf[1] = 255 /\ p.buf[2] = 255 /\ p.buf[3] = 252 + BitOf(x(0), 7)
      /\ p.buf[4] = (x(0) * 2) % 256 /\ p.buf[5] = x(1) /\ p.buf[6] = x(2) \div 2
      /\ p.buf[7] = ((x(2) * 128) % 256) + (x(3) \div 4)
      /\ p.buf[8] = ((x(3) * 64) % 256) + (x(4) \div 8)
      /\ p.buf[9] = ((x(4) * 32) % 256) + (x(5) \div 16)
      /\ p.buf[10] = (x(5) * 16) % 256
  BY <1>4
<1>6. \A i \in 0..7 : /\ BitOf(x(0), i) \in Binary /\ BitOf(x(1), i) \in Binary
                     /\ BitOf(x(2), i) \in Binary /\ BitOf(x(3), i) \in Binary
                     /\ BitOf(x(4), i) \in Binary /\ BitOf(x(5), i) \in Binary
  BY <1>2, BitBinary
<1>7. 0 \in Binary /\ 1 \in Binary
  BY DEF Binary
<1>8. Reads(p.buf[3], BitOf(x(0), 7), 0, 1, 1,
                         1, 1, 1, 1)
  <2>1. p.buf[3]
           = Total(BitOf(x(0), 7), 0, 1, 1,
                   1, 1, 1, 1)
    BY <1>2, <1>5, BufferBytes
  <2>2. /\ 0 \in Binary /\ 1 \in Binary /\ BitOf(x(0), 7) \in Binary
    BY <1>6, <1>7
  <2>3. Reads(Total(BitOf(x(0), 7), 0, 1, 1,
                    1, 1, 1, 1),
              BitOf(x(0), 7), 0, 1, 1,
              1, 1, 1, 1)
    BY <2>2, TotalBits
  <2> QED BY <2>1, <2>3
<1>9. Reads(p.buf[4], 0, BitOf(x(0), 0), BitOf(x(0), 1), BitOf(x(0), 2),
                         BitOf(x(0), 3), BitOf(x(0), 4), BitOf(x(0), 5), BitOf(x(0), 6))
  <2>1. p.buf[4]
           = Total(0, BitOf(x(0), 0), BitOf(x(0), 1), BitOf(x(0), 2),
                   BitOf(x(0), 3), BitOf(x(0), 4), BitOf(x(0), 5), BitOf(x(0), 6))
    BY <1>2, <1>5, BufferBytes
  <2>2. /\ 0 \in Binary /\ BitOf(x(0), 0) \in Binary /\ BitOf(x(0), 1) \in Binary
        /\ BitOf(x(0), 2) \in Binary /\ BitOf(x(0), 3) \in Binary /\ BitOf(x(0), 4) \in Binary
        /\ BitOf(x(0), 5) \in Binary /\ BitOf(x(0), 6) \in Binary
    BY <1>6, <1>7
  <2>3. Reads(Total(0, BitOf(x(0), 0), BitOf(x(0), 1), BitOf(x(0), 2),
                    BitOf(x(0), 3), BitOf(x(0), 4), BitOf(x(0), 5), BitOf(x(0), 6)),
              0, BitOf(x(0), 0), BitOf(x(0), 1), BitOf(x(0), 2),
              BitOf(x(0), 3), BitOf(x(0), 4), BitOf(x(0), 5), BitOf(x(0), 6))
    BY <2>2, TotalBits
  <2> QED BY <2>1, <2>3
<1>10. Reads(p.buf[6], BitOf(x(2), 1), BitOf(x(2), 2), BitOf(x(2), 3), BitOf(x(2), 4),
                         BitOf(x(2), 5), BitOf(x(2), 6), BitOf(x(2), 7), 0)
  <2>1. p.buf[6]
           = Total(BitOf(x(2), 1), BitOf(x(2), 2), BitOf(x(2), 3), BitOf(x(2), 4),
                   BitOf(x(2), 5), BitOf(x(2), 6), BitOf(x(2), 7), 0)
    BY <1>2, <1>5, BufferBytes
  <2>2. /\ 0 \in Binary /\ BitOf(x(2), 1) \in Binary /\ BitOf(x(2), 2) \in Binary
        /\ BitOf(x(2), 3) \in Binary /\ BitOf(x(2), 4) \in Binary /\ BitOf(x(2), 5) \in Binary
        /\ BitOf(x(2), 6) \in Binary /\ BitOf(x(2), 7) \in Binary
    BY <1>6, <1>7
  <2>3. Reads(Total(BitOf(x(2), 1), BitOf(x(2), 2), BitOf(x(2), 3), BitOf(x(2), 4),
                    BitOf(x(2), 5), BitOf(x(2), 6), BitOf(x(2), 7), 0),
              BitOf(x(2), 1), BitOf(x(2), 2), BitOf(x(2), 3), BitOf(x(2), 4),
              BitOf(x(2), 5), BitOf(x(2), 6), BitOf(x(2), 7), 0)
    BY <2>2, TotalBits
  <2> QED BY <2>1, <2>3
<1>11. Reads(p.buf[7], BitOf(x(3), 2), BitOf(x(3), 3), BitOf(x(3), 4), BitOf(x(3), 5),
                         BitOf(x(3), 6), BitOf(x(3), 7), 0, BitOf(x(2), 0))
  <2>1. p.buf[7]
           = Total(BitOf(x(3), 2), BitOf(x(3), 3), BitOf(x(3), 4), BitOf(x(3), 5),
                   BitOf(x(3), 6), BitOf(x(3), 7), 0, BitOf(x(2), 0))
    BY <1>2, <1>5, BufferBytes
  <2>2. /\ 0 \in Binary /\ BitOf(x(2), 0) \in Binary /\ BitOf(x(3), 2) \in Binary
        /\ BitOf(x(3), 3) \in Binary /\ BitOf(x(3), 4) \in Binary /\ BitOf(x(3), 5) \in Binary
        /\ BitOf(x(3), 6) \in Binary /\ BitOf(x(3), 7) \in Binary
    BY <1>6, <1>7
  <2>3. Reads(Total(BitOf(x(3), 2), BitOf(x(3), 3), BitOf(x(3), 4), BitOf(x(3), 5),
                    BitOf(x(3), 6), BitOf(x(3), 7), 0, BitOf(x(2), 0)),
              BitOf(x(3), 2), BitOf(x(3), 3), BitOf(x(3), 4), BitOf(x(3), 5),
              BitOf(x(3), 6), BitOf(x(3), 7), 0, BitOf(x(2), 0))
    BY <2>2, TotalBits
  <2> QED BY <2>1, <2>3
<1>12. Reads(p.buf[8], BitOf(x(4), 3), BitOf(x(4), 4), BitOf(x(4), 5), BitOf(x(4), 6),
                         BitOf(x(4), 7), 0, BitOf(x(3), 0), BitOf(x(3), 1))
  <2>1. p.buf[8]
           = Total(BitOf(x(4), 3), BitOf(x(4), 4), BitOf(x(4), 5), BitOf(x(4), 6),
                   BitOf(x(4), 7), 0, BitOf(x(3), 0), BitOf(x(3), 1))
    BY <1>2, <1>5, BufferBytes
  <2>2. /\ 0 \in Binary /\ BitOf(x(3), 0) \in Binary /\ BitOf(x(3), 1) \in Binary
        /\ BitOf(x(4), 3) \in Binary /\ BitOf(x(4), 4) \in Binary /\ BitOf(x(4), 5) \in Binary
        /\ BitOf(x(4), 6) \in Binary /\ BitOf(x(4), 7) \in Binary
    BY <1>6, <1>7
  <2>3. Reads(Total(BitOf(x(4), 3), BitOf(x(4), 4), BitOf(x(4), 5), BitOf(x(4), 6),
                    BitOf(x(4), 7), 0, BitOf(x(3), 0), BitOf(x(3), 1)),
              BitOf(x(4), 3), BitOf(x(4), 4), BitOf(x(4), 5), BitOf(x(4), 6),
              BitOf(x(4), 7), 0, BitOf(x(3), 0), BitOf(x(3), 1))
    BY <2>2, TotalBits
  <2> QED BY <2>1, <2>3
<1>13. Reads(p.buf[9], BitOf(x(5), 4), BitOf(x(5), 5), BitOf(x(5), 6), BitOf(x(5), 7),
                         0, BitOf(x(4), 0), BitOf(x(4), 1), BitOf(x(4), 2))
  <2>1. p.buf[9]
           = Total(BitOf(x(5), 4), BitOf(x(5), 5), BitOf(x(5), 6), BitOf(x(5), 7),
                   0, BitOf(x(4), 0), BitOf(x(4), 1), BitOf(x(4), 2))
    BY <1>2, <1>5, BufferBytes
  <2>2. /\ 0 \in Binary /\ BitOf(x(4), 0) \in Binary /\ BitOf(x(4), 1) \in Binary
        /\ BitOf(x(4), 2) \in Binary /\ BitOf(x(5), 4) \in Binary /\ BitOf(x(5), 5) \in Binary
        /\ BitOf(x(5), 6) \in Binary /\ BitOf(x(5), 7) \in Binary
    BY <1>6, <1>7
  <2>3. Reads(Total(BitOf(x(5), 4), BitOf(x(5), 5), BitOf(x(5), 6), BitOf(x(5), 7),
                    0, BitOf(x(4), 0), BitOf(x(4), 1), BitOf(x(4), 2)),
              BitOf(x(5), 4), BitOf(x(5), 5), BitOf(x(5), 6), BitOf(x(5), 7),
              0, BitOf(x(4), 0), BitOf(x(4), 1), BitOf(x(4), 2))
    BY <2>2, TotalBits
  <2> QED BY <2>1, <2>3
<1>14. Reads(p.buf[10], 0, 0, 0, 0,
                         BitOf(x(5), 0), BitOf(x(5), 1), BitOf(x(5), 2), BitOf(x(5), 3))
  <2>1. p.buf[10]
           = Total(0, 0, 0, 0,
                   BitOf(x(5), 0), BitOf(x(5), 1), BitOf(x(5), 2), BitOf(x(5), 3))
    BY <1>2, <1>5, BufferBytes
  <2>2. /\ 0 \in Binary /\ BitOf(x(5), 0) \in Binary /\ BitOf(x(5), 1) \in Binary
        /\ BitOf(x(5), 2) \in Binary /\ BitOf(x(5), 3) \in Binary
    BY <1>6, <1>7
  <2>3. Reads(Total(0, 0, 0, 0,
                    BitOf(x(5), 0), BitOf(x(5), 1), BitOf(x(5), 2), BitOf(x(5), 3)),
              0, 0, 0, 0,
              BitOf(x(5), 0), BitOf(x(5), 1), BitOf(x(5), 2), BitOf(x(5), 3))
    BY <2>2, TotalBits
  <2> QED BY <2>1, <2>3
<1>15. /\ 255 \in Bytes
       /\ BitOf(255, 0) = 1 /\ BitOf(255, 1) = 1 /\ BitOf(255, 2) = 1 /\ BitOf(255, 3) = 1
       /\ BitOf(255, 4) = 1 /\ BitOf(255, 5) = 1 /\ BitOf(255, 6) = 1 /\ BitOf(255, 7) = 1
  BY Bits DEF Bytes
<1>16. \A c \in 0..21 : Sent(p, c) = 1
  <2>1. \A c \in 0..7 : Sent(p, c) = 1
    BY <1>5, <1>15, Eight DEF Sent
  <2>2. \A c \in 8..15 : Sent(p, c) = 1
    <3> SUFFICES ASSUME NEW c \in 8..15 PROVE Sent(p, c) = 1
      OBVIOUS
    <3>1. c \div 8 = 1 /\ 7 - (c % 8) \in 0..7
      OBVIOUS
    <3> QED BY <1>5, <1>15, <3>1, Eight DEF Sent
  <2>3. \A c \in 16..21 : Sent(p, c) = 1
    <3> SUFFICES ASSUME NEW c \in 16..21 PROVE Sent(p, c) = 1
      OBVIOUS
    <3>1. c \div 8 = 2 /\ 7 - (c % 8) \in 2..7
      OBVIOUS
    <3>2. 7 - (c % 8) \in {2, 3, 4, 5, 6, 7}
      BY <3>1
    <3> QED BY <1>8, <3>1, <3>2 DEF Sent, Reads
  <2> QED BY <2>1, <2>2, <2>3
<1>17. Framed(p, 22, x(0))
  BY <1>8, <1>9 DEF Framed, Sent, Reads
<1>18. Framed(p, 31, x(1))
  BY <1>9, <1>5 DEF Framed, Sent, Reads
<1>19. Framed(p, 40, x(2))
  BY <1>10, <1>11 DEF Framed, Sent, Reads
<1>20. Framed(p, 49, x(3))
  BY <1>11, <1>12 DEF Framed, Sent, Reads
<1>21. Framed(p, 58, x(4))
  BY <1>12, <1>13 DEF Framed, Sent, Reads
<1>22. Framed(p, 67, x(5))
  BY <1>13, <1>14 DEF Framed, Sent, Reads
<1>23. \A i \in 1..10 : p.buf[i] \in Bytes
  <2>1. \A i \in 1..10 : i \in {1, 2, 3, 4, 5, 6, 7, 8, 9, 10}
    OBVIOUS
  <2> QED BY <1>2, <1>5, <1>8, <1>9, <1>10, <1>11, <1>12, <1>13, <1>14, <1>15, <2>1 DEF Reads
<1>24. \A i \in 0..(Len(B) - 1) : Framed(p, 22 + 9 * i, B[i + 1])
  <2> SUFFICES ASSUME NEW i \in 0..(Len(B) - 1) PROVE Framed(p, 22 + 9 * i, B[i + 1])
    OBVIOUS
  <2>1. x(i) = B[i + 1]
    BY <1>1 DEF x
  <2>2. i = 0 \/ i = 1 \/ i = 2 \/ i = 3 \/ i = 4 \/ i = 5
    <3>1. PICK n \in 3..6 : n = Len(B)
      BY <1>1
    <3>2. i \in 0..(n - 1)
      BY <3>1
    <3> QED BY <3>2
  <2>3. Framed(p, 22 + 9 * i, x(i))
    BY <2>2, <1>17, <1>18, <1>19, <1>20, <1>21, <1>22
  <2> QED BY <2>1, <2>3
<1> QED BY <1>3, <1>16, <1>23, <1>24 DEF p

-----------------------------------------------------------------------------
(* The decoder, bit by bit.                                                *)

\* What a decoder has of byte n when it has received j of its bits.
High(n, j) == n \div <<256, 128, 64, 32, 16, 8, 4, 2, 1>>[j + 1]

\* A decoder that has counted n ones, and one that has i bytes of a frame
\* and j bits of the next.
Listening(n) == [Lost EXCEPT !.ones = n]
\* A decoder in a packet: `bits` bits of a byte behind `bytes`, and one that has
\* read i bytes and j bits of the packet B.
Data(byte, bits, bytes) ==
  [phase |-> "data", ones |-> 0, byte |-> byte, bits |-> bits, bytes |-> bytes]
Reading(B, i, j) == Data(High(B[i + 1], j), j, SubSeq(B, 1, i))

\* The first j bits of a byte, bit by bit.
LEMMA HighSteps ==
  ASSUME NEW n \in Bytes
  PROVE  /\ High(n, 0) = 0 /\ High(n, 8) = n
         /\ \A j \in 0..7 : High(n, j + 1) = 2 * High(n, j) + BitOf(n, 7 - j)
<1>1. /\ High(n, 0) = n \div 256 /\ High(n, 1) = n \div 128 /\ High(n, 2) = n \div 64
      /\ High(n, 3) = n \div 32 /\ High(n, 4) = n \div 16 /\ High(n, 5) = n \div 8
      /\ High(n, 6) = n \div 4 /\ High(n, 7) = n \div 2 /\ High(n, 8) = n \div 1
  BY DEF High
<1>2. \A j \in 0..7 : High(n, j + 1) = 2 * High(n, j) + BitOf(n, 7 - j)
  <2>1. High(n, 1) = 2 * High(n, 0) + BitOf(n, 7)
    <3>1. High(n, 0) = 0 /\ (n \div 128) % 2 \in Int
      BY <1>1 DEF Bytes
    <3>2. High(n, 1) = (n \div 128) % 2 /\ BitOf(n, 7) = (n \div 128) % 2
      BY <1>1, Bits, Halves
    <3> QED BY <3>1, <3>2
  <2>2. High(n, 2) = 2 * High(n, 1) + BitOf(n, 6)
    BY <1>1, Bits, Halves
  <2>3. High(n, 3) = 2 * High(n, 2) + BitOf(n, 5)
    BY <1>1, Bits, Halves
  <2>4. High(n, 4) = 2 * High(n, 3) + BitOf(n, 4)
    BY <1>1, Bits, Halves
  <2>5. High(n, 5) = 2 * High(n, 4) + BitOf(n, 3)
    BY <1>1, Bits, Halves
  <2>6. High(n, 6) = 2 * High(n, 5) + BitOf(n, 2)
    BY <1>1, Bits, Halves
  <2>7. High(n, 7) = 2 * High(n, 6) + BitOf(n, 1)
    BY <1>1, Bits, Halves
  <2>8. High(n, 8) = 2 * High(n, 7) + BitOf(n, 0)
    BY <1>1, Bits, Halves DEF Bytes
  <2> QED BY <2>1, <2>2, <2>3, <2>4, <2>5, <2>6, <2>7, <2>8, Eight
<1> QED BY <1>1, <1>2, Halves

\* What Receive makes of a decoder in either phase.
LEMMA Listens ==
  ASSUME NEW n \in 0..10
  PROVE  /\ Receive(Listening(n), 1) = Listening(IF n < 10 THEN n + 1 ELSE 10)
         /\ n # 10 => Receive(Listening(n), 0) = Listening(0)
         /\ n = 10 => Receive(Listening(n), 0) = Data(0, 0, <<>>)
         /\ \A bit : ~Complete(Listening(n), bit)
<1> DEFINE d == Listening(n)
<1>1. d.phase = "preamble" /\ d.ones = n
  BY DEF Listening, Lost
<1>2. \A m : [d EXCEPT !.ones = m] = Listening(m)
  BY DEF Listening, Lost
<1>3. Listening(0) = Lost
  BY DEF Listening, Lost
<1>4. [Lost EXCEPT !.phase = "data"] = Data(0, 0, <<>>)
  BY DEF Lost, Data
<1> HIDE DEF d
<1>5. Receive(d, 1) = [d EXCEPT !.ones = IF d.ones < 10 THEN d.ones + 1 ELSE 10]
  BY <1>1 DEF Receive
<1>6. Receive(d, 0) = IF d.ones = 10 THEN [Lost EXCEPT !.phase = "data"] ELSE Lost
  BY <1>1 DEF Receive
<1>7. Receive(d, 1) = Listening(IF n < 10 THEN n + 1 ELSE 10)
  BY <1>1, <1>2, <1>5
<1>8. \A bit : ~Complete(d, bit)
  BY <1>1 DEF Complete
<1> QED BY <1>1, <1>3, <1>4, <1>6, <1>7, <1>8 DEF d

\* A decoder in a byte takes a bit and completes nothing.
LEMMA CollectsBit ==
  ASSUME NEW byte \in Bytes, NEW bits \in 0..7, NEW bytes \in Seq(Bytes), NEW bit \in Binary
  PROVE  /\ Receive(Data(byte, bits, bytes), bit) = Data(2 * byte + bit, bits + 1, bytes)
         /\ ~Complete(Data(byte, bits, bytes), bit)
<1> DEFINE d == Data(byte, bits, bytes)
           x == 2 * byte + bit
           y == bits + 1
<1>1. d.phase = "data" /\ d.byte = byte /\ d.bits = bits /\ d.bytes = bytes
  BY DEF Data
<1>2. bits < 8 /\ bits # 8
  OBVIOUS
<1> HIDE DEF x, y
<1>3. [d EXCEPT !.byte = x, !.bits = y] = Data(x, y, bytes)
  <2>1. [d EXCEPT !.byte = x] = Data(x, bits, bytes)
    BY DEF Data
  <2>2. [Data(x, bits, bytes) EXCEPT !.bits = y] = Data(x, y, bytes)
    BY DEF Data
  <2>3. [d EXCEPT !.byte = x, !.bits = y] = [[d EXCEPT !.byte = x] EXCEPT !.bits = y]
    OBVIOUS
  <2> QED BY <2>1, <2>2, <2>3
<1> HIDE DEF d
<1>4. Receive(d, bit) = [d EXCEPT !.byte = x, !.bits = y]
  BY <1>1, <1>2 DEF Receive, x, y
<1>5. ~Complete(d, bit)
  BY <1>1, <1>2 DEF Complete
<1>6. Receive(d, bit) = Data(x, y, bytes)
  BY <1>3, <1>4
<1> QED BY <1>5, <1>6 DEF d, x, y

\* After a byte a zero goes on with the next one, and a one ends the packet and
\* is the first of a preamble.
LEMMA CollectsByte ==
  ASSUME NEW byte \in Bytes, NEW bytes \in Seq(Bytes)
  PROVE  /\ Receive(Data(byte, 8, bytes), 0) = Data(0, 0, Append(bytes, byte))
         /\ Receive(Data(byte, 8, bytes), 1) = Listening(1)
         /\ ~Complete(Data(byte, 8, bytes), 0) /\ Complete(Data(byte, 8, bytes), 1)
<1> DEFINE d == Data(byte, 8, bytes)
           q == Append(bytes, byte)
<1>1. d.phase = "data" /\ d.byte = byte /\ d.bits = 8 /\ d.bytes = bytes
  BY DEF Data
<1> HIDE DEF q
<1>2. [d EXCEPT !.bytes = q, !.byte = 0, !.bits = 0] = Data(0, 0, q)
  <2>1. [d EXCEPT !.bytes = q] = Data(byte, 8, q)
    BY DEF Data
  <2>2. [Data(byte, 8, q) EXCEPT !.byte = 0] = Data(0, 8, q)
    BY DEF Data
  <2>3. [Data(0, 8, q) EXCEPT !.bits = 0] = Data(0, 0, q)
    BY DEF Data
  <2>4. [d EXCEPT !.bytes = q, !.byte = 0, !.bits = 0]
          = [[[d EXCEPT !.bytes = q] EXCEPT !.byte = 0] EXCEPT !.bits = 0]
    OBVIOUS
  <2> QED BY <2>1, <2>2, <2>3, <2>4
<1> HIDE DEF d
<1>3. Receive(d, 0) = [d EXCEPT !.bytes = q, !.byte = 0, !.bits = 0]
  BY <1>1 DEF Receive, q
<1>4. Receive(d, 1) = [Lost EXCEPT !.ones = 1]
  BY <1>1 DEF Receive
<1>5. ~Complete(d, 0) /\ Complete(d, 1)
  BY <1>1 DEF Complete
<1>6. Receive(d, 0) = Data(0, 0, q)
  BY <1>2, <1>3
<1> QED BY <1>4, <1>5, <1>6 DEF d, q, Listening

\* The bytes of a packet, and of its beginning.
LEMMA FrameByte ==
  ASSUME NEW B \in Frames, NEW i \in 0..(Len(B) - 1)
  PROVE  /\ B[i + 1] \in Bytes /\ i \in Nat /\ Len(B) \in Nat
         /\ SubSeq(B, 1, i) \in Seq(Bytes) /\ Len(SubSeq(B, 1, i)) = i
         /\ \A k \in 1..i : SubSeq(B, 1, i)[k] = B[k]
<1>1. B \in Seq(Bytes) /\ Len(B) \in Nat
  BY DEF Frames
<1>2. \A k \in 1..i : B[k] \in Bytes
  BY <1>1
<1> QED BY <1>1, <1>2, SubSeqProperties

\* A byte that is whole joins those received.
LEMMA NextByte ==
  ASSUME NEW B \in Frames, NEW i \in 0..(Len(B) - 1)
  PROVE  Append(SubSeq(B, 1, i), B[i + 1]) = SubSeq(B, 1, i + 1)
<1>1. /\ B[i + 1] \in Bytes /\ i \in Nat /\ Len(B) \in Nat
      /\ SubSeq(B, 1, i) \in Seq(Bytes) /\ Len(SubSeq(B, 1, i)) = i
      /\ \A k \in 1..i : SubSeq(B, 1, i)[k] = B[k]
  BY FrameByte
<1>2. \A k \in 1..(i + 1) : B[k] \in Bytes
  BY <1>1 DEF Frames
<1>3. /\ SubSeq(B, 1, i + 1) \in Seq(Bytes) /\ Len(SubSeq(B, 1, i + 1)) = i + 1
      /\ \A k \in 1..(i + 1) : SubSeq(B, 1, i + 1)[k] = B[k]
  BY <1>1, <1>2, SubSeqProperties
<1> DEFINE a == Append(SubSeq(B, 1, i), B[i + 1])
<1>4. /\ a \in Seq(Bytes) /\ Len(a) = i + 1
      /\ \A k \in 1..(i + 1) : a[k] = B[k]
  BY <1>1, AppendProperties
<1> HIDE DEF a
<1>5. a = SubSeq(B, 1, i + 1)
  BY <1>3, <1>4, SeqEqual
<1> QED BY <1>5 DEF a

\* The bits of a frame take the decoder through its bytes.
LEMMA ReadStart ==
  ASSUME NEW B \in Frames
  PROVE  Reading(B, 0, 0) = Data(0, 0, <<>>)
<1>1. B[1] \in Bytes /\ B[0 + 1] = B[1]
  BY DEF Frames
<1>2. High(B[0 + 1], 0) = 0
  BY <1>1, HighSteps
<1>3. SubSeq(B, 1, 0) = <<>>
  BY SubSeqEmpty
<1> QED BY <1>2, <1>3 DEF Reading

\* A byte that is read in part is a byte.
LEMMA HighBytes == ASSUME NEW n \in Bytes, NEW j \in 0..8 PROVE High(n, j) \in Bytes
<1>1. j \in {0, 1, 2, 3, 4, 5, 6, 7, 8}
  OBVIOUS
<1> QED BY <1>1 DEF High, Bytes

\* A decoder reads the next bit of its byte, the high bits first.
LEMMA ReadBit ==
  ASSUME NEW B \in Frames, NEW i \in 0..(Len(B) - 1), NEW j \in 0..7
  PROVE  /\ Receive(Reading(B, i, j), BitOf(B[i + 1], 7 - j)) = Reading(B, i, j + 1)
         /\ ~Complete(Reading(B, i, j), BitOf(B[i + 1], 7 - j))
<1> DEFINE n == B[i + 1]
<1>1. n \in Bytes /\ SubSeq(B, 1, i) \in Seq(Bytes)
  BY FrameByte
<1> HIDE DEF n
<1>2. High(n, j + 1) = 2 * High(n, j) + BitOf(n, 7 - j) /\ BitOf(n, 7 - j) \in Binary
  BY <1>1, HighSteps, BitBinary
<1>3. j \in 0..8
  OBVIOUS
<1>5. High(n, j) \in Bytes
  BY <1>1, <1>3, HighBytes
<1>4. /\ Receive(Data(High(n, j), j, SubSeq(B, 1, i)), BitOf(n, 7 - j))
           = Data(High(n, j + 1), j + 1, SubSeq(B, 1, i))
      /\ ~Complete(Data(High(n, j), j, SubSeq(B, 1, i)), BitOf(n, 7 - j))
  BY <1>1, <1>2, <1>5, CollectsBit
<1> QED BY <1>4 DEF Reading, n

\* A decoder reads the zero before the next byte of its packet.
LEMMA ReadZero ==
  ASSUME NEW B \in Frames, NEW i \in 0..(Len(B) - 2)
  PROVE  /\ Receive(Reading(B, i, 8), 0) = Reading(B, i + 1, 0)
         /\ ~Complete(Reading(B, i, 8), 0)
<1>1. i \in 0..(Len(B) - 1) /\ i + 1 \in 0..(Len(B) - 1)
  BY DEF Frames
<1>2. /\ B[i + 1] \in Bytes /\ SubSeq(B, 1, i) \in Seq(Bytes)
      /\ High(B[i + 1], 8) = B[i + 1] /\ High(B[(i + 1) + 1], 0) = 0
  BY <1>1, FrameByte, HighSteps
<1>3. Append(SubSeq(B, 1, i), B[i + 1]) = SubSeq(B, 1, i + 1)
  BY <1>1, NextByte
<1>4. /\ Receive(Data(B[i + 1], 8, SubSeq(B, 1, i)), 0) = Data(0, 0, SubSeq(B, 1, i + 1))
      /\ ~Complete(Data(B[i + 1], 8, SubSeq(B, 1, i)), 0)
  BY <1>2, <1>3, CollectsByte
<1> QED BY <1>2, <1>4 DEF Reading

\* The first one of the next preamble completes the frame.
LEMMA ReadOne ==
  ASSUME NEW B \in Frames
  PROVE  /\ Receive(Reading(B, Len(B) - 1, 8), 1) = Listening(1)
         /\ Complete(Reading(B, Len(B) - 1, 8), 1)
         /\ Append(Reading(B, Len(B) - 1, 8).bytes, Reading(B, Len(B) - 1, 8).byte) = B
<1> DEFINE i == Len(B) - 1
<1>1. i \in 0..(Len(B) - 1) /\ i + 1 = Len(B) /\ B \in Seq(Bytes)
  BY DEF Frames
<1> HIDE DEF i
<1>2. /\ B[i + 1] \in Bytes /\ SubSeq(B, 1, i) \in Seq(Bytes)
      /\ High(B[i + 1], 8) = B[i + 1]
  BY <1>1, FrameByte, HighSteps
<1>3. Append(SubSeq(B, 1, i), B[i + 1]) = SubSeq(B, 1, i + 1)
  BY <1>1, NextByte
<1>4. SubSeq(B, 1, Len(B)) = B
  BY <1>1, SubSeqFull
<1>5. Reading(B, i, 8) = Data(B[i + 1], 8, SubSeq(B, 1, i))
  BY <1>2 DEF Reading
<1>6. /\ Receive(Reading(B, i, 8), 1) = Listening(1) /\ Complete(Reading(B, i, 8), 1)
  BY <1>2, <1>5, CollectsByte
<1>7. Append(Reading(B, i, 8).bytes, Reading(B, i, 8).byte) = B
  BY <1>1, <1>3, <1>4, <1>5 DEF Data
<1> QED BY <1>6, <1>7 DEF i

-----------------------------------------------------------------------------
(* The idle packet.                                                        *)

\* The bytes of the idle packet.
IdleFrame == Checked(<<255, 0>>)

\* The constant idle packet is what loadPacket makes of its bytes.
LEMMA IdleIsFrame ==
  /\ IdleFrame \in Frames /\ Len(IdleFrame) = 3 /\ IdlePacket = Pack(IdleFrame)
  /\ IdleFrame[1] = 255 /\ IdleFrame[2] = 0 /\ IdleFrame[3] = 255
<1> DEFINE b == <<255, 0>>
           c == Append(b, 255)
<1>1. 255 \in Bytes /\ 0 \in Bytes
  BY DEF Bytes
<1>2. b \in Seq(Bytes)
  BY <1>1
<1>3. Len(b) = 2 /\ b[1] = 255 /\ b[2] = 0
  OBVIOUS
<1>4. Sum(b) = Xor(Xor(Xor(Xor(Xor(255, 0), 0), 0), 0), 0)
  BY <1>3 DEF Sum
<1>5. Sum(b) = 255
  BY <1>1, <1>4, XorZero
<1>6. b \in Commands
  BY <1>2, <1>3 DEF Commands
<1>7. IdleFrame = c
  BY <1>5 DEF IdleFrame, Checked
<1>8. IdleFrame \in Frames /\ IdlePacket = Pack(IdleFrame)
  BY <1>6, CheckedFrame DEF IdleFrame, IdlePacket
<1> HIDE DEF b
<1>9. Len(c) = Len(b) + 1 /\ (\A i \in 1..Len(b) : c[i] = b[i]) /\ c[Len(b) + 1] = 255
  BY <1>1, <1>2, AppendProperties
<1> HIDE DEF c
<1> QED BY <1>3, <1>7, <1>8, <1>9

\* How long a run of ones a decoder can have counted in the middle of an idle
\* packet: it finds no preamble before the next one.
OnesAt(c) ==
  IF c <= 22 THEN 10 ELSE IF c <= 31 THEN c - 23 ELSE IF c <= 41 THEN 0 ELSE c - 41

\* The bits of the idle packet: its only zeros are the start bit and the nine of
\* the second byte.
LEMMA IdleBits ==
  /\ IdlePacket.nBits = 49
  /\ \A c \in 0..48 : Sent(IdlePacket, c) = IF c = 22 \/ c \in 31..40 THEN 0 ELSE 1
<1> DEFINE p == IdlePacket
<1> DEFINE B == IdleFrame
<1>9. B \in Frames /\ Len(B) = 3 /\ p = Pack(B) /\ B[1] = 255 /\ B[2] = 0 /\ B[3] = 255
  BY IdleIsFrame
<1> HIDE DEF p, B
<1>10. /\ p.nBits = 22 + 9 * Len(B)
       /\ \A c \in 0..21 : Sent(p, c) = 1
       /\ \A i \in 0..(Len(B) - 1) : Framed(p, 22 + 9 * i, B[i + 1])
  <2>1. /\ Pack(B).nBits = 22 + 9 * Len(B)
        /\ \A c \in 0..21 : Sent(Pack(B), c) = 1
        /\ \A i \in 0..(Len(B) - 1) : Framed(Pack(B), 22 + 9 * i, B[i + 1])
    BY <1>9, OnTheRails
  <2> QED BY <1>9, <2>1
<1>1. p.nBits = 49 /\ \A c \in 0..21 : Sent(p, c) = 1
  BY <1>9, <1>10
<1>2. Framed(p, 22, 255) /\ Framed(p, 31, 0) /\ Framed(p, 40, 255)
  <2>1. \A i \in 0..2 : Framed(p, 22 + 9 * i, B[i + 1])
    BY <1>9, <1>10
  <2>2. /\ Framed(p, 22 + 9 * 0, B[0 + 1]) /\ Framed(p, 22 + 9 * 1, B[1 + 1])
        /\ Framed(p, 22 + 9 * 2, B[2 + 1])
    BY <2>1
  <2> QED BY <2>2, <1>9
<1>3. /\ BitOf(255, 0) = 1 /\ BitOf(255, 1) = 1 /\ BitOf(255, 2) = 1 /\ BitOf(255, 3) = 1
      /\ BitOf(255, 4) = 1 /\ BitOf(255, 5) = 1 /\ BitOf(255, 6) = 1 /\ BitOf(255, 7) = 1
  BY Bits
<1>4. /\ BitOf(0, 0) = 0 /\ BitOf(0, 1) = 0 /\ BitOf(0, 2) = 0 /\ BitOf(0, 3) = 0
      /\ BitOf(0, 4) = 0 /\ BitOf(0, 5) = 0 /\ BitOf(0, 6) = 0 /\ BitOf(0, 7) = 0
  BY Bits
<1>5. \A c \in 22..30 : Sent(p, c) = IF c = 22 THEN 0 ELSE 1
  <2>1. \A c \in 22..30 : c \in {22, 23, 24, 25, 26, 27, 28, 29, 30}
    OBVIOUS
  <2> QED BY <1>2, <1>3, <2>1 DEF Framed
<1>6. \A c \in 31..39 : Sent(p, c) = 0
  <2>1. \A c \in 31..39 : c \in {31, 32, 33, 34, 35, 36, 37, 38, 39}
    OBVIOUS
  <2> QED BY <1>2, <1>4, <2>1 DEF Framed
<1>7. \A c \in 40..48 : Sent(p, c) = IF c = 40 THEN 0 ELSE 1
  <2>1. \A c \in 40..48 : c \in {40, 41, 42, 43, 44, 45, 46, 47, 48}
    OBVIOUS
  <2> QED BY <1>2, <1>3, <2>1 DEF Framed
<1>8. ASSUME NEW c \in 0..48 PROVE Sent(p, c) = IF c = 22 \/ c \in 31..40 THEN 0 ELSE 1
  BY <1>1, <1>5, <1>6, <1>7
<1> QED BY <1>1, <1>8 DEF p

-----------------------------------------------------------------------------
(* Whom a packet is for.                                                   *)

\* Accept, for the decoder at address o.
AcceptAt(o, l, bytes) ==
  LET long == bytes[1] \in 192..231
      to == IF long THEN 256 * (bytes[1] - 192) + bytes[2] ELSE bytes[1]
      said == SubSeq(bytes, IF long THEN 3 ELSE 2, Len(bytes) - 1)
  IN  IF Len(bytes) >= 3 /\ Sum(bytes) = 0
         /\ to = o /\ long = (o > 127) /\ said # <<>>
        THEN Obey(l, said) ELSE l

\* Accept reads no variable but the decoder's address.
LEMMA AcceptsAt == ASSUME NEW l, NEW b PROVE Accept(l, b) = AcceptAt(own, l, b)
  BY DEF Accept, AcceptAt

\* The idle packet is for nobody.
LEMMA IdleForNone ==
  ASSUME NEW o \in Int, NEW l PROVE AcceptAt(o, l, IdleFrame) = l
<1>1. IdleFrame[1] = 255 /\ 255 \notin 192..231
  BY IdleIsFrame
<1>2. ~(255 = o /\ FALSE = (o > 127))
  OBVIOUS
<1> QED BY <1>1, <1>2 DEF AcceptAt

\* The bytes of an address are one or two, and the rest of the packet follows.
Instructions == {q \in Seq(Bytes) : 1 <= Len(q) /\ Len(q) <= 3}
\* What the address bytes are, element by element.
OneByte(a, x) == a \in Seq(Bytes) /\ Len(a) = 1 /\ a[1] = x
TwoBytes(a, x, y) == a \in Seq(Bytes) /\ Len(a) = 2 /\ a[1] = x /\ a[2] = y

\* The empty prefix and a byte.
LEMMA Single == ASSUME NEW x \in Bytes PROVE OneByte(<<>> \o <<x>>, x)
<1>1. <<>> \o <<x>> = <<x>>
  OBVIOUS
<1>2. <<x>> \in Seq(Bytes) /\ Len(<<x>>) = 1 /\ <<x>>[1] = x
  OBVIOUS
<1> QED BY <1>1, <1>2 DEF OneByte

\* A byte and a byte.
LEMMA Pair == ASSUME NEW x \in Bytes, NEW y \in Bytes PROVE TwoBytes(<<x>> \o <<y>>, x, y)
<1>1. <<x>> \in Seq(Bytes) /\ <<y>> \in Seq(Bytes)
  OBVIOUS
<1>2. Len(<<x>>) = 1 /\ Len(<<y>>) = 1
  OBVIOUS
<1> QED BY <1>1, <1>2 DEF TwoBytes

\* An address up to 127 is one byte.
LEMMA ShortAddress ==
  ASSUME NEW cab \in Int, 1 <= cab, cab <= 127
  PROVE  OneByte(Address(cab), cab)
<1>1. cab % 256 = cab /\ ~(cab > 127)
  OBVIOUS
<1>2. cab \in Bytes
  BY DEF Bytes
<1>3. Address(cab) = <<>> \o <<cab>>
  BY <1>1 DEF Address
<1> QED BY <1>2, <1>3, Single

\* A longer one is two, with the two high bits of the first set.
LEMMA LongAddress ==
  ASSUME NEW cab \in Int, 128 <= cab, cab <= 10293
  PROVE  TwoBytes(Address(cab), 192 + (cab \div 256), cab % 256)
<1> DEFINE x == 192 + (cab \div 256)
           y == cab % 256
           z == <<x>> \o <<y>>
<1>1. (HighByte(cab) % 64) = cab \div 256 /\ cab > 127
  BY DEF HighByte
<1>2. x \in Bytes /\ y \in Bytes
  <2>1. 0 <= cab \div 256 /\ cab \div 256 <= 63 /\ cab \div 256 \in Int
    OBVIOUS
  <2>2. 0 <= cab % 256 /\ cab % 256 <= 255 /\ cab % 256 \in Int
    OBVIOUS
  <2> QED BY <2>1, <2>2 DEF Bytes
<1>3. Address(cab) = <<192 + (HighByte(cab) % 64)>> \o <<cab % 256>>
  BY <1>1 DEF Address
<1>4. Address(cab) = z
  BY <1>1, <1>3
<1> HIDE DEF x, y
<1>5. TwoBytes(Address(cab), x, y)
  <2>1. TwoBytes(z, x, y)
    BY <1>2, Pair
  <2> HIDE DEF z
  <2> QED BY <1>4, <2>1
<1> QED BY <1>5 DEF x, y

\* An address is one or two bytes.
LEMMA AddressBytes ==
  ASSUME NEW cab \in Int, 1 <= cab, cab <= 10293
  PROVE  Address(cab) \in Seq(Bytes) /\ 1 <= Len(Address(cab)) /\ Len(Address(cab)) <= 2
<1>1. \A a, x : OneByte(a, x) => a \in Seq(Bytes) /\ 1 <= Len(a) /\ Len(a) <= 2
  BY DEF OneByte
<1>2. \A a, x, y : TwoBytes(a, x, y) => a \in Seq(Bytes) /\ 1 <= Len(a) /\ Len(a) <= 2
  BY DEF TwoBytes
<1>3. CASE cab <= 127
  BY <1>1, <1>3, ShortAddress
<1>4. CASE 128 <= cab
  BY <1>2, <1>4, LongAddress
<1> QED BY <1>3, <1>4

\* Address and instruction are a command that loadPacket has room for.
LEMMA Addressed ==
  ASSUME NEW cab \in Int, 1 <= cab, cab <= 10293, NEW q \in Instructions
  PROVE  /\ Address(cab) \o q \in Commands
         /\ Checked(Address(cab) \o q) \in Frames
<1> DEFINE a == Address(cab)
           b == a \o q
<1>1. a \in Seq(Bytes) /\ 1 <= Len(a) /\ Len(a) <= 2
  BY AddressBytes
<1> HIDE DEF a
<1>2. q \in Seq(Bytes) /\ 1 <= Len(q) /\ Len(q) <= 3
  BY DEF Instructions
<1>3. b \in Seq(Bytes) /\ Len(b) = Len(a) + Len(q)
  BY <1>1, <1>2, ConcatProperties
<1> HIDE DEF b
<1>4. 2 <= Len(b) /\ Len(b) <= 5 /\ Len(b) \in Int
  BY <1>1, <1>2, <1>3
<1>5. b \in Commands
  BY <1>3, <1>4 DEF Commands
<1>6. Checked(b) \in Frames
  BY <1>5, CheckedFrame
<1> QED BY <1>5, <1>6 DEF a, b

\* A packet says to the decoder at its address what follows the address, and
\* nothing to the others.
LEMMA Heard ==
  ASSUME NEW cab \in Int, 1 <= cab, cab <= 10239, NEW q \in Instructions,
         NEW o \in Int, NEW l
  PROVE  AcceptAt(o, l, Checked(Address(cab) \o q)) = IF cab = o THEN Obey(l, q) ELSE l
<1> DEFINE a == Address(cab)
           b == a \o q
           B == Checked(b)
           n == Len(a)
           m == Len(q)
           k == Len(B)
           said == SubSeq(B, n + 1, k - 1)
<1>1. a \in Seq(Bytes) /\ n \in Int /\ 1 <= n /\ n <= 2
  <2>1. cab <= 10293
    OBVIOUS
  <2>2. a \in Seq(Bytes) /\ 1 <= n /\ n <= 2
    BY <2>1, AddressBytes
  <2> QED BY <2>2
<1>2. q \in Seq(Bytes) /\ m \in Int /\ 1 <= m /\ m <= 3
  <2>1. q \in Seq(Bytes) /\ 1 <= m /\ m <= 3
    BY DEF Instructions
  <2> QED BY <2>1
<1>3. b \in Commands
  <2>1. cab <= 10293
    OBVIOUS
  <2> QED BY <2>1, Addressed
<1> HIDE DEF a
<1>4. /\ b \in Seq(Bytes) /\ Len(b) = n + m
      /\ \A i \in 1..(n + m) : b[i] = IF i <= n THEN a[i] ELSE q[i - n]
  BY <1>1, <1>2, ConcatProperties
<1> HIDE DEF b
<1>5. B \in Frames /\ k = Len(b) + 1 /\ Sum(B) = 0 /\ \A i \in 1..Len(b) : B[i] = b[i]
  BY <1>3, CheckedFrame
<1>6. B \in Seq(Bytes) /\ k = n + m + 1 /\ \A i \in 1..(n + m) : B[i] = b[i]
  BY <1>1, <1>2, <1>4, <1>5 DEF Frames
<1> HIDE DEF n, m, k, B
<1>7. said \in Seq(Bytes) /\ Len(said) = m /\ \A i \in 1..m : said[i] = B[n + i]
  <2>1. n + 1 \in Int /\ k - 1 \in Int /\ n + 1 <= k - 1 /\ (k - 1) - (n + 1) + 1 = m
    BY <1>1, <1>2, <1>6
  <2>2. \A i \in (n + 1)..(k - 1) : B[i] \in Bytes
    <3> SUFFICES ASSUME NEW i \in (n + 1)..(k - 1) PROVE B[i] \in Bytes
      OBVIOUS
    <3>1. i \in 1..Len(B)
      BY <1>1, <1>2, <1>6 DEF k
    <3> QED BY <1>6, <3>1
  <2>3. /\ said \in Seq(Bytes) /\ Len(said) = (k - 1) - (n + 1) + 1
        /\ \A i \in 1..((k - 1) - (n + 1) + 1) : said[i] = B[(n + 1) + i - 1]
    BY <2>1, <2>2, SubSeqProperties
  <2> HIDE DEF said
  <2> DEFINE w == (k - 1) - (n + 1) + 1
  <2>4. w = m
    BY <2>1
  <2>5. said \in Seq(Bytes) /\ Len(said) = w /\ \A i \in 1..w : said[i] = B[(n + 1) + i - 1]
    BY <2>3
  <2> HIDE DEF w
  <2>6. ASSUME NEW i \in 1..m PROVE said[i] = B[n + i]
    <3>1. said[i] = B[(n + 1) + i - 1]
      BY <2>4, <2>5
    <3>2. (n + 1) + i - 1 = n + i
      BY <1>1, <1>2
    <3> QED BY <3>1, <3>2
  <2> QED BY <2>4, <2>5, <2>6
<1> HIDE DEF said
<1>8. said = q
  <2>1. ASSUME NEW i \in 1..m PROVE said[i] = q[i]
    <3>1. n + i \in 1..(n + m) /\ ~(n + i <= n) /\ (n + i) - n = i
      BY <1>1, <1>2
    <3> QED BY <1>4, <1>6, <1>7, <3>1
  <2> QED BY <1>2, <1>7, <2>1, SeqEqual DEF m
<1>9. \A i \in 1..n : B[i] = a[i]
  <2> SUFFICES ASSUME NEW i \in 1..n PROVE B[i] = a[i]
    OBVIOUS
  <2>1. i \in 1..(n + m) /\ i <= n
    BY <1>1, <1>2
  <2> QED BY <1>4, <1>6, <2>1
<1>10. said # <<>> /\ Len(B) >= 3
  <2>1. Len(said) # 0
    BY <1>2, <1>7
  <2>2. k >= 3
    BY <1>1, <1>2, <1>6
  <2> QED BY <2>1, <2>2 DEF k
<1> DEFINE long == B[1] \in 192..231
           to == IF long THEN 256 * (B[1] - 192) + B[2] ELSE B[1]
           rest == SubSeq(B, IF long THEN 3 ELSE 2, Len(B) - 1)
<1>11. AcceptAt(o, l, B) = IF Len(B) >= 3 /\ Sum(B) = 0 /\ to = o /\ long = (o > 127) /\ rest # <<>>
                            THEN Obey(l, rest) ELSE l
  BY DEF AcceptAt
<1>14. (long => n = 2) /\ (~long => n = 1) => rest = said
  <2> HIDE DEF long
  <2> QED BY DEF said, k
<1> HIDE DEF rest
<1>15. ~long /\ n = 1
         => AcceptAt(o, l, B) = IF to = o /\ ~(o > 127) THEN Obey(l, q) ELSE l
  <2>1. ~long => (long = (o > 127) <=> ~(o > 127))
    OBVIOUS
  <2> HIDE DEF to
  <2>2. Len(B) >= 3 /\ Sum(B) = 0
    BY <1>5, <1>10
  <2>3. ~long /\ n = 1 => rest = q /\ rest # <<>>
    BY <1>8, <1>10, <1>14
  <2> HIDE DEF long
  <2> QED BY <1>11, <2>1, <2>2, <2>3
<1>16. long /\ n = 2
         => AcceptAt(o, l, B) = IF to = o /\ o > 127 THEN Obey(l, q) ELSE l
  BY <1>5, <1>8, <1>10, <1>11, <1>14
<1>12. CASE cab <= 127
  <2>1. a[1] = cab /\ n = 1
    BY <1>12, ShortAddress DEF a, n, OneByte
  <2>2. B[1] = cab
    BY <1>9, <2>1
  <2>3. ~long /\ to = cab
    BY <1>12, <2>2
  <2> HIDE DEF long, to
  <2>4. AcceptAt(o, l, B) = IF cab = o /\ ~(o > 127) THEN Obey(l, q) ELSE l
    BY <1>15, <2>1, <2>3
  <2> QED BY <1>12, <2>4 DEF B, b, a
<1>13. CASE 128 <= cab
  <2>1. a[1] = 192 + (cab \div 256) /\ a[2] = cab % 256 /\ n = 2
    BY <1>13, LongAddress DEF a, n, TwoBytes
  <2>2. B[1] = 192 + (cab \div 256) /\ B[2] = cab % 256
    BY <1>9, <2>1
  <2>3. long /\ 256 * (B[1] - 192) + B[2] = cab
    <3>1. 0 <= cab \div 256 /\ cab \div 256 <= 39 /\ 256 * (cab \div 256) + (cab % 256) = cab
      BY <1>13
    <3> QED BY <2>2, <3>1
  <2>4. to = cab
    BY <2>3
  <2> HIDE DEF long, to
  <2>5. AcceptAt(o, l, B) = IF cab = o /\ o > 127 THEN Obey(l, q) ELSE l
    BY <1>16, <2>1, <2>3, <2>4
  <2> QED BY <1>13, <2>5 DEF B, b, a
<1> QED BY <1>12, <1>13

-----------------------------------------------------------------------------
(* What an instruction makes of a locomotive.                              *)

\* The state of a locomotive, field by field.
State(step, forward, stopped, fn, cv) ==
  [step |-> step, forward |-> forward, stopped |-> stopped, fn |-> fn, cv |-> cv]

\* An instruction of one byte.
LEMMA OneSaid == ASSUME NEW x \in Bytes PROVE <<x>> \in Instructions /\ <<x>>[1] = x
  BY DEF Instructions

\* An instruction of two bytes.
LEMMA TwoSaid ==
  ASSUME NEW x \in Bytes, NEW y \in Bytes
  PROVE  <<x, y>> \in Instructions /\ <<x, y>>[1] = x /\ <<x, y>>[2] = y
  BY DEF Instructions

\* An instruction of three bytes.
LEMMA ThreeSaid ==
  ASSUME NEW x \in Bytes, NEW y \in Bytes, NEW z \in Bytes
  PROVE  /\ <<x, y, z>> \in Instructions
         /\ <<x, y, z>>[1] = x /\ <<x, y, z>>[2] = y /\ <<x, y, z>>[3] = z
  BY DEF Instructions

\* A number in the range of a byte is one.
LEMMA IsByte == ASSUME NEW x \in Int, 0 <= x, x <= 255 PROVE x \in Bytes
  BY DEF Bytes

\* The speed byte tells speed, direction and emergency stop.
LEMMA SpeedBytes ==
  ASSUME NEW speed \in Int, -1 <= speed, speed <= 126, NEW forward \in BOOLEAN
  PROVE  LET w == SpeedByte(speed, forward)
         IN  /\ w \in Bytes
             /\ w >= 128 <=> speed >= 0 /\ forward
             /\ w % 128 = 1 <=> speed < 0
             /\ (IF w % 128 = 0 THEN 0 ELSE (w % 128) - 1) = IF speed < 0 THEN 0 ELSE speed
<1> DEFINE w == SpeedByte(speed, forward)
<1>1. speed < 0 => w = 1
  BY DEF SpeedByte
<1>2. speed = 0 => w = IF forward THEN 128 ELSE 0
  <2>1. speed = 0 => w = (0 + 0 + Bool(forward) * 128) % 256
    BY DEF SpeedByte, Bool
  <2> QED BY <2>1 DEF Bool
<1>3. speed > 0 => w = speed + 1 + (IF forward THEN 128 ELSE 0)
  <2>1. speed > 0 => w = (speed + 1 + Bool(forward) * 128) % 256
    BY DEF SpeedByte, Bool
  <2> QED BY <2>1 DEF Bool
<1> HIDE DEF w
<1> DEFINE m == w % 128
           Right == /\ w \in Bytes
                    /\ w >= 128 <=> speed >= 0 /\ forward
                    /\ m = 1 <=> speed < 0
                    /\ (IF m = 0 THEN 0 ELSE m - 1) = IF speed < 0 THEN 0 ELSE speed
<1>4. ASSUME speed < 0 PROVE Right
  <2>1. w \in Bytes
    BY <1>1, <1>4, IsByte
  <2>2. ~(w >= 128) /\ m = 1
    BY <1>1, <1>4
  <2> HIDE DEF m
  <2> QED BY <1>4, <2>1, <2>2
<1>5. ASSUME speed >= 0, forward PROVE Right
  <2>1. w = IF speed = 0 THEN 128 ELSE speed + 129
    BY <1>2, <1>3, <1>5
  <2>2. w \in Int /\ 128 <= w /\ w <= 255
    BY <1>5, <2>1
  <2>3. w \in Bytes
    BY <2>2, IsByte
  <2>4. m = IF speed = 0 THEN 0 ELSE speed + 1
    BY <1>5, <2>1
  <2> HIDE DEF m
  <2>5. m # 1 /\ (IF m = 0 THEN 0 ELSE m - 1) = speed
    BY <1>5, <2>4
  <2> QED BY <1>5, <2>2, <2>3, <2>5
<1>6. ASSUME speed >= 0, ~forward PROVE Right
  <2>1. w = IF speed = 0 THEN 0 ELSE speed + 1
    BY <1>2, <1>3, <1>6
  <2>2. w \in Int /\ 0 <= w /\ w <= 127
    BY <1>6, <2>1
  <2>3. w \in Bytes
    BY <2>2, IsByte
  <2>4. m = IF speed = 0 THEN 0 ELSE speed + 1
    BY <1>6, <2>1
  <2> HIDE DEF m
  <2>5. m # 1 /\ (IF m = 0 THEN 0 ELSE m - 1) = speed
    BY <1>6, <2>4
  <2> QED BY <1>6, <2>2, <2>3, <2>5
<1>7. Right
  <2> HIDE DEF Right
  <2> QED BY <1>4, <1>5, <1>6
<1> QED BY <1>7 DEF w

\* What a decoder makes of a speed byte.
LEMMA ObeysThrottle ==
  ASSUME NEW s, NEW f, NEW e, NEW fn, NEW cv, NEW b, b[1] = 63
  PROVE  Obey(State(s, f, e, fn, cv), b)
           = State(IF b[2] % 128 = 0 THEN 0 ELSE (b[2] % 128) - 1, b[2] >= 128, b[2] % 128 = 1,
                   fn, cv)
<1> DEFINE l == State(s, f, e, fn, cv)
           x == b[2] >= 128
           y == b[2] % 128 = 1
           z == IF b[2] % 128 = 0 THEN 0 ELSE (b[2] % 128) - 1
<1>1. Obey(l, b) = [l EXCEPT !.forward = x, !.stopped = y, !.step = z]
  BY DEF Obey
<1> HIDE DEF x, y, z
<1>2. [l EXCEPT !.forward = x] = State(s, x, e, fn, cv)
  BY DEF State
<1>3. [State(s, x, e, fn, cv) EXCEPT !.stopped = y] = State(s, x, y, fn, cv)
  BY DEF State
<1>4. [State(s, x, y, fn, cv) EXCEPT !.step = z] = State(z, x, y, fn, cv)
  BY DEF State
<1>5. [l EXCEPT !.forward = x, !.stopped = y, !.step = z]
        = [[[l EXCEPT !.forward = x] EXCEPT !.stopped = y] EXCEPT !.step = z]
  OBVIOUS
<1>6. Obey(l, b) = State(z, x, y, fn, cv)
  BY <1>1, <1>2, <1>3, <1>4, <1>5
<1> QED BY <1>6 DEF x, y, z

\* What SetThrottle asks for.
Driven(l, speed, forward) ==
  [l EXCEPT !.step = IF speed < 0 THEN 0 ELSE speed, !.stopped = speed < 0,
            !.forward = forward]

\* What setThrottle asks for, field by field.
LEMMA DrivenState ==
  ASSUME NEW s, NEW f, NEW e, NEW fn, NEW cv, NEW speed, NEW forward
  PROVE  Driven(State(s, f, e, fn, cv), speed, forward)
           = State(IF speed < 0 THEN 0 ELSE speed, forward, speed < 0, fn, cv)
<1> DEFINE l == State(s, f, e, fn, cv)
           x == forward
           y == speed < 0
           z == IF speed < 0 THEN 0 ELSE speed
<1>1. Driven(l, speed, forward) = [l EXCEPT !.step = z, !.stopped = y, !.forward = x]
  BY DEF Driven
<1> HIDE DEF x, y, z
<1>2. [l EXCEPT !.step = z] = State(z, f, e, fn, cv)
  BY DEF State
<1>3. [State(z, f, e, fn, cv) EXCEPT !.stopped = y] = State(z, f, y, fn, cv)
  BY DEF State
<1>4. [State(z, f, y, fn, cv) EXCEPT !.forward = x] = State(z, x, y, fn, cv)
  BY DEF State
<1>5. [l EXCEPT !.step = z, !.stopped = y, !.forward = x]
        = [[[l EXCEPT !.step = z] EXCEPT !.stopped = y] EXCEPT !.forward = x]
  OBVIOUS
<1>6. Driven(l, speed, forward) = State(z, x, y, fn, cv)
  BY <1>1, <1>2, <1>3, <1>4, <1>5
<1> QED BY <1>6 DEF x, y, z

\* The instruction that setThrottle sends is obeyed as asked, but for the
\* direction of an emergency stop.
LEMMA ThrottleObeyed ==
  ASSUME NEW s, NEW f, NEW e, NEW fn, NEW cv,
         NEW speed \in Int, -1 <= speed, speed <= 126, NEW forward \in BOOLEAN
  PROVE  LET q == <<63, SpeedByte(speed, forward)>>
         IN  /\ q \in Instructions
             /\ 0 <= speed =>
                  Obey(State(s, f, e, fn, cv), q) = Driven(State(s, f, e, fn, cv), speed, forward)
<1> DEFINE w == SpeedByte(speed, forward)
           q == <<63, w>>
           l == State(s, f, e, fn, cv)
<1>1. /\ w \in Bytes
      /\ w >= 128 <=> speed >= 0 /\ forward
      /\ w % 128 = 1 <=> speed < 0
      /\ (IF w % 128 = 0 THEN 0 ELSE (w % 128) - 1) = IF speed < 0 THEN 0 ELSE speed
  BY SpeedBytes
<1> HIDE DEF w
<1>2. 63 \in Bytes
  BY DEF Bytes
<1>3. q \in Instructions /\ q[1] = 63 /\ q[2] = w
  BY <1>1, <1>2, TwoSaid
<1> HIDE DEF q
<1>4. Obey(l, q) = State(IF w % 128 = 0 THEN 0 ELSE (w % 128) - 1, w >= 128, w % 128 = 1, fn, cv)
  BY <1>3, ObeysThrottle
<1>5. (w >= 128) = (speed >= 0 /\ forward) /\ (w % 128 = 1) = (speed < 0)
  BY <1>1
<1>6. 0 <= speed =>
        Obey(l, q) = State(IF speed < 0 THEN 0 ELSE speed, forward, speed < 0, fn, cv)
  <2> SUFFICES ASSUME 0 <= speed
               PROVE  Obey(l, q) = State(IF speed < 0 THEN 0 ELSE speed, forward, speed < 0, fn, cv)
    OBVIOUS
  <2>1. (speed >= 0 /\ forward) = forward
    OBVIOUS
  <2> QED BY <1>1, <1>4, <1>5, <2>1
<1> QED BY <1>3, <1>6, DrivenState DEF q, w

\* What a decoder makes of the write of a CV.
LEMMA ObeysCvByte ==
  ASSUME NEW l, NEW b, b[1] \in 236..239
  PROVE  Obey(l, b) = [l EXCEPT !.cv = <<256 * (b[1] % 4) + b[2] + 1, b[3]>>]
<1>1. /\ b[1] # 63 /\ b[1] \notin 128..159 /\ b[1] \notin 176..191 /\ b[1] \notin 160..175
      /\ b[1] # 222 /\ b[1] # 223
  OBVIOUS
<1> QED BY <1>1 DEF Obey

\* What a decoder makes of the write of a bit of a CV.
LEMMA ObeysCvBit ==
  ASSUME NEW l, NEW b, b[1] \in 232..235
  PROVE  Obey(l, b) = [l EXCEPT !.cv = <<256 * (b[1] % 4) + b[2] + 1, b[3] % 8, BitOf(b[3], 3)>>]
<1>1. /\ b[1] # 63 /\ b[1] \notin 128..159 /\ b[1] \notin 176..191 /\ b[1] \notin 160..175
      /\ b[1] # 222 /\ b[1] # 223 /\ b[1] \notin 236..239
  OBVIOUS
<1> QED BY <1>1 DEF Obey

\* The number of a CV, of ten bits, is split over two bytes and put together again.
LEMMA CvNumber ==
  ASSUME NEW n \in Int, 1 <= n, n <= 1024
  PROVE  LET h == HighByte(n - 1) % 4
             m == (n - 1) % 256
         IN  h \in 0..3 /\ m \in Bytes /\ (256 * h) + m + 1 = n
<1> DEFINE h == (n - 1) \div 256
           m == (n - 1) % 256
<1>1. 0 <= h /\ h <= 3 /\ h \in Int
  OBVIOUS
<1>2. 0 <= m /\ m <= 255 /\ m \in Int /\ 256 * h + m = n - 1
  OBVIOUS
<1>3. HighByte(n - 1) = h % 256
  BY DEF HighByte
<1> HIDE DEF h, m
<1>4. HighByte(n - 1) % 4 = h
  BY <1>1, <1>3
<1>5. m \in Bytes
  BY <1>2, IsByte
<1>6. h \in 0..3 /\ (256 * h) + m + 1 = n
  BY <1>1, <1>2
<1> QED BY <1>4, <1>5, <1>6 DEF m

\* The instruction that writeCVByteMain sends is obeyed as asked.
LEMMA CvByteObeyed ==
  ASSUME NEW l, NEW n \in Int, 1 <= n, n <= 1024, NEW v \in Bytes
  PROVE  LET q == <<236 + (HighByte(n - 1) % 4), (n - 1) % 256, v>>
         IN  q \in Instructions /\ Obey(l, q) = [l EXCEPT !.cv = <<n, v>>]
<1> DEFINE h == HighByte(n - 1) % 4
           m == (n - 1) % 256
           c == 236 + h
           q == <<c, m, v>>
<1>1. h \in 0..3 /\ m \in Bytes /\ (256 * h) + m + 1 = n
  BY CvNumber
<1> HIDE DEF h, m
<1>2. c \in 236..239 /\ c % 4 = h
  BY <1>1
<1>3. c \in Bytes
  BY <1>2, IsByte
<1> HIDE DEF c
<1>4. q \in Instructions /\ q[1] = c /\ q[2] = m /\ q[3] = v
  BY <1>1, <1>3, ThreeSaid
<1> HIDE DEF q
<1>5. Obey(l, q) = [l EXCEPT !.cv = <<256 * (q[1] % 4) + q[2] + 1, q[3]>>]
  BY <1>2, <1>4, ObeysCvByte
<1>6. 256 * (q[1] % 4) + q[2] + 1 = n
  BY <1>1, <1>2, <1>4
<1>7. Obey(l, q) = [l EXCEPT !.cv = <<n, v>>]
  BY <1>4, <1>5, <1>6
<1> QED BY <1>4, <1>7 DEF q, c, h, m

\* The bit write is an instruction that writes bit k of CV n.
ObeyedBit(l, n, k, v) ==
  LET q == <<232 + (HighByte(n - 1) % 4), (n - 1) % 256, 240 + v * 8 + k>>
  IN  q \in Instructions /\ Obey(l, q) = [l EXCEPT !.cv = <<n, k, v>>]

\* The instruction that writeCVBitMain sends is obeyed as asked.
LEMMA CvBitObeyed ==
  ASSUME NEW l, NEW n \in Int, 1 <= n, n <= 1024, NEW k \in 0..7, NEW v \in 0..1
  PROVE  ObeyedBit(l, n, k, v)
<1> DEFINE h == HighByte(n - 1) % 4
           m == (n - 1) % 256
           c == 232 + h
           d == 240 + v * 8 + k
           q == <<c, m, d>>
<1>1. h \in 0..3 /\ m \in Bytes /\ (256 * h) + m + 1 = n
  BY CvNumber
<1> HIDE DEF h, m
<1>2. c \in 232..235 /\ c % 4 = h
  BY <1>1
<1>3. c \in Bytes
  BY <1>2, IsByte
<1>4. d % 8 = k /\ (d \div 8) % 2 = v /\ d \in Int /\ 0 <= d /\ d <= 255
  OBVIOUS
<1>5. BitOf(d, 3) = v
  BY <1>4, Bits
<1>6. d \in Bytes
  BY <1>4, IsByte
<1> HIDE DEF c, d
<1>7. q \in Instructions /\ q[1] = c /\ q[2] = m /\ q[3] = d
  BY <1>1, <1>3, <1>6, ThreeSaid
<1> HIDE DEF q
<1>8. Obey(l, q) = [l EXCEPT !.cv = <<256 * (q[1] % 4) + q[2] + 1, q[3] % 8, BitOf(q[3], 3)>>]
  BY <1>2, <1>7, ObeysCvBit
<1>9. 256 * (q[1] % 4) + q[2] + 1 = n
  BY <1>1, <1>2, <1>7
<1>10. q[3] % 8 = k /\ BitOf(q[3], 3) = v
  BY <1>4, <1>5, <1>7
<1>11. Obey(l, q) = [l EXCEPT !.cv = <<n, k, v>>]
  BY <1>8, <1>9, <1>10
<1>12. LET r == <<232 + (HighByte(n - 1) % 4), (n - 1) % 256, 240 + v * 8 + k>>
       IN  r \in Instructions /\ Obey(l, r) = [l EXCEPT !.cv = <<n, k, v>>]
  BY <1>7, <1>11 DEF q, c, d, h, m
<1> QED BY <1>12 DEF ObeyedBit

\* The bits of a group's byte are the states of its functions.
LEMMA PackedBits ==
  ASSUME NEW map, NEW fs
  PROVE  /\ Packed(map, fs) \in Bytes
         /\ \A i \in 0..7 :
              BitOf(Packed(map, fs), i) = IF i < Len(fs) THEN Bool(map[fs[i + 1]]) ELSE 0
<1> DEFINE bit == [i \in 0..7 |-> IF i < Len(fs) THEN Bool(map[fs[i + 1]]) ELSE 0]
<1>1. \A b : Bool(b) \in Binary
  BY DEF Bool, Binary
<1>2. 0 \in Binary
  BY DEF Binary
<1>3. \A i \in 0..7 : (IF i < Len(fs) THEN Bool(map[fs[i + 1]]) ELSE 0) \in Binary
  BY <1>1, <1>2
<1>4. bit \in [0..7 -> Binary]
  BY <1>3
<1>5. \A i \in 0..7 : bit[i] = IF i < Len(fs) THEN Bool(map[fs[i + 1]]) ELSE 0
  OBVIOUS
<1>6. Packed(map, fs) = Byte(bit)
  BY DEF Packed
<1> HIDE DEF bit
<1> QED BY <1>4, <1>5, <1>6, BitsBack

\* The class bits of the first byte leave those of the functions alone.
LEMMA FiveBits ==
  ASSUME NEW p \in Bytes, BitOf(p, 5) = 0, BitOf(p, 6) = 0, BitOf(p, 7) = 0
  PROVE  /\ 128 + ((128 + p) % 64) = 128 + p /\ 128 + p \in 128..159 /\ 128 + p \in Bytes
         /\ \A i \in 0..4 : BitOf(128 + p, i) = BitOf(p, i)
<1>1. p \div 32 = 0
  BY Bits, Halves
<1>2. p \in 0..31
  BY <1>1 DEF Bytes
<1>3. 128 + ((128 + p) % 64) = 128 + p /\ 128 + p \in 128..159
  BY <1>2
<1>4. 128 + p \in Bytes
  BY <1>2, IsByte
<1>5. /\ ((128 + p) \div 1) % 2 = (p \div 1) % 2 /\ ((128 + p) \div 2) % 2 = (p \div 2) % 2
      /\ ((128 + p) \div 4) % 2 = (p \div 4) % 2 /\ ((128 + p) \div 8) % 2 = (p \div 8) % 2
      /\ ((128 + p) \div 16) % 2 = (p \div 16) % 2
  BY <1>2
<1>6. \A i \in 0..4 : i = 0 \/ i = 1 \/ i = 2 \/ i = 3 \/ i = 4
  OBVIOUS
<1> QED BY <1>3, <1>4, <1>5, <1>6, Bits

\* Four functions fit below the class bits of the groups of F5 and F9, which
\* RegisterList::setFunction forces.
LEMMA FourBits ==
  ASSUME NEW p \in Bytes, BitOf(p, 4) = 0, BitOf(p, 5) = 0, BitOf(p, 6) = 0, BitOf(p, 7) = 0
  PROVE  /\ 128 + ((176 + p) % 64) = 176 + p /\ 176 + p \in 176..191 /\ 176 + p \in Bytes
         /\ 128 + ((160 + p) % 64) = 160 + p /\ 160 + p \in 160..175 /\ 160 + p \in Bytes
         /\ \A i \in 0..3 : BitOf(176 + p, i) = BitOf(p, i) /\ BitOf(160 + p, i) = BitOf(p, i)
<1>1. p \div 16 = 0
  BY Bits, Halves
<1>2. p \in 0..15
  BY <1>1 DEF Bytes
<1>3. /\ 128 + ((176 + p) % 64) = 176 + p /\ 176 + p \in 176..191
      /\ 128 + ((160 + p) % 64) = 160 + p /\ 160 + p \in 160..175
  BY <1>2
<1>4. 176 + p \in Bytes /\ 160 + p \in Bytes
  BY <1>2, IsByte
<1>5. /\ ((176 + p) \div 1) % 2 = (p \div 1) % 2 /\ ((176 + p) \div 2) % 2 = (p \div 2) % 2
      /\ ((176 + p) \div 4) % 2 = (p \div 4) % 2 /\ ((176 + p) \div 8) % 2 = (p \div 8) % 2
      /\ ((160 + p) \div 1) % 2 = (p \div 1) % 2 /\ ((160 + p) \div 2) % 2 = (p \div 2) % 2
      /\ ((160 + p) \div 4) % 2 = (p \div 4) % 2 /\ ((160 + p) \div 8) % 2 = (p \div 8) % 2
  BY <1>2
<1>6. \A i \in 0..3 : i = 0 \/ i = 1 \/ i = 2 \/ i = 3
  OBVIOUS
<1> QED BY <1>3, <1>4, <1>5, <1>6, Bits

\* Eight functions after function n.
FnsAfter(n) == [i \in 1..8 |-> n + i]

\* What a decoder makes of the instruction of each group.
LEMMA ObeysGroup ==
  ASSUME NEW l, NEW b
  PROVE  /\ b[1] \in 128..159 => Obey(l, b) = SetFns(l, <<1, 2, 3, 4, 0>>, b[1])
         /\ b[1] \in 176..191 => Obey(l, b) = SetFns(l, <<5, 6, 7, 8>>, b[1])
         /\ b[1] \in 160..175 => Obey(l, b) = SetFns(l, <<9, 10, 11, 12>>, b[1])
         /\ b[1] = 222 => Obey(l, b) = SetFns(l, FnsAfter(12), b[2])
         /\ b[1] = 223 => Obey(l, b) = SetFns(l, FnsAfter(20), b[2])
<1>1. ASSUME b[1] \in 128..159 PROVE Obey(l, b) = SetFns(l, <<1, 2, 3, 4, 0>>, b[1])
  BY <1>1 DEF Obey
<1>2. ASSUME b[1] \in 176..191 PROVE Obey(l, b) = SetFns(l, <<5, 6, 7, 8>>, b[1])
  BY <1>2 DEF Obey
<1>3. ASSUME b[1] \in 160..175 PROVE Obey(l, b) = SetFns(l, <<9, 10, 11, 12>>, b[1])
  BY <1>3 DEF Obey
<1>4. ASSUME b[1] = 222 PROVE Obey(l, b) = SetFns(l, FnsAfter(12), b[2])
  BY <1>4 DEF Obey, FnsAfter
<1>5. ASSUME b[1] = 223 PROVE Obey(l, b) = SetFns(l, FnsAfter(20), b[2])
  BY <1>5 DEF Obey, FnsAfter
<1> QED BY <1>1, <1>2, <1>3, <1>4, <1>5

\* A group's byte that carries a map of the functions brings a locomotive that
\* differs from it in that group only to it.
FnMaps == [0..28 -> BOOLEAN]
\* A group that holds every function that changed brings the decoder up to date.
LEMMA GroupSwitched ==
  ASSUME NEW s, NEW f, NEW e, NEW cv, NEW old \in FnMaps, NEW map \in FnMaps,
         NEW fs, NEW byte,
         \A i \in DOMAIN fs : BitOf(byte, i - 1) = Bool(map[fs[i]]),
         \A g \in 0..28 : (\E i \in DOMAIN fs : fs[i] = g) \/ map[g] = old[g]
  PROVE  SetFns(State(s, f, e, old, cv), fs, byte) = State(s, f, e, map, cv)
<1> DEFINE l == State(s, f, e, old, cv)
           new == [g \in 0..28 |->
                     IF \E i \in DOMAIN fs : fs[i] = g
                       THEN \E i \in DOMAIN fs : fs[i] = g /\ BitOf(byte, i - 1) = 1
                       ELSE old[g]]
<1>1. l.fn = old
  BY DEF State
<1>2. SetFns(l, fs, byte) = [l EXCEPT !.fn = new]
  BY <1>1 DEF SetFns
<1>3. ASSUME NEW g \in 0..28
      PROVE  map[g] = IF \E i \in DOMAIN fs : fs[i] = g
                        THEN \E i \in DOMAIN fs : fs[i] = g /\ BitOf(byte, i - 1) = 1
                        ELSE old[g]
  <2>1. map[g] \in BOOLEAN
    BY DEF FnMaps
  <2>2. \A b \in BOOLEAN : Bool(b) = 1 <=> b
    BY DEF Bool
  <2>3. CASE \E i \in DOMAIN fs : fs[i] = g
    <3>1. (\E i \in DOMAIN fs : fs[i] = g /\ BitOf(byte, i - 1) = 1) <=> map[g]
      BY <2>1, <2>2, <2>3
    <3> QED BY <2>1, <2>3, <3>1
  <2>4. CASE ~\E i \in DOMAIN fs : fs[i] = g
    BY <2>4
  <2> QED BY <2>3, <2>4
<1>4. map = [g \in 0..28 |-> map[g]]
  BY DEF FnMaps
<1>5. new = map
  BY <1>3, <1>4
<1> HIDE DEF new
<1>6. [l EXCEPT !.fn = map] = State(s, f, e, map, cv)
  BY DEF State
<1> QED BY <1>2, <1>5, <1>6

\* The function map differs from the old one in function g at most.
Switched(old, map, g) ==
  /\ old \in FnMaps /\ map \in FnMaps /\ g \in 0..28
  /\ \A x \in 0..28 : x # g => map[x] = old[x]

\* The packet of g's group is an instruction that makes the map the decoder's.
Obeyed(s, f, e, cv, old, map, g) ==
  \E q \in Instructions :
     /\ \A cab : FunctionBytes(cab, GroupBytes(map, g)) = Address(cab) \o q
     /\ Obey(State(s, f, e, old, cv), q) = State(s, f, e, map, cv)

\* The group packet of Function.cpp is obeyed: the map differs from the decoder's
\* in one function, which is in the group.
LEMMA FunctionObeyed ==
  ASSUME NEW s, NEW f, NEW e, NEW cv, NEW old, NEW map, NEW g, Switched(old, map, g)
  PROVE  Obeyed(s, f, e, cv, old, map, g)
<1> SUFFICES ASSUME old \in FnMaps, map \in FnMaps, g \in 0..28,
                    \A x \in 0..28 : x # g => map[x] = old[x]
             PROVE  \E q \in Instructions :
                       /\ \A cab : FunctionBytes(cab, GroupBytes(map, g)) = Address(cab) \o q
                       /\ Obey(State(s, f, e, old, cv), q) = State(s, f, e, map, cv)
  BY DEF Switched, Obeyed
<1> DEFINE l == State(s, f, e, old, cv)
<1>1. CASE g \in 0..4
  <2> DEFINE fs == <<1, 2, 3, 4, 0>>
             p == Packed(map, fs)
             b == 128 + p
             q == <<b>>
  <2>1. GroupBytes(map, g) = q
    BY <1>1 DEF GroupBytes
  <2>2. Len(fs) = 5 /\ DOMAIN fs = 1..5 /\ fs[1] = 1 /\ fs[2] = 2 /\ fs[3] = 3 /\ fs[4] = 4 /\ fs[5] = 0
    OBVIOUS
  <2>4. \A c : c[1] \in 128..159 => Obey(l, c) = SetFns(l, fs, c[1])
    BY ObeysGroup
  <2> HIDE DEF fs
  <2>5. p \in Bytes /\ \A i \in 0..7 : BitOf(p, i) = IF i < 5 THEN Bool(map[fs[i + 1]]) ELSE 0
    BY <2>2, PackedBits
  <2> HIDE DEF p
  <2>6. BitOf(p, 5) = 0 /\ BitOf(p, 6) = 0 /\ BitOf(p, 7) = 0
    BY <2>5
  <2>7. /\ 128 + (b % 64) = b /\ b \in 128..159 /\ b \in Bytes
        /\ \A i \in 0..4 : BitOf(b, i) = BitOf(p, i)
    BY <2>5, <2>6, FiveBits
  <2> HIDE DEF b
  <2>8. \A cab : FunctionBytes(cab, q) = Address(cab) \o q
    <3>1. Len(q) = 1 /\ q[1] = b
      OBVIOUS
    <3> QED BY <2>7, <3>1 DEF FunctionBytes
  <2>9. q \in Instructions /\ q[1] = b
    BY <2>7, OneSaid
  <2> HIDE DEF q
  <2>10. Obey(l, q) = SetFns(l, fs, b)
    BY <2>4, <2>7, <2>9
  <2>11. \A i \in DOMAIN fs : BitOf(b, i - 1) = Bool(map[fs[i]])
    <3> SUFFICES ASSUME NEW i \in 1..5 PROVE BitOf(b, i - 1) = Bool(map[fs[i]])
      BY <2>2
    <3>1. i - 1 \in 0..4 /\ i - 1 < 5 /\ (i - 1) + 1 = i
      OBVIOUS
    <3> QED BY <2>5, <2>7, <3>1
  <2>12. \E i \in DOMAIN fs : fs[i] = g
    <3>1. CASE g = 1
      BY <2>2, <3>1
    <3>2. CASE g = 2
      BY <2>2, <3>2
    <3>3. CASE g = 3
      BY <2>2, <3>3
    <3>4. CASE g = 4
      BY <2>2, <3>4
    <3>5. CASE g = 0
      BY <2>2, <3>5
    <3> QED BY <1>1, <3>1, <3>2, <3>3, <3>4, <3>5
  <2>13. Obey(l, q) = State(s, f, e, map, cv)
    <3>1. \A x \in 0..28 : (\E i \in DOMAIN fs : fs[i] = x) \/ map[x] = old[x]
      BY <2>12
    <3> QED BY <2>10, <2>11, <3>1, GroupSwitched
  <2> QED BY <2>1, <2>8, <2>9, <2>13
<1>2. CASE g \in 5..8
  <2> DEFINE fs == <<5, 6, 7, 8>>
             p == Packed(map, fs)
             b == 176 + p
             q == <<b>>
  <2>1. GroupBytes(map, g) = q
    BY <1>2 DEF GroupBytes
  <2>2. Len(fs) = 4 /\ DOMAIN fs = 1..4 /\ fs[1] = 5 /\ fs[2] = 6 /\ fs[3] = 7 /\ fs[4] = 8
    OBVIOUS
  <2>4. \A c : c[1] \in 176..191 => Obey(l, c) = SetFns(l, fs, c[1])
    BY ObeysGroup
  <2> HIDE DEF fs
  <2>5. p \in Bytes /\ \A i \in 0..7 : BitOf(p, i) = IF i < 4 THEN Bool(map[fs[i + 1]]) ELSE 0
    BY <2>2, PackedBits
  <2> HIDE DEF p
  <2>6. BitOf(p, 4) = 0 /\ BitOf(p, 5) = 0 /\ BitOf(p, 6) = 0 /\ BitOf(p, 7) = 0
    BY <2>5
  <2>7. /\ 128 + (b % 64) = b /\ b \in 176..191 /\ b \in Bytes
        /\ \A i \in 0..3 : BitOf(b, i) = BitOf(p, i)
    BY <2>5, <2>6, FourBits
  <2> HIDE DEF b
  <2>8. \A cab : FunctionBytes(cab, q) = Address(cab) \o q
    <3>1. Len(q) = 1 /\ q[1] = b
      OBVIOUS
    <3> QED BY <2>7, <3>1 DEF FunctionBytes
  <2>9. q \in Instructions /\ q[1] = b
    BY <2>7, OneSaid
  <2> HIDE DEF q
  <2>10. Obey(l, q) = SetFns(l, fs, b)
    BY <2>4, <2>7, <2>9
  <2>11. \A i \in DOMAIN fs : BitOf(b, i - 1) = Bool(map[fs[i]])
    <3> SUFFICES ASSUME NEW i \in 1..4 PROVE BitOf(b, i - 1) = Bool(map[fs[i]])
      BY <2>2
    <3>1. i - 1 \in 0..3 /\ i - 1 < 4 /\ (i - 1) + 1 = i
      OBVIOUS
    <3> QED BY <2>5, <2>7, <3>1
  <2>12. \E i \in DOMAIN fs : fs[i] = g
    <3>1. CASE g = 5
      BY <2>2, <3>1
    <3>2. CASE g = 6
      BY <2>2, <3>2
    <3>3. CASE g = 7
      BY <2>2, <3>3
    <3>4. CASE g = 8
      BY <2>2, <3>4
    <3> QED BY <1>2, <3>1, <3>2, <3>3, <3>4
  <2>13. Obey(l, q) = State(s, f, e, map, cv)
    <3>1. \A x \in 0..28 : (\E i \in DOMAIN fs : fs[i] = x) \/ map[x] = old[x]
      BY <2>12
    <3> QED BY <2>10, <2>11, <3>1, GroupSwitched
  <2> QED BY <2>1, <2>8, <2>9, <2>13
<1>3. CASE g \in 9..12
  <2> DEFINE fs == <<9, 10, 11, 12>>
             p == Packed(map, fs)
             b == 160 + p
             q == <<b>>
  <2>1. GroupBytes(map, g) = q
    BY <1>3 DEF GroupBytes
  <2>2. Len(fs) = 4 /\ DOMAIN fs = 1..4 /\ fs[1] = 9 /\ fs[2] = 10 /\ fs[3] = 11 /\ fs[4] = 12
    OBVIOUS
  <2>4. \A c : c[1] \in 160..175 => Obey(l, c) = SetFns(l, fs, c[1])
    BY ObeysGroup
  <2> HIDE DEF fs
  <2>5. p \in Bytes /\ \A i \in 0..7 : BitOf(p, i) = IF i < 4 THEN Bool(map[fs[i + 1]]) ELSE 0
    BY <2>2, PackedBits
  <2> HIDE DEF p
  <2>6. BitOf(p, 4) = 0 /\ BitOf(p, 5) = 0 /\ BitOf(p, 6) = 0 /\ BitOf(p, 7) = 0
    BY <2>5
  <2>7. /\ 128 + (b % 64) = b /\ b \in 160..175 /\ b \in Bytes
        /\ \A i \in 0..3 : BitOf(b, i) = BitOf(p, i)
    BY <2>5, <2>6, FourBits
  <2> HIDE DEF b
  <2>8. \A cab : FunctionBytes(cab, q) = Address(cab) \o q
    <3>1. Len(q) = 1 /\ q[1] = b
      OBVIOUS
    <3> QED BY <2>7, <3>1 DEF FunctionBytes
  <2>9. q \in Instructions /\ q[1] = b
    BY <2>7, OneSaid
  <2> HIDE DEF q
  <2>10. Obey(l, q) = SetFns(l, fs, b)
    BY <2>4, <2>7, <2>9
  <2>11. \A i \in DOMAIN fs : BitOf(b, i - 1) = Bool(map[fs[i]])
    <3> SUFFICES ASSUME NEW i \in 1..4 PROVE BitOf(b, i - 1) = Bool(map[fs[i]])
      BY <2>2
    <3>1. i - 1 \in 0..3 /\ i - 1 < 4 /\ (i - 1) + 1 = i
      OBVIOUS
    <3> QED BY <2>5, <2>7, <3>1
  <2>12. \E i \in DOMAIN fs : fs[i] = g
    <3>1. CASE g = 9
      BY <2>2, <3>1
    <3>2. CASE g = 10
      BY <2>2, <3>2
    <3>3. CASE g = 11
      BY <2>2, <3>3
    <3>4. CASE g = 12
      BY <2>2, <3>4
    <3> QED BY <1>3, <3>1, <3>2, <3>3, <3>4
  <2>13. Obey(l, q) = State(s, f, e, map, cv)
    <3>1. \A x \in 0..28 : (\E i \in DOMAIN fs : fs[i] = x) \/ map[x] = old[x]
      BY <2>12
    <3> QED BY <2>10, <2>11, <3>1, GroupSwitched
  <2> QED BY <2>1, <2>8, <2>9, <2>13
<1>4. CASE g \in 13..20
  <2> DEFINE gs == <<13, 14, 15, 16, 17, 18, 19, 20>>
             fs == FnsAfter(12)
             b == Packed(map, gs)
             q == <<222, b>>
  <2>1. GroupBytes(map, g) = q
    BY <1>4 DEF GroupBytes
  <2>2. Len(gs) = 8 /\ \A i \in 1..8 : gs[i] = 12 + i
    <3>1. Len(gs) = 8
      OBVIOUS
    <3>2. /\ gs[1] = 13 /\ gs[2] = 14 /\ gs[3] = 15 /\ gs[4] = 16 /\ gs[5] = 17 /\ gs[6] = 18 /\ gs[7] = 19 /\ gs[8] = 20
      OBVIOUS
    <3>3. \A i \in 1..8 : i \in {1, 2, 3, 4, 5, 6, 7, 8}
      OBVIOUS
    <3> HIDE DEF gs
    <3> QED BY <3>1, <3>2, <3>3
  <2>3. DOMAIN fs = 1..8 /\ \A i \in 1..8 : fs[i] = 12 + i
    BY DEF FnsAfter
  <2>4. \A c : c[1] = 222 => Obey(l, c) = SetFns(l, fs, c[2])
    BY ObeysGroup
  <2> HIDE DEF fs, gs
  <2>5. b \in Bytes /\ \A i \in 0..7 : BitOf(b, i) = IF i < 8 THEN Bool(map[gs[i + 1]]) ELSE 0
    BY <2>2, PackedBits
  <2> HIDE DEF b
  <2>6. 222 \in Bytes
    BY IsByte
  <2>7. \A cab : FunctionBytes(cab, q) = Address(cab) \o q
    <3>1. Len(q) = 2 /\ Len(q) # 1 /\ q[1] = 222 /\ q[2] = b
      OBVIOUS
    <3>2. 222 + (222 % 2) = 222
      OBVIOUS
    <3>3. q = <<222 + (q[1] % 2), q[2]>>
      BY <3>1, <3>2
    <3> HIDE DEF q
    <3> QED BY <3>1, <3>3 DEF FunctionBytes
  <2>8. q \in Instructions /\ q[1] = 222 /\ q[2] = b
    BY <2>5, <2>6, TwoSaid
  <2> HIDE DEF q
  <2>9. Obey(l, q) = SetFns(l, fs, b)
    BY <2>4, <2>8
  <2>10. \A i \in DOMAIN fs : BitOf(b, i - 1) = Bool(map[fs[i]])
    <3> SUFFICES ASSUME NEW i \in 1..8 PROVE BitOf(b, i - 1) = Bool(map[fs[i]])
      BY <2>3
    <3>1. i - 1 \in 0..7 /\ i - 1 < 8 /\ (i - 1) + 1 = i /\ gs[i] = fs[i]
      BY <2>2, <2>3
    <3> QED BY <2>5, <3>1
  <2>11. \E i \in DOMAIN fs : fs[i] = g
    <3>1. g - 12 \in 1..8 /\ 12 + (g - 12) = g
      BY <1>4
    <3> QED BY <2>3, <3>1
  <2>12. Obey(l, q) = State(s, f, e, map, cv)
    <3>1. \A x \in 0..28 : (\E i \in DOMAIN fs : fs[i] = x) \/ map[x] = old[x]
      BY <2>11
    <3> QED BY <2>9, <2>10, <3>1, GroupSwitched
  <2> QED BY <2>1, <2>7, <2>8, <2>12
<1>5. CASE g \in 21..28
  <2> DEFINE gs == <<21, 22, 23, 24, 25, 26, 27, 28>>
             fs == FnsAfter(20)
             b == Packed(map, gs)
             q == <<223, b>>
  <2>1. GroupBytes(map, g) = q
    BY <1>5 DEF GroupBytes
  <2>2. Len(gs) = 8 /\ \A i \in 1..8 : gs[i] = 20 + i
    <3>1. Len(gs) = 8
      OBVIOUS
    <3>2. /\ gs[1] = 21 /\ gs[2] = 22 /\ gs[3] = 23 /\ gs[4] = 24 /\ gs[5] = 25 /\ gs[6] = 26 /\ gs[7] = 27 /\ gs[8] = 28
      OBVIOUS
    <3>3. \A i \in 1..8 : i \in {1, 2, 3, 4, 5, 6, 7, 8}
      OBVIOUS
    <3> HIDE DEF gs
    <3> QED BY <3>1, <3>2, <3>3
  <2>3. DOMAIN fs = 1..8 /\ \A i \in 1..8 : fs[i] = 20 + i
    BY DEF FnsAfter
  <2>4. \A c : c[1] = 223 => Obey(l, c) = SetFns(l, fs, c[2])
    BY ObeysGroup
  <2> HIDE DEF fs, gs
  <2>5. b \in Bytes /\ \A i \in 0..7 : BitOf(b, i) = IF i < 8 THEN Bool(map[gs[i + 1]]) ELSE 0
    BY <2>2, PackedBits
  <2> HIDE DEF b
  <2>6. 223 \in Bytes
    BY IsByte
  <2>7. \A cab : FunctionBytes(cab, q) = Address(cab) \o q
    <3>1. Len(q) = 2 /\ Len(q) # 1 /\ q[1] = 223 /\ q[2] = b
      OBVIOUS
    <3>2. 222 + (223 % 2) = 223
      OBVIOUS
    <3>3. q = <<222 + (q[1] % 2), q[2]>>
      BY <3>1, <3>2
    <3> HIDE DEF q
    <3> QED BY <3>1, <3>3 DEF FunctionBytes
  <2>8. q \in Instructions /\ q[1] = 223 /\ q[2] = b
    BY <2>5, <2>6, TwoSaid
  <2> HIDE DEF q
  <2>9. Obey(l, q) = SetFns(l, fs, b)
    BY <2>4, <2>8
  <2>10. \A i \in DOMAIN fs : BitOf(b, i - 1) = Bool(map[fs[i]])
    <3> SUFFICES ASSUME NEW i \in 1..8 PROVE BitOf(b, i - 1) = Bool(map[fs[i]])
      BY <2>3
    <3>1. i - 1 \in 0..7 /\ i - 1 < 8 /\ (i - 1) + 1 = i /\ gs[i] = fs[i]
      BY <2>2, <2>3
    <3> QED BY <2>5, <3>1
  <2>11. \E i \in DOMAIN fs : fs[i] = g
    <3>1. g - 20 \in 1..8 /\ 20 + (g - 20) = g
      BY <1>5
    <3> QED BY <2>3, <3>1
  <2>12. Obey(l, q) = State(s, f, e, map, cv)
    <3>1. \A x \in 0..28 : (\E i \in DOMAIN fs : fs[i] = x) \/ map[x] = old[x]
      BY <2>11
    <3> QED BY <2>9, <2>10, <3>1, GroupSwitched
  <2> QED BY <2>1, <2>7, <2>8, <2>12
<1>6. g \in 0..4 \/ g \in 5..8 \/ g \in 9..12 \/ g \in 13..20 \/ g \in 21..28
  OBVIOUS
<1> QED BY <1>1, <1>2, <1>3, <1>4, <1>5, <1>6

-----------------------------------------------------------------------------
(* The inductive invariant.                                                *)

\* The addresses whose first byte the standard gives to decoders, and the speeds
\* that are sent: the byte of an emergency stop (-1) has no direction.
Standard == Cabs \subseteq 1..10239 /\ Speeds \subseteq 0..126

\* What the packets have asked for is a state, with the functions of the map.
IsState(l, map) == l = State(l.step, l.forward, l.stopped, map, l.cv)

\* Between two packets a decoder waits, or has a frame that the next one ends.
Waits(wanted) ==
  \/ /\ \E n \in 0..9 : decoder = Listening(n)
     /\ Standard => loco = wanted
  \/ \E B \in Frames : /\ decoder = Reading(B, Len(B) - 1, 8)
                       /\ Standard => AcceptAt(own, loco, B) = wanted

\* In the preamble: the decoder counts ones, or has counted enough of them.
Preamble ==
  /\ 1 <= cursor /\ cursor <= 22
  /\ \E n \in 0..10 : decoder = Listening(n) /\ (n = 10 \/ n >= cursor)
  /\ Standard => loco = told

\* In the data of B: the decoder has the bits that have been sent.
InData(B) ==
  /\ \E i \in 0..(Len(B) - 1), j \in 0..8 : cursor = 23 + 9 * i + j /\ decoder = Reading(B, i, j)
  /\ Standard => loco = told

\* A decoder that began to listen within the data of an idle packet.
OutOfStep ==
  /\ count = 0 /\ packet = IdlePacket /\ loco = told /\ told = asked
  /\ \E n \in 0..10 : n <= OnesAt(cursor) /\ decoder = Listening(n)

\* Where the decoder is.
Follows(B) == (cursor = 0 /\ Waits(told)) \/ Preamble \/ InData(B) \/ OutOfStep

\* B is the packet on the wire, and a decoder that reads it obeys it.
OnWire(B) ==
  /\ packet = Pack(B) /\ cursor \in Int /\ 0 <= cursor /\ cursor <= 22 + 9 * Len(B)
  /\ Standard => AcceptAt(own, told, B) = asked
  /\ Follows(B)

\* The inductive invariant.
TrackInv ==
  /\ own \in Cabs /\ count \in Nat /\ count <= MaxPackets
  /\ fMap \in FnMaps /\ IsState(asked, fMap)
  /\ \E B \in Frames : OnWire(B)

\* The addresses of the constants, without their interval.
LEMMA CabBounds ==
  ASSUME NEW cab \in Cabs
  PROVE  cab \in Int /\ 1 <= cab /\ cab <= 10293 /\ (Standard => cab <= 10239)
<1> DEFINE hi == 10293
           std == 10239
<1>1. Cabs \subseteq 1..hi
  BY PacketsAssumption
<1>4. Standard => Cabs \subseteq 1..std
  BY DEF Standard
<1>2. hi \in Int /\ std \in Int
  OBVIOUS
<1> HIDE DEF hi, std
<1>3. cab \in Int /\ 1 <= cab /\ cab <= hi /\ (Standard => cab <= std)
  BY <1>1, <1>2, <1>4
<1> QED BY <1>3 DEF hi, std

\* A state with the functions of a map is one.
LEMMA StateIsState ==
  ASSUME NEW s, NEW f, NEW e, NEW map, NEW cv PROVE IsState(State(s, f, e, map, cv), map)
  BY DEF IsState, State

\* The length of a packet in bytes and in bits.
LEMMA FrameLength ==
  ASSUME NEW B \in Frames
  PROVE  Len(B) \in Int /\ 3 <= Len(B) /\ Len(B) <= 6 /\ Pack(B).nBits = 22 + 9 * Len(B)
<1>1. Pack(B).nBits = 22 + 9 * Len(B)
  BY OnTheRails
<1>2. PICK n \in 3..6 : n = Len(B)
  BY DEF Frames
<1>3. n \in Int /\ 3 <= n /\ n <= 6
  OBVIOUS
<1>4. Len(B) \in Int /\ 3 <= Len(B) /\ Len(B) <= 6
  BY <1>2, <1>3
<1> QED BY <1>1, <1>4

\* A decoder that begins to listen in an idle packet.
LEMMA InitTrack == ASSUME Init PROVE TrackInv
<1> DEFINE none == [g \in 0..28 |-> FALSE]
<1>1. own \in Cabs /\ fMap = none /\ count = 0 /\ packet = IdlePacket
  BY DEF Init
<1>2. decoder = Lost /\ loco = Still /\ told = Still /\ asked = Still
  BY DEF Init
<1>3. cursor \in Int /\ 0 <= cursor /\ cursor <= 49
  BY IdleBits DEF Init
<1>4. none \in FnMaps
  BY DEF FnMaps
<1>5. Still = State(0, TRUE, FALSE, none, <<>>)
  BY DEF Still, State
<1>6. IsState(asked, fMap)
  BY <1>1, <1>2, <1>5, StateIsState
<1>7. IdleFrame \in Frames /\ packet = Pack(IdleFrame) /\ 22 + 9 * Len(IdleFrame) = 49
  BY <1>1, IdleIsFrame
<1>8. AcceptAt(own, told, IdleFrame) = asked
  BY <1>1, <1>2, CabBounds, IdleForNone
<1>9. OutOfStep
  <2>1. decoder = Listening(0)
    BY <1>2 DEF Listening, Lost
  <2>2. 0 <= OnesAt(cursor) /\ 0 \in 0..10
    BY <1>3 DEF OnesAt
  <2> QED BY <1>1, <1>2, <2>1, <2>2 DEF OutOfStep
<1>10. OnWire(IdleFrame)
  BY <1>3, <1>7, <1>8, <1>9 DEF OnWire, Follows
<1>11. count \in Nat /\ count <= MaxPackets
  BY <1>1, PacketsAssumption
<1> QED BY <1>1, <1>4, <1>6, <1>7, <1>10, <1>11 DEF TrackInv

\* When the last bit of a packet is sent, the decoder waits for the one that ends
\* it, or has heard too little to have found it.
LEMMA AtEnd ==
  ASSUME TrackInv, cursor = packet.nBits
  PROVE  Waits(asked)
<1>1. PICK B \in Frames : OnWire(B)
  BY DEF TrackInv
<1>2. /\ Len(B) \in Int /\ 3 <= Len(B) /\ Len(B) <= 6 /\ cursor = 22 + 9 * Len(B)
      /\ Standard => AcceptAt(own, told, B) = asked
  BY <1>1, FrameLength DEF OnWire
<1>3. CASE InData(B)
  <2>1. PICK i \in 0..(Len(B) - 1), j \in 0..8 :
               cursor = 23 + 9 * i + j /\ decoder = Reading(B, i, j)
    BY <1>3 DEF InData
  <2>2. i = Len(B) - 1 /\ j = 8
    BY <1>2, <2>1
  <2>3. decoder = Reading(B, Len(B) - 1, 8)
    BY <2>1, <2>2
  <2>4. Standard => AcceptAt(own, loco, B) = asked
    BY <1>2, <1>3 DEF InData
  <2> QED BY <2>3, <2>4 DEF Waits
<1>4. CASE OutOfStep
  <2>1. cursor = 49
    BY <1>4, IdleBits DEF OutOfStep
  <2>2. PICK n \in 0..10 : n <= OnesAt(cursor) /\ decoder = Listening(n)
    BY <1>4 DEF OutOfStep
  <2>3. n \in 0..9
    BY <2>1, <2>2 DEF OnesAt
  <2> QED BY <1>4, <2>2, <2>3 DEF OutOfStep, Waits
<1> QED BY <1>1, <1>2, <1>3, <1>4 DEF OnWire, Follows, Preamble

\* onTimer1 sends the preamble, the start bits and the bytes in place.
LEMMA WireBits ==
  ASSUME NEW B \in Frames, packet = Pack(B)
  PROVE  /\ \A c \in Int : 0 <= c /\ c <= 21 => Sent(packet, c) = 1
         /\ Sent(packet, 22) = 0
         /\ \A i \in 0..(Len(B) - 1) :
              /\ Sent(packet, 22 + 9 * i) = 0
              /\ \A j \in 0..7 : Sent(packet, 23 + 9 * i + j) = BitOf(B[i + 1], 7 - j)
<1>1. /\ \A c \in 0..21 : Sent(packet, c) = 1
      /\ \A i \in 0..(Len(B) - 1) : Framed(packet, 22 + 9 * i, B[i + 1])
  BY OnTheRails
<1>2. ASSUME NEW c \in Int, 0 <= c, c <= 21 PROVE Sent(packet, c) = 1
  <2>1. c \in 0..21
    BY <1>2
  <2> QED BY <1>1, <2>1
<1>3. ASSUME NEW i \in 0..(Len(B) - 1)
      PROVE  /\ Sent(packet, 22 + 9 * i) = 0
             /\ \A j \in 0..7 : Sent(packet, 23 + 9 * i + j) = BitOf(B[i + 1], 7 - j)
  <2> DEFINE c == 22 + 9 * i
             n == B[i + 1]
  <2>1. Framed(packet, c, n)
    BY <1>1
  <2>2. \A j \in 0..7 : 23 + 9 * i + j = c + (j + 1)
    OBVIOUS
  <2> HIDE DEF c, n
  <2>3. \A j \in 0..7 : Sent(packet, c + (j + 1)) = BitOf(n, 7 - j)
    BY <2>1, Eight DEF Framed
  <2>4. Sent(packet, c) = 0
    BY <2>1 DEF Framed
  <2>5. \A j \in 0..7 : Sent(packet, 23 + 9 * i + j) = BitOf(n, 7 - j)
    BY <2>2, <2>3
  <2> QED BY <2>4, <2>5 DEF c, n
<1>4. Sent(packet, 22) = 0
  <2>1. 0 \in 0..(Len(B) - 1)
    BY FrameLength
  <2>2. Sent(packet, 22 + 9 * 0) = 0
    BY <1>3, <2>1
  <2> QED BY <2>2
<1> QED BY <1>2, <1>3, <1>4

\* What a bit does, put for each of the phases of the invariant.
LEMMA SendStep ==
  ASSUME Send
  PROVE  /\ cursor < packet.nBits /\ cursor' = cursor + 1
         /\ decoder' = Receive(decoder, Sent(packet, cursor))
         /\ loco' = IF Complete(decoder, Sent(packet, cursor))
                      THEN AcceptAt(own, loco, Append(decoder.bytes, decoder.byte)) ELSE loco
         /\ own' = own /\ fMap' = fMap /\ packet' = packet /\ count' = count
         /\ told' = told /\ asked' = asked
<1>1. WireBit = Sent(packet, cursor)
  BY DEF WireBit, Sent
<1> QED BY <1>1, AcceptsAt DEF Send

\* One bit more, in each phase of the decoder.
LEMMA SendTrack == ASSUME TrackInv, Send PROVE TrackInv'
<1>1. PICK B \in Frames : OnWire(B)
  BY DEF TrackInv
<1>2. /\ packet = Pack(B) /\ cursor \in Int /\ 0 <= cursor /\ cursor < 22 + 9 * Len(B)
      /\ Len(B) \in Int /\ 3 <= Len(B) /\ Len(B) <= 6
  BY <1>1, FrameLength, SendStep DEF OnWire
<1> DEFINE bit == Sent(packet, cursor)
<1>3. /\ cursor' = cursor + 1 /\ decoder' = Receive(decoder, bit)
      /\ loco' = IF Complete(decoder, bit)
                   THEN AcceptAt(own, loco, Append(decoder.bytes, decoder.byte)) ELSE loco
      /\ own' = own /\ fMap' = fMap /\ packet' = packet /\ count' = count
      /\ told' = told /\ asked' = asked
  BY SendStep
<1> HIDE DEF bit
<1>4. SUFFICES Follows(B)'
  <2>1. ASSUME Follows(B)' PROVE OnWire(B)'
    <3>1. cursor' \in Int /\ 0 <= cursor' /\ cursor' <= 22 + 9 * Len(B)
      BY <1>2, <1>3
    <3>2. packet' = Pack(B) /\ (Standard => AcceptAt(own', told', B) = asked')
      BY <1>1, <1>2, <1>3 DEF OnWire
    <3> QED BY <2>1, <3>1, <3>2 DEF OnWire
  <2> QED BY <1>3, <2>1 DEF TrackInv
<1>5. CASE cursor = 0 /\ Waits(told)
  <2>1. bit = 1
    BY <1>2, <1>5, WireBits DEF bit
  <2>2. 1 \in 0..10 /\ 1 >= cursor' /\ 1 <= cursor' /\ cursor' <= 22
    BY <1>3, <1>5
  <2>3. CASE \E n \in 0..9 : decoder = Listening(n) /\ (Standard => loco = told)
    <3>1. PICK n \in 0..9 : decoder = Listening(n) /\ (Standard => loco = told)
      BY <2>3
    <3>2. n \in 0..10 /\ n + 1 \in 0..10 /\ n < 10 /\ n + 1 >= cursor'
      BY <1>3, <1>5
    <3>3. decoder' = Listening(n + 1) /\ ~Complete(decoder, bit)
      BY <1>3, <2>1, <3>1, <3>2, Listens
    <3> QED BY <1>3, <2>2, <3>1, <3>2, <3>3 DEF Follows, Preamble
  <2>4. CASE \E A \in Frames : /\ decoder = Reading(A, Len(A) - 1, 8)
                               /\ Standard => AcceptAt(own, loco, A) = told
    <3>1. PICK A \in Frames : /\ decoder = Reading(A, Len(A) - 1, 8)
                              /\ Standard => AcceptAt(own, loco, A) = told
      BY <2>4
    <3>2. /\ decoder' = Listening(1) /\ Complete(decoder, bit)
          /\ Append(decoder.bytes, decoder.byte) = A
      BY <1>3, <2>1, <3>1, ReadOne
    <3>3. Standard => loco' = told'
      BY <1>3, <3>1, <3>2
    <3> QED BY <2>2, <3>2, <3>3 DEF Follows, Preamble
  <2> QED BY <1>5, <2>3, <2>4 DEF Waits
<1>6. CASE Preamble
  <2>1. PICK n \in 0..10 : decoder = Listening(n) /\ (n = 10 \/ n >= cursor)
    BY <1>6 DEF Preamble
  <2>2. 1 <= cursor /\ cursor <= 22 /\ (Standard => loco = told)
    BY <1>6 DEF Preamble
  <2>3. CASE cursor <= 21
    <3>1. bit = 1
      BY <1>2, <2>3, WireBits DEF bit
    <3> DEFINE m == IF n < 10 THEN n + 1 ELSE 10
    <3>2. m \in 0..10 /\ (m = 10 \/ m >= cursor')
      BY <1>2, <1>3, <2>1
    <3>3. decoder' = Listening(m) /\ ~Complete(decoder, bit)
      BY <1>3, <2>1, <3>1, Listens
    <3> HIDE DEF m
    <3>4. 1 <= cursor' /\ cursor' <= 22 /\ (Standard => loco' = told')
      BY <1>2, <1>3, <2>2, <2>3, <3>3
    <3> QED BY <3>2, <3>3, <3>4 DEF Follows, Preamble
  <2>4. CASE cursor = 22
    <3>1. bit = 0 /\ n = 10
      BY <1>2, <2>1, <2>4, WireBits DEF bit
    <3>2. decoder' = Data(0, 0, <<>>) /\ ~Complete(decoder, bit)
      BY <1>3, <2>1, <3>1, Listens
    <3>3. decoder' = Reading(B, 0, 0)
      BY <3>2, ReadStart
    <3>4. cursor' = 23 + 9 * 0 + 0 /\ 0 \in 0..(Len(B) - 1) /\ 0 \in 0..8
      BY <1>2, <1>3, <2>4
    <3>5. Standard => loco' = told'
      BY <1>3, <2>2, <3>2
    <3> QED BY <3>3, <3>4, <3>5 DEF Follows, InData
  <2> QED BY <1>2, <2>2, <2>3, <2>4
<1>7. CASE InData(B)
  <2>1. PICK i \in 0..(Len(B) - 1), j \in 0..8 :
               cursor = 23 + 9 * i + j /\ decoder = Reading(B, i, j)
    BY <1>7 DEF InData
  <2>2. Standard => loco = told
    BY <1>7 DEF InData
  <2>3. CASE j \in 0..7
    <3>1. bit = BitOf(B[i + 1], 7 - j)
      BY <1>2, <2>1, <2>3, WireBits DEF bit
    <3>2. decoder' = Reading(B, i, j + 1) /\ ~Complete(decoder, bit)
      BY <1>3, <2>1, <2>3, <3>1, ReadBit
    <3>3. cursor' = 23 + 9 * i + (j + 1) /\ j + 1 \in 0..8
      BY <1>3, <2>1, <2>3
    <3>4. Standard => loco' = told'
      BY <1>3, <2>2, <3>2
    <3> QED BY <3>2, <3>3, <3>4 DEF Follows, InData
  <2>4. CASE j = 8
    <3>1. i \in 0..(Len(B) - 2) /\ i + 1 \in 0..(Len(B) - 1) /\ cursor = 22 + 9 * (i + 1)
      BY <1>2, <2>1, <2>4
    <3>2. bit = 0
      BY <1>2, <3>1, WireBits DEF bit
    <3>3. decoder' = Reading(B, i + 1, 0) /\ ~Complete(decoder, bit)
      BY <1>3, <2>1, <2>4, <3>1, <3>2, ReadZero
    <3>4. cursor' = 23 + 9 * (i + 1) + 0 /\ 0 \in 0..8
      BY <1>3, <3>1
    <3>5. Standard => loco' = told'
      BY <1>3, <2>2, <3>3
    <3> QED BY <3>1, <3>3, <3>4, <3>5 DEF Follows, InData
  <2> QED BY <2>3, <2>4
<1>8. CASE OutOfStep
  <2>1. count = 0 /\ packet = IdlePacket /\ loco = told /\ told = asked
    BY <1>8 DEF OutOfStep
  <2>2. PICK n \in 0..10 : n <= OnesAt(cursor) /\ decoder = Listening(n)
    BY <1>8 DEF OutOfStep
  <2>3. cursor <= 48
    <3>1. Pack(B).nBits = 49
      BY <1>2, <2>1, IdleBits
    <3>2. 22 + 9 * Len(B) = 49
      BY <3>1, FrameLength
    <3> QED BY <1>2, <3>2
  <2>4. bit = IF cursor = 22 \/ cursor \in 31..40 THEN 0 ELSE 1
    <3>1. cursor \in 0..48
      BY <1>2, <2>3
    <3> QED BY <2>1, <3>1, IdleBits DEF bit
  <2>5. ~Complete(decoder, bit)
    BY <2>2, Listens
  <2>6. loco' = told' /\ told' = asked' /\ count' = 0 /\ packet' = IdlePacket
    BY <1>3, <2>1, <2>5
  <2>7. CASE bit = 1
    <3> DEFINE m == IF n < 10 THEN n + 1 ELSE 10
    <3>1. decoder' = Listening(m)
      BY <1>3, <2>2, <2>7, Listens
    <3>2. m \in 0..10 /\ m <= OnesAt(cursor')
      BY <1>2, <1>3, <2>2, <2>3, <2>4, <2>7 DEF OnesAt
    <3> HIDE DEF m
    <3> QED BY <2>6, <3>1, <3>2 DEF Follows, OutOfStep
  <2>8. CASE bit = 0 /\ n # 10
    <3>1. decoder' = Listening(0)
      BY <1>3, <2>2, <2>8, Listens
    <3>2. 0 \in 0..10 /\ 0 <= OnesAt(cursor')
      BY <1>2, <1>3 DEF OnesAt
    <3> QED BY <2>6, <3>1, <3>2 DEF Follows, OutOfStep
  <2>9. CASE bit = 0 /\ n = 10
    <3>1. cursor = 22
      BY <1>2, <2>2, <2>3, <2>4, <2>9 DEF OnesAt
    <3>2. decoder' = Data(0, 0, <<>>)
      BY <1>3, <2>2, <2>9, Listens
    <3>3. decoder' = Reading(B, 0, 0)
      BY <3>2, ReadStart
    <3>4. cursor' = 23 + 9 * 0 + 0 /\ 0 \in 0..(Len(B) - 1) /\ 0 \in 0..8
      BY <1>2, <1>3, <3>1
    <3> QED BY <2>6, <3>3, <3>4 DEF Follows, InData
  <2> QED BY <2>4, <2>7, <2>8, <2>9
<1> QED BY <1>1, <1>5, <1>6, <1>7, <1>8 DEF OnWire, Follows

\* A packet that says q follows the one that was sent.
LEMMA LoadTrack ==
  ASSUME TrackInv, NEW cab \in Cabs, NEW q \in Instructions, NEW l,
         Load(cab, Address(cab) \o q, l),
         fMap' \in FnMaps, IsState(asked', fMap'),
         Standard /\ cab = own => Obey(asked, q) = l
  PROVE  TrackInv'
<1> DEFINE bytes == Address(cab) \o q
           B == Checked(bytes)
<1>1. /\ cursor = packet.nBits /\ count < MaxPackets /\ count' = count + 1
      /\ packet' = Pack(B) /\ cursor' = 0
      /\ told' = asked /\ asked' = (IF cab = own THEN l ELSE asked)
      /\ own' = own /\ decoder' = decoder /\ loco' = loco
  BY DEF Load
<1>2. cab \in Int /\ 1 <= cab /\ cab <= 10293 /\ (Standard => cab <= 10239) /\ own \in Int
  BY CabBounds DEF TrackInv
<1>3. B \in Frames
  BY <1>2, Addressed
<1>4. Standard => AcceptAt(own, asked, B) = IF cab = own THEN Obey(asked, q) ELSE asked
  BY <1>2, Heard
<1> HIDE DEF B
<1>5. Waits(told)'
  <2>1. Waits(asked)
    BY <1>1, AtEnd
  <2> QED BY <1>1, <2>1 DEF Waits
<1>6. Follows(B)'
  BY <1>1, <1>5 DEF Follows
<1>7. Standard => AcceptAt(own', told', B) = asked'
  BY <1>1, <1>4
<1>8. 0 <= 22 + 9 * Len(B)
  BY <1>3, FrameLength
<1>9. OnWire(B)'
  BY <1>1, <1>6, <1>7, <1>8 DEF OnWire
<1>10. count' \in Nat /\ count' <= MaxPackets
  BY <1>1, PacketsAssumption DEF TrackInv
<1> QED BY <1>1, <1>3, <1>9, <1>10 DEF TrackInv

\* The idle packet after a packet.
LEMMA IdleTrack == ASSUME TrackInv, Idle PROVE TrackInv'
<1>1. /\ cursor = packet.nBits /\ packet' = Pack(IdleFrame) /\ cursor' = 0 /\ told' = asked
      /\ own' = own /\ fMap' = fMap /\ count' = count /\ decoder' = decoder
      /\ loco' = loco /\ asked' = asked
  BY IdleIsFrame DEF Idle
<1>2. Waits(told)'
  <2>1. Waits(asked)
    BY <1>1, AtEnd
  <2> QED BY <1>1, <2>1 DEF Waits
<1>3. Follows(IdleFrame)'
  BY <1>1, <1>2 DEF Follows
<1>4. AcceptAt(own', told', IdleFrame) = asked'
  BY <1>1, CabBounds, IdleForNone DEF TrackInv
<1>5. IdleFrame \in Frames /\ 0 <= 22 + 9 * Len(IdleFrame)
  BY IdleIsFrame, FrameLength
<1>6. OnWire(IdleFrame)'
  BY <1>1, <1>3, <1>4, <1>5 DEF OnWire
<1> QED BY <1>1, <1>5, <1>6 DEF TrackInv

\* A speed command after a packet.
LEMMA ThrottleTrack ==
  ASSUME TrackInv, NEW cab \in Cabs, NEW speed \in Speeds, NEW forward \in BOOLEAN,
         SetThrottle(cab, speed, forward)
  PROVE  TrackInv'
<1> DEFINE q == <<63, SpeedByte(speed, forward)>>
           l == Driven(asked, speed, forward)
<1>1. fMap \in FnMaps /\ asked = State(asked.step, asked.forward, asked.stopped, fMap, asked.cv)
  BY DEF TrackInv, IsState
<1>2. speed \in Int /\ -1 <= speed /\ speed <= 126
  BY PacketsAssumption
<1>3. q \in Instructions /\ (Standard => Obey(asked, q) = l)
  <2>1. q \in Instructions /\ (0 <= speed => Obey(asked, q) = l)
    BY <1>1, <1>2, ThrottleObeyed
  <2>2. Standard => 0 <= speed
    BY DEF Standard
  <2> QED BY <2>1, <2>2
<1>4. IsState(l, fMap)
  BY <1>1, DrivenState, StateIsState
<1>5. Load(cab, Address(cab) \o q, l) /\ fMap' = fMap
  BY DEF SetThrottle, ThrottleBytes, Driven
<1> HIDE DEF q, l
<1>6. asked' = IF cab = own THEN l ELSE asked
  BY <1>5 DEF Load
<1>7. IsState(asked', fMap')
  BY <1>4, <1>5, <1>6 DEF TrackInv
<1> QED BY <1>1, <1>3, <1>5, <1>7, LoadTrack

\* A function command after a packet.
LEMMA FunctionTrack ==
  ASSUME TrackInv, NEW g \in Fns, NEW on \in BOOLEAN, SetFunction(g, on)
  PROVE  TrackInv'
<1> DEFINE map == [fMap EXCEPT ![g] = on]
           s == asked.step
           f == asked.forward
           e == asked.stopped
           cv == asked.cv
           l == State(s, f, e, map, cv)
<1>1. own \in Cabs /\ fMap \in FnMaps /\ asked = State(s, f, e, fMap, cv)
  BY DEF TrackInv, IsState
<1>2. g \in 0..28
  BY PacketsAssumption
<1>3. map \in FnMaps /\ \A x \in 0..28 : x # g => map[x] = fMap[x]
  BY <1>1, <1>2 DEF FnMaps
<1>4. [asked EXCEPT !.fn[g] = on] = l
  <2>1. asked.fn = fMap
    BY <1>1 DEF State
  <2>2. [asked EXCEPT !.fn[g] = on] = [asked EXCEPT !.fn = [asked.fn EXCEPT ![g] = on]]
    OBVIOUS
  <2>3. [asked EXCEPT !.fn[g] = on] = [asked EXCEPT !.fn = map]
    BY <2>1, <2>2
  <2> HIDE DEF map
  <2>4. [asked EXCEPT !.fn = map] = l
    <3> HIDE DEF s, f, e, cv
    <3>1. [State(s, f, e, fMap, cv) EXCEPT !.fn = map] = l
      BY DEF State
    <3> QED BY <1>1, <3>1
  <2> QED BY <2>3, <2>4 DEF map
<1> HIDE DEF s, f, e, cv
<1>5. fMap' = map /\ Load(own, FunctionBytes(own, GroupBytes(map, g)), l)
  BY <1>4 DEF SetFunction
<1> HIDE DEF map
<1>6. PICK q \in Instructions :
             /\ FunctionBytes(own, GroupBytes(map, g)) = Address(own) \o q
             /\ Obey(State(s, f, e, fMap, cv), q) = l
  <2>1. Switched(fMap, map, g)
    BY <1>1, <1>2, <1>3 DEF Switched
  <2>2. Obeyed(s, f, e, cv, fMap, map, g)
    BY <2>1, FunctionObeyed
  <2> QED BY <2>2 DEF Obeyed, l
<1>7. Load(own, Address(own) \o q, l) /\ Obey(asked, q) = l
  BY <1>1, <1>5, <1>6
<1>8. asked' = l
  BY <1>5 DEF Load
<1>9. fMap' \in FnMaps /\ IsState(asked', fMap')
  BY <1>3, <1>5, <1>8, StateIsState
<1> HIDE DEF l
<1> QED BY <1>1, <1>7, <1>9, LoadTrack

\* The write of a CV or of a bit of it after a packet.
LEMMA CvTrack ==
  ASSUME TrackInv, NEW cab \in Cabs, NEW q \in Instructions, NEW z,
         Obey(asked, q) = [asked EXCEPT !.cv = z],
         Load(cab, Address(cab) \o q, [asked EXCEPT !.cv = z]), fMap' = fMap
  PROVE  TrackInv'
<1> DEFINE l == [asked EXCEPT !.cv = z]
           s == asked.step
           f == asked.forward
           e == asked.stopped
           cv == asked.cv
<1>1. fMap \in FnMaps /\ asked = State(s, f, e, fMap, cv)
  BY DEF TrackInv, IsState
<1>2. l = State(s, f, e, fMap, z)
  <2> HIDE DEF s, f, e, cv
  <2>1. [State(s, f, e, fMap, cv) EXCEPT !.cv = z] = State(s, f, e, fMap, z)
    BY DEF State
  <2> QED BY <1>1, <2>1
<1>3. IsState(l, fMap)
  BY <1>2, StateIsState
<1> HIDE DEF l
<1>4. Obey(asked, q) = l /\ Load(cab, Address(cab) \o q, l)
  BY DEF l
<1>5. asked' = IF cab = own THEN l ELSE asked
  BY <1>4 DEF Load
<1>6. IsState(asked', fMap')
  BY <1>3, <1>5 DEF TrackInv
<1> QED BY <1>1, <1>4, <1>6, LoadTrack

\* Every step keeps the invariant.
LEMMA NextTrack == ASSUME TrackInv, [Next]_vars PROVE TrackInv'
<1>1. CASE Send
  BY <1>1, SendTrack
<1>2. CASE Idle
  BY <1>2, IdleTrack
<1>3. ASSUME NEW f \in Fns, NEW on \in BOOLEAN, SetFunction(f, on)
      PROVE  TrackInv'
  BY <1>3, FunctionTrack
<1>4. ASSUME NEW cab \in Cabs, NEW s \in Speeds, NEW forward \in BOOLEAN,
             SetThrottle(cab, s, forward)
      PROVE  TrackInv'
  BY <1>4, ThrottleTrack
<1>5. \A n \in Cvs : n \in Int /\ 1 <= n /\ n <= 1024
  <2> DEFINE hi == 1024
  <2>1. Cvs \subseteq 1..hi
    BY PacketsAssumption
  <2>2. hi \in Int
    OBVIOUS
  <2> HIDE DEF hi
  <2>3. \A n \in Cvs : n \in Int /\ 1 <= n /\ n <= hi
    BY <2>1, <2>2
  <2> QED BY <2>3 DEF hi
<1>6. ASSUME NEW cab \in Cabs, NEW n \in Cvs, NEW v \in CvValues, WriteCVByteMain(cab, n, v)
      PROVE  TrackInv'
  <2> DEFINE q == <<236 + (HighByte(n - 1) % 4), (n - 1) % 256, v>>
             z == <<n, v>>
  <2>1. v \in Bytes
    BY PacketsAssumption DEF Bytes
  <2>2. q \in Instructions /\ Obey(asked, q) = [asked EXCEPT !.cv = z]
    BY <1>5, <2>1, CvByteObeyed
  <2>3. Load(cab, Address(cab) \o q, [asked EXCEPT !.cv = z]) /\ fMap' = fMap
    BY <1>6 DEF WriteCVByteMain, CvByteBytes
  <2> HIDE DEF q, z
  <2> QED BY <2>2, <2>3, CvTrack
<1>7. ASSUME NEW cab \in Cabs, NEW n \in Cvs, NEW b \in CvBits, NEW v \in 0..1,
             WriteCVBitMain(cab, n, b, v)
      PROVE  TrackInv'
  <2> DEFINE q == <<232 + (HighByte(n - 1) % 4), (n - 1) % 256, 240 + v * 8 + b>>
             z == <<n, b, v>>
  <2>1. b \in 0..7
    BY PacketsAssumption
  <2>2. q \in Instructions /\ Obey(asked, q) = [asked EXCEPT !.cv = z]
    <3>1. n \in Int /\ 1 <= n /\ n <= 1024
      BY <1>5
    <3>2. ObeyedBit(asked, n, b, v)
      BY <2>1, <3>1, CvBitObeyed
    <3> QED BY <3>2 DEF ObeyedBit
  <2>3. Load(cab, Address(cab) \o q, [asked EXCEPT !.cv = z]) /\ fMap' = fMap
    BY <1>7 DEF WriteCVBitMain, CvBitBytes
  <2> HIDE DEF q, z
  <2> QED BY <2>2, <2>3, CvTrack
<1>8. CASE UNCHANGED vars
  <2>1. PICK B \in Frames : OnWire(B)
    BY DEF TrackInv
  <2>2. /\ own' = own /\ fMap' = fMap /\ packet' = packet /\ cursor' = cursor
        /\ count' = count /\ decoder' = decoder /\ loco' = loco /\ told' = told /\ asked' = asked
    BY <1>8 DEF vars
  <2>3. OnWire(B)'
    BY <2>1, <2>2 DEF OnWire, Follows, Waits, Preamble, InData, OutOfStep
  <2> QED BY <2>2, <2>3 DEF TrackInv
<1> QED BY <1>1, <1>2, <1>3, <1>4, <1>6, <1>7, <1>8 DEF Next

\* Whatever commands follow one another, a packet that loadPacket made is on the
\* wire and the decoder is where its bits have put it (onTimer1, loadPacket).
THEOREM TrackAlways == Spec => []TrackInv
<1> QED BY InitTrack, NextTrack, PTL DEF Spec

\* What a decoder has in the phases of the invariant.
LEMMA DecoderFields ==
  /\ \A n : /\ Listening(n).phase = "preamble" /\ Listening(n).bits = 0
            /\ Listening(n).byte = 0
  /\ \A B, i, j : /\ Reading(B, i, j).phase = "data" /\ Reading(B, i, j).bits = j
                  /\ Reading(B, i, j).byte = High(B[i + 1], j)
<1>1. ASSUME NEW n
      PROVE  /\ Listening(n).phase = "preamble" /\ Listening(n).bits = 0
             /\ Listening(n).byte = 0
  BY DEF Listening, Lost
<1>2. ASSUME NEW B, NEW i, NEW j
      PROVE  /\ Reading(B, i, j).phase = "data" /\ Reading(B, i, j).bits = j
             /\ Reading(B, i, j).byte = High(B[i + 1], j)
  BY DEF Reading, Data
<1> QED BY <1>1, <1>2

\* Whatever bit a decoder begins to listen at, it is in step by the first bit
\* of the data of the packet after it (RegisterList::loadPacket's preamble and
\* start bits, and the bits of onTimer1).
THEOREM FramesAlwaysFound == Spec => []FramesFound
<1>1. ASSUME TrackInv PROVE FramesFound
  <2> SUFFICES ASSUME cursor = 23, count > 0 \/ decoder.phase = "data"
               PROVE  decoder.phase = "data" /\ decoder.bits = 0 /\ decoder.bytes = <<>>
    BY DEF FramesFound
  <2>1. PICK B \in Frames : OnWire(B)
    BY <1>1 DEF TrackInv
  <2>2. ~Preamble
    BY DEF Preamble
  <2>3. ~OutOfStep
    BY DecoderFields DEF OutOfStep
  <2>4. InData(B)
    BY <2>1, <2>2, <2>3 DEF OnWire, Follows
  <2>5. PICK i \in 0..(Len(B) - 1), j \in 0..8 :
               cursor = 23 + 9 * i + j /\ decoder = Reading(B, i, j)
    BY <2>4 DEF InData
  <2>6. i = 0 /\ j = 0
    BY <2>5, FrameLength
  <2>7. decoder = Data(0, 0, <<>>)
    BY <2>5, <2>6, ReadStart
  <2> QED BY <2>7 DEF Data
<1> QED BY <1>1, TrackAlways, PTL

\* With addresses that the standard gives to decoders, and every speed but the
\* emergency stop, a locomotive is in the
\* state that the commands for it asked for once the packet after a command has
\* begun (setThrottle, setFunction, writeCVByteMain and writeCVBitMain).
THEOREM DecoderAlwaysObeys == ASSUME Standard PROVE Spec => []DecoderObeys
<1>1. ASSUME TrackInv PROVE DecoderObeys
  <2> SUFFICES ASSUME cursor \in 1..22 PROVE loco = told
    BY DEF DecoderObeys
  <2>1. PICK B \in Frames : OnWire(B)
    BY <1>1 DEF TrackInv
  <2>2. cursor # 0 /\ cursor <= 22
    OBVIOUS
  <2>3. ~InData(B)
    BY <2>2, FrameLength DEF InData
  <2>4. CASE Preamble
    BY <2>4 DEF Preamble
  <2>5. CASE OutOfStep
    BY <2>5 DEF OutOfStep
  <2> QED BY <2>1, <2>2, <2>3, <2>4, <2>5 DEF OnWire, Follows
<1> QED BY <1>1, TrackAlways, PTL

\* Types, and the bits of a packet that fit its buffer.
THEOREM PacketTypes == Spec => []TypeOK
<1>1. ASSUME TrackInv PROVE TypeOK
  <2>1. PICK B \in Frames : OnWire(B)
    BY <1>1 DEF TrackInv
  <2>2. /\ packet = Pack(B) /\ packet.nBits = 22 + 9 * Len(B) /\ 3 <= Len(B) /\ Len(B) <= 6
        /\ Len(B) \in Int /\ cursor \in Int /\ 0 <= cursor /\ cursor <= 22 + 9 * Len(B)
    BY <2>1, FrameLength DEF OnWire
  <2>3. cursor \in 0..packet.nBits /\ packet.nBits <= 80
    BY <2>2
  <2>4. \A i \in 1..10 : packet.buf[i] \in Bytes
    BY <2>2, OnTheRails
  <2>5. decoder.bits \in 0..8 /\ decoder.byte \in Bytes
    <3>1. 0 \in 0..8 /\ 8 \in 0..8 /\ 0 \in Bytes
      BY IsByte
    <3>2. ASSUME NEW n, decoder = Listening(n) PROVE decoder.bits \in 0..8 /\ decoder.byte \in Bytes
      BY <3>1, <3>2, DecoderFields
    <3>3. ASSUME NEW A \in Frames, NEW i \in 0..(Len(A) - 1), NEW j \in 0..8,
                 decoder = Reading(A, i, j)
          PROVE  decoder.bits \in 0..8 /\ decoder.byte \in Bytes
      <4>1. A[i + 1] \in Bytes
        BY FrameByte
      <4>2. High(A[i + 1], j) \in Bytes
        BY <4>1, HighBytes
      <4> QED BY <3>3, <4>2, DecoderFields
    <3>4. CASE Waits(told)
      <4>1. \A A \in Frames : Len(A) - 1 \in 0..(Len(A) - 1)
        BY FrameLength
      <4> QED BY <3>1, <3>2, <3>3, <3>4, <4>1 DEF Waits
    <3>5. CASE Preamble
      BY <3>2, <3>5 DEF Preamble
    <3>6. CASE InData(B)
      BY <3>3, <3>6 DEF InData
    <3>7. CASE OutOfStep
      BY <3>2, <3>7 DEF OutOfStep
    <3> QED BY <2>1, <3>4, <3>5, <3>6, <3>7 DEF OnWire, Follows
  <2>6. own \in Cabs /\ fMap \in [0..28 -> BOOLEAN] /\ count \in 0..MaxPackets
    BY <1>1, PacketsAssumption DEF TrackInv, FnMaps
  <2>7. (\A i \in 1..10 : packet.buf[i] \in 0..255) /\ decoder.byte \in 0..255
    BY <2>4, <2>5, Zenon DEF Bytes
  <2> QED BY <2>3, <2>5, <2>6, <2>7, Zenon DEF TypeOK
<1> QED BY <1>1, TrackAlways, PTL
=============================================================================
