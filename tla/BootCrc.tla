-------------------------------- MODULE BootCrc --------------------------------
(***************************************************************************)
(* The two checksums of the bootloader, bit by bit as the code computes    *)
(* them, and what they are meant to compute.                               *)
(*                                                                         *)
(* A word is the set of the positions of its one bits: exclusive-or is the *)
(* symmetric difference, a shift moves every position and drops those that *)
(* leave the word.  A byte is a subset of 0 .. 7.                          *)
(***************************************************************************)
EXTENDS Naturals, Sequences, FiniteSets

BitXor(a, b) == (a \ b) \cup (b \ a)

ShiftLeft(word, n, width) == {b + n : b \in {c \in word : c + n < width}}

ShiftRight(word, n) == {b - n : b \in {c \in word : c >= n}}

\* What the bits of a byte are worth; the bits of the byte n, and back.
Worth == <<1, 2, 4, 8, 16, 32, 64, 128>>

Byte(n) == {b \in 0 .. 7 : (n \div Worth[b + 1]) % 2 = 1}

NumberOf(bits) == CHOOSE n \in 0 .. 255 : Byte(n) = bits

-------------------------------------------------------------------------------
(* boot_record_crc16().                                                    *)

Poly16 == {0, 5, 12}       \* 0x1021
AllOnes(width) == 0 .. width - 1

\* Mutant: the test of the top bit comes after the shift.
Crc16Bit_tested_late(crc) ==
  LET shifted == ShiftLeft(crc, 1, 16)
  IN  IF 15 \in shifted THEN BitXor(shifted, Poly16) ELSE shifted

Crc16Bit(crc) ==
  IF 15 \in crc THEN BitXor(ShiftLeft(crc, 1, 16), Poly16) ELSE ShiftLeft(crc, 1, 16)

Crc16Byte(crc, byte) ==
  LET bit[i \in 0 .. 8] == IF i = 0 THEN BitXor(crc, ShiftLeft(byte, 8, 16)) ELSE Crc16Bit(bit[i - 1])
  IN  bit[8]

\* The byte step is a function of the loop: TLC then finishes one byte before the next.
boot_record_crc16(data) ==
  LET next == [crc \in SUBSET AllOnes(16) |-> [byte \in SUBSET AllOnes(8) |-> Crc16Byte(crc, byte)]]
      crc[i \in 0 .. Len(data)] == IF i = 0 THEN AllOnes(16) ELSE next[crc[i - 1]][data[i]]
  IN  crc[Len(data)]

-------------------------------------------------------------------------------
(* boot_crc32().                                                           *)

Poly32 == {31, 30, 29, 27, 26, 24, 23, 21, 20, 19, 15, 9, 8, 5}   \* 0xEDB88320

\* Mutant: the polynomial is not reflected.
Crc32Bit_not_reflected(crc) ==
  IF 0 \in crc THEN BitXor(ShiftRight(crc, 1), {31 - b : b \in Poly32}) ELSE ShiftRight(crc, 1)

Crc32Bit(crc) ==
  IF 0 \in crc THEN BitXor(ShiftRight(crc, 1), Poly32) ELSE ShiftRight(crc, 1)

Crc32Byte(crc, byte) ==
  LET bit[i \in 0 .. 8] == IF i = 0 THEN BitXor(crc, byte) ELSE Crc32Bit(bit[i - 1])
  IN  bit[8]

boot_crc32(data) ==
  LET next == [crc \in SUBSET AllOnes(32) |-> [byte \in SUBSET AllOnes(8) |-> Crc32Byte(crc, byte)]]
      crc[i \in 0 .. Len(data)] == IF i = 0 THEN AllOnes(32) ELSE next[crc[i - 1]][data[i]]
  IN  BitXor(crc[Len(data)], AllOnes(32))

-------------------------------------------------------------------------------
(* What they are meant to compute: the remainder of the message, as a      *)
(* polynomial over GF(2), after division by the generator.  A polynomial   *)
(* is the set of its exponents.                                            *)

\* Long division of p, whose exponents are below size, by a generator of the given degree.
Remainder(p, generator, degree, size) ==
  LET rest[e \in degree .. size] ==
        IF e = size THEN p
        ELSE LET r == rest[e + 1] IN
             IF e \in r THEN BitXor(r, {g + e - degree : g \in generator}) ELSE r
  IN  rest[degree]

\* The first bit of the message is its highest power; the register starts with ones.
Dividend(message, degree, n) ==
  BitXor({e + degree : e \in message}, {e + 8 * n : e \in AllOnes(degree)})

\* Bytes are sent with their top bit first (CRC16-CCITT) ...
TopFirst(data) ==
  UNION {{8 * (Len(data) - i) + b : b \in data[i]} : i \in DOMAIN data}

Crc16Spec(data) ==
  Remainder(Dividend(TopFirst(data), 16, Len(data)), {16} \cup Poly16, 16, 8 * Len(data) + 16)

\* ... or with their low bit first, and the remainder is read backwards and inverted (CRC32).
LowFirst(data) ==
  UNION {{8 * (Len(data) - i) + 7 - b : b \in data[i]} : i \in DOMAIN data}

Crc32Generator == {32, 26, 23, 22, 16, 12, 11, 10, 8, 7, 5, 4, 2, 1, 0}

Crc32Spec(data) ==
  LET r == Remainder(Dividend(LowFirst(data), 32, Len(data)), Crc32Generator, 32, 8 * Len(data) + 32)
  IN  BitXor({31 - e : e \in r}, AllOnes(32))

===============================================================================
