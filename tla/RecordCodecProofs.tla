--------------------------- MODULE RecordCodecProofs ---------------------------
(***************************************************************************)
(* Proofs about the boot record as bytes, for every record, every number   *)
(* of cuts and every way they may leave a word.                            *)
(***************************************************************************)
EXTENDS RecordCodec, CrcProofs, FiniteSetTheorems

-------------------------------------------------------------------------------
(* A byte as a number and as a set of bits.                                *)

\* The sum of the worths has the digits it was made of.
LEMMA Digits ==
  ASSUME NEW d \in [0 .. 7 -> 0 .. 1], NEW n,
         n = d[0] + 2 * d[1] + 4 * d[2] + 8 * d[3] + 16 * d[4] + 32 * d[5] + 64 * d[6] + 128 * d[7]
  PROVE  /\ n \in 0 .. 255
         /\ n % 2 = d[0] /\ (n \div 2) % 2 = d[1] /\ (n \div 4) % 2 = d[2] /\ (n \div 8) % 2 = d[3]
         /\ (n \div 16) % 2 = d[4] /\ (n \div 32) % 2 = d[5] /\ (n \div 64) % 2 = d[6] /\ (n \div 128) % 2 = d[7]
<1>1. /\ d[0] \in 0 .. 1 /\ d[1] \in 0 .. 1 /\ d[2] \in 0 .. 1 /\ d[3] \in 0 .. 1
      /\ d[4] \in 0 .. 1 /\ d[5] \in 0 .. 1 /\ d[6] \in 0 .. 1 /\ d[7] \in 0 .. 1
  OBVIOUS
<1>2. n \in Int
  BY <1>1
<1>3. n \in 0 .. 255 /\ n % 2 = d[0]
  BY <1>1, <1>2, SMTT(30)
<1>4. (n \div 2) % 2 = d[1]
  <2>1. n \div 2 = d[1] + 2 * d[2] + 4 * d[3] + 8 * d[4] + 16 * d[5] + 32 * d[6] + 64 * d[7]
    BY <1>1, <1>2
  <2> QED BY <1>1, <2>1
<1>5. (n \div 4) % 2 = d[2]
  <2>1. n \div 4 = d[2] + 2 * d[3] + 4 * d[4] + 8 * d[5] + 16 * d[6] + 32 * d[7]
    BY <1>1, <1>2
  <2> QED BY <1>1, <2>1
<1>6. (n \div 8) % 2 = d[3]
  <2>1. n \div 8 = d[3] + 2 * d[4] + 4 * d[5] + 8 * d[6] + 16 * d[7]
    BY <1>1, <1>2
  <2> QED BY <1>1, <2>1
<1>7. (n \div 16) % 2 = d[4]
  <2>1. n \div 16 = d[4] + 2 * d[5] + 4 * d[6] + 8 * d[7]
    BY <1>1, <1>2
  <2> QED BY <1>1, <2>1
<1>8. (n \div 32) % 2 = d[5]
  <2>1. n \div 32 = d[5] + 2 * d[6] + 4 * d[7]
    BY <1>1, <1>2
  <2> QED BY <1>1, <2>1
<1>9. (n \div 64) % 2 = d[6]
  <2>1. n \div 64 = d[6] + 2 * d[7]
    BY <1>1, <1>2
  <2> QED BY <1>1, <2>1
<1>10. (n \div 128) % 2 = d[7]
  <2>1. n \div 128 = d[7]
    BY <1>1, <1>2
  <2> QED BY <1>1, <2>1
<1> QED BY <1>3, <1>4, <1>5, <1>6, <1>7, <1>8, <1>9, <1>10

LEMMA NumberOfByte ==
  ASSUME NEW bits \in ByteBits
  PROVE  NumberOf(bits) \in 0 .. 255 /\ Byte(NumberOf(bits)) = bits
<1> DEFINE d == [b \in 0 .. 7 |-> IF b \in bits THEN 1 ELSE 0]
           n == d[0] + 2 * d[1] + 4 * d[2] + 8 * d[3] + 16 * d[4] + 32 * d[5] + 64 * d[6] + 128 * d[7]
<1>1. d \in [0 .. 7 -> 0 .. 1] /\ \A b \in 0 .. 7 : d[b] = 1 <=> b \in bits
  OBVIOUS
<1> HIDE DEF d
<1>2. n = d[0] + 2 * d[1] + 4 * d[2] + 8 * d[3] + 16 * d[4] + 32 * d[5] + 64 * d[6] + 128 * d[7]
  OBVIOUS
<1> HIDE DEF n
<1>3. /\ n \in 0 .. 255
      /\ n % 2 = d[0] /\ (n \div 2) % 2 = d[1] /\ (n \div 4) % 2 = d[2] /\ (n \div 8) % 2 = d[3]
      /\ (n \div 16) % 2 = d[4] /\ (n \div 32) % 2 = d[5] /\ (n \div 64) % 2 = d[6] /\ (n \div 128) % 2 = d[7]
  BY <1>1, <1>2, Digits, SMTT(30)
<1>4. \A b \in 0 .. 7 : (n \div Worth[b + 1]) % 2 = d[b]
  <2>1. n \div 1 = n
    BY <1>3
  <2> QED BY <1>3, <2>1 DEF Worth
<1>5. Byte(n) = bits
  <2>1. \A b \in 0 .. 7 : b \in Byte(n) <=> b \in bits
    BY <1>1, <1>4 DEF Byte
  <2> QED BY <2>1 DEF Byte, ByteBits
<1>6. \E k \in 0 .. 255 : Byte(k) = bits
  BY <1>3, <1>5
<1> HIDE DEF Byte
<1> QED BY <1>6 DEF NumberOf

LEMMA ByteType == ASSUME NEW n PROVE Byte(n) \in ByteBits
BY DEF Byte, ByteBits

-------------------------------------------------------------------------------
(* What is written is what is read.                                        *)

Word == [1 .. 4 -> 0 .. 255]
Block == [Words -> Word]
RecordBytes == [swap_type : 0 .. 255, copy_done : 0 .. 255, image_ok : 0 .. 255,
                sequence : 0 .. 255, crc32_staged : Word, crc32_primary : Word]

LEMMA BytesType ==
  ASSUME NEW b, NEW length \in Nat
  PROVE  BytesOf(b, length) \in Seq(ByteBits) /\ Len(BytesOf(b, length)) = length
<1>1. BytesOf(b, length) \in [1 .. length -> ByteBits]
  BY ByteType DEF BytesOf
<1>2. BytesOf(b, length) = [i \in 1 .. length |-> BytesOf(b, length)[i]]
  BY DEF BytesOf
<1> QED BY <1>1

LEMMA Crc16Type ==
  ASSUME NEW data \in Seq(ByteBits) PROVE boot_record_crc16(data) \in Register16
<1>1. PICK crc : Run16(crc, data)
  BY Bytes16
<1> QED BY <1>1 DEF Run16

\* The CRC16 covers the first 62 bytes and nothing else.
LEMMA SameCrc ==
  ASSUME NEW b, NEW c, \A w \in 0 .. 14 : b[w] = c[w], b[15][1] = c[15][1], b[15][2] = c[15][2]
  PROVE  Crc16Of(b) = Crc16Of(c)
<1>1. ASSUME NEW i \in 1 .. 62 PROVE b[(i - 1) \div 4][((i - 1) % 4) + 1] = c[(i - 1) \div 4][((i - 1) % 4) + 1]
  <2>1. \/ (i - 1) \div 4 \in 0 .. 14
        \/ (i - 1) \div 4 = 15 /\ (i - 1) % 4 \in {0, 1}
    OBVIOUS
  <2> QED BY <2>1
<1>2. BytesOf(b, 62) = BytesOf(c, 62)
  BY <1>1 DEF BytesOf
<1> QED BY <1>2 DEF Crc16Of

\* Where boot_record_t has its fields.
Holds(e, version, r) ==
  /\ e \in Block
  /\ e[0] = BOOT_RECORD_MAGIC /\ e[1] = <<version, r.swap_type, r.copy_done, r.image_ok>>
  /\ e[2] = <<r.sequence, 0, 0, 0>> /\ e[3] = r.crc32_staged /\ e[4] = r.crc32_primary
  /\ Byte(e[15][3]) \cup {i + 8 : i \in Byte(e[15][4])} = Crc16Of(e)

LEMMA EncodedWords ==
  ASSUME NEW version \in 0 .. 255, NEW r \in RecordBytes
  PROVE  Holds(Encode(version, r), version, r)
<1> DEFINE e == Encode(version, r)
           body == [w \in Words |->
                     CASE w = 0 -> BOOT_RECORD_MAGIC
                       [] w = 1 -> <<version, r.swap_type, r.copy_done, r.image_ok>>
                       [] w = 2 -> <<r.sequence, 0, 0, 0>>
                       [] w = 3 -> r.crc32_staged
                       [] w = 4 -> r.crc32_primary
                       [] OTHER -> Ones]
           crc == Crc16Of(body)
           low == {b \in crc : b < 8}
           high == ShiftRight(crc, 8)
           last == <<255, 255, NumberOf(low), NumberOf(high)>>
<1>1. e = [body EXCEPT ![15] = last]
  BY DEF Encode
<1>2. crc \in Register16
  BY BytesType, Crc16Type DEF Crc16Of
<1>3. low \in ByteBits /\ high \in ByteBits /\ low \cup {i + 8 : i \in high} = crc
  <2> HIDE DEF crc
  <2>1. low \in ByteBits /\ high \in ByteBits
    <3>1. low \in ByteBits
      <4>1. \A b \in crc : b \in 0 .. 15
        BY <1>2 DEF Register16
      <4>2. \A b \in low : b \in 0 .. 7
        BY <4>1
      <4> HIDE DEF low
      <4> QED BY <4>2 DEF ByteBits
    <3>2. high \in ByteBits
      BY <1>2 DEF Register16, ByteBits, ShiftRight
    <3> QED BY <3>1, <3>2
  <2>2. ASSUME NEW x \in crc PROVE x \in low \cup {i + 8 : i \in high}
    <3>1. x \in 0 .. 15
      BY <1>2 DEF Register16
    <3>2. CASE x >= 8
      <4>1. x - 8 \in high /\ x = (x - 8) + 8
        BY <3>1, <3>2 DEF ShiftRight
      <4> QED BY <4>1
    <3> QED BY <3>1, <3>2
  <2>3. ASSUME NEW x \in high PROVE x + 8 \in crc
    <3>1. PICK b \in crc : b >= 8 /\ x = b - 8
      BY DEF ShiftRight
    <3>2. b \in 0 .. 15
      BY <1>2 DEF Register16
    <3>3. x + 8 = b
      BY <3>1, <3>2
    <3> QED BY <3>3
  <2> HIDE DEF high
  <2> QED BY <2>1, <2>2, <2>3
<1>4. /\ NumberOf(low) \in 0 .. 255 /\ NumberOf(high) \in 0 .. 255
      /\ Byte(NumberOf(low)) = low /\ Byte(NumberOf(high)) = high
  BY <1>3, NumberOfByte
<1> HIDE DEF crc, low, high
<1>5. last \in Word /\ last[1] = 255 /\ last[2] = 255 /\ last[3] = NumberOf(low) /\ last[4] = NumberOf(high)
  BY <1>4 DEF Word
<1> HIDE DEF last
<1>6. BOOT_RECORD_MAGIC \in Word /\ Ones \in Word
  BY DEF BOOT_RECORD_MAGIC, Ones, Word
<1>7. <<version, r.swap_type, r.copy_done, r.image_ok>> \in Word /\ <<r.sequence, 0, 0, 0>> \in Word
  <2>1. /\ r.swap_type \in 0 .. 255 /\ r.copy_done \in 0 .. 255 /\ r.image_ok \in 0 .. 255
        /\ r.sequence \in 0 .. 255
    BY DEF RecordBytes
  <2>2. <<version, r.swap_type, r.copy_done, r.image_ok>> \in Word
    BY <2>1, SMTT(30) DEF Word
  <2>3. <<r.sequence, 0, 0, 0>> \in Word
    BY <2>1 DEF Word
  <2> QED BY <2>2, <2>3
<1>8. /\ body[0] = BOOT_RECORD_MAGIC /\ body[1] = <<version, r.swap_type, r.copy_done, r.image_ok>>
      /\ body[2] = <<r.sequence, 0, 0, 0>> /\ body[3] = r.crc32_staged /\ body[4] = r.crc32_primary
      /\ \A w \in 5 .. 15 : body[w] = Ones
  BY DEF Words
<1>9. body \in Block
  <2>1. \A w \in Words : body[w] \in Word
    <3> TAKE w \in Words
    <3>1. w \in 0 .. 4 \/ w \in 5 .. 15
      BY DEF Words
    <3>2. r.crc32_staged \in Word /\ r.crc32_primary \in Word
      BY DEF RecordBytes
    <3> HIDE DEF body
    <3> QED BY <1>6, <1>7, <1>8, <3>1, <3>2
  <2>2. body = [w \in Words |-> body[w]]
    OBVIOUS
  <2> HIDE DEF body
  <2> QED BY <2>1, <2>2 DEF Block
<1> HIDE DEF body
<1>10. /\ e \in Block /\ e[15] = last
       /\ \A w \in 0 .. 14 : e[w] = body[w]
  BY <1>1, <1>5, <1>9 DEF Block, Words
<1>11. body[15][1] = 255 /\ body[15][2] = 255
  BY <1>8 DEF Ones
<1>12. Crc16Of(e) = crc
  BY <1>5, <1>10, <1>11, SameCrc DEF crc
<1> HIDE DEF e
<1>13. Byte(e[15][3]) \cup {i + 8 : i \in Byte(e[15][4])} = Crc16Of(e)
  BY <1>3, <1>4, <1>5, <1>10, <1>12
<1> QED BY <1>8, <1>10, <1>13 DEF e, Holds

(* What boot_record_commit() encodes, boot_record_read() accepts, and it   *)
(* reads the very fields that were written; a record of any other version  *)
(* is refused, whatever its fields.                                        *)
THEOREM ReadsBack ==
  ASSUME NEW r \in RecordBytes
  PROVE  /\ boot_record_read(Encode(BOOT_RECORD_VERSION, r))
         /\ Decode(Encode(BOOT_RECORD_VERSION, r)) = r
         /\ \A version \in 0 .. 255 : version # BOOT_RECORD_VERSION => ~ boot_record_read(Encode(version, r))
<1>1. BOOT_RECORD_VERSION \in 0 .. 255
  BY DEF BOOT_RECORD_VERSION
<1> DEFINE e == Encode(BOOT_RECORD_VERSION, r)
<1>2. /\ e[0] = BOOT_RECORD_MAGIC /\ e[1] = <<BOOT_RECORD_VERSION, r.swap_type, r.copy_done, r.image_ok>>
      /\ e[2] = <<r.sequence, 0, 0, 0>> /\ e[3] = r.crc32_staged /\ e[4] = r.crc32_primary
      /\ Byte(e[15][3]) \cup {i + 8 : i \in Byte(e[15][4])} = Crc16Of(e)
  BY <1>1, EncodedWords DEF Holds
<1> HIDE DEF e
<1>3. boot_record_read(e)
  BY <1>2 DEF boot_record_read
<1>4. Decode(e) = r
  BY <1>2 DEF Decode, RecordBytes
<1>5. ASSUME NEW version \in 0 .. 255, version # BOOT_RECORD_VERSION PROVE ~ boot_record_read(Encode(version, r))
  <2>1. Encode(version, r)[1] = <<version, r.swap_type, r.copy_done, r.image_ok>>
    BY EncodedWords DEF Holds
  <2> QED BY <1>5, <2>1 DEF boot_record_read
<1> QED BY <1>3, <1>4, <1>5 DEF e

-------------------------------------------------------------------------------
(* What a damaged record looks like.                                       *)

\* A number is the sum of the worths of its bits.
LEMMA SumOfBits ==
  ASSUME NEW n \in 0 .. 255
  PROVE  n = (n % 2) + 2 * ((n \div 2) % 2) + 4 * ((n \div 4) % 2) + 8 * ((n \div 8) % 2)
               + 16 * ((n \div 16) % 2) + 32 * ((n \div 32) % 2) + 64 * ((n \div 64) % 2) + 128 * ((n \div 128) % 2)
<1>1. /\ n = (n % 2) + 2 * (n \div 2)
      /\ n \div 2 = ((n \div 2) % 2) + 2 * (n \div 4)
      /\ n \div 4 = ((n \div 4) % 2) + 2 * (n \div 8)
      /\ n \div 8 = ((n \div 8) % 2) + 2 * (n \div 16)
      /\ n \div 16 = ((n \div 16) % 2) + 2 * (n \div 32)
      /\ n \div 32 = ((n \div 32) % 2) + 2 * (n \div 64)
      /\ n \div 64 = ((n \div 64) % 2) + 2 * (n \div 128)
      /\ n \div 128 = (n \div 128) % 2
  OBVIOUS
<1> QED BY <1>1

LEMMA SameNumber ==
  ASSUME NEW m \in 0 .. 255, NEW n \in 0 .. 255, Byte(m) = Byte(n)
  PROVE  m = n
<1>1. /\ Worth[0 + 1] = 1 /\ Worth[1 + 1] = 2 /\ Worth[2 + 1] = 4 /\ Worth[3 + 1] = 8
      /\ Worth[4 + 1] = 16 /\ Worth[5 + 1] = 32 /\ Worth[6 + 1] = 64 /\ Worth[7 + 1] = 128
  BY DEF Worth
<1>2. ASSUME NEW k \in Int, NEW l \in Int, k % 2 = 1 <=> l % 2 = 1 PROVE k % 2 = l % 2
  BY <1>2
<1>3. ASSUME NEW b \in 0 .. 7, NEW worth \in 1 .. 128, Worth[b + 1] = worth
      PROVE  (m \div worth) % 2 = (n \div worth) % 2
  <2>1. m \div worth \in Int /\ n \div worth \in Int
    OBVIOUS
  <2>2. (m \div worth) % 2 = 1 <=> (n \div worth) % 2 = 1
    <3>1. b \in Byte(m) <=> b \in Byte(n)
      OBVIOUS
    <3> QED BY <1>3, <3>1 DEF Byte
  <2> QED BY <1>2, <2>1, <2>2, Zenon
<1>4. /\ (m \div 1) % 2 = (n \div 1) % 2 /\ (m \div 2) % 2 = (n \div 2) % 2
      /\ (m \div 4) % 2 = (n \div 4) % 2 /\ (m \div 8) % 2 = (n \div 8) % 2
      /\ (m \div 16) % 2 = (n \div 16) % 2 /\ (m \div 32) % 2 = (n \div 32) % 2
      /\ (m \div 64) % 2 = (n \div 64) % 2 /\ (m \div 128) % 2 = (n \div 128) % 2
  <2>1. (m \div 1) % 2 = (n \div 1) % 2 /\ (m \div 2) % 2 = (n \div 2) % 2
    <3>1. 0 \in 0 .. 7 /\ 1 \in 0 .. 7 /\ 1 \in 1 .. 128 /\ 2 \in 1 .. 128
      OBVIOUS
    <3>2. Worth[0 + 1] = 1 /\ Worth[1 + 1] = 2
      BY <1>1
    <3> QED BY <1>3, <3>1, <3>2
  <2>2. (m \div 4) % 2 = (n \div 4) % 2 /\ (m \div 8) % 2 = (n \div 8) % 2
    <3>1. 2 \in 0 .. 7 /\ 3 \in 0 .. 7 /\ 4 \in 1 .. 128 /\ 8 \in 1 .. 128
      OBVIOUS
    <3>2. Worth[2 + 1] = 4 /\ Worth[3 + 1] = 8
      BY <1>1
    <3> QED BY <1>3, <3>1, <3>2
  <2>3. (m \div 16) % 2 = (n \div 16) % 2 /\ (m \div 32) % 2 = (n \div 32) % 2
    <3>1. 4 \in 0 .. 7 /\ 5 \in 0 .. 7 /\ 16 \in 1 .. 128 /\ 32 \in 1 .. 128
      OBVIOUS
    <3>2. Worth[4 + 1] = 16 /\ Worth[5 + 1] = 32
      BY <1>1
    <3> QED BY <1>3, <3>1, <3>2
  <2>4. (m \div 64) % 2 = (n \div 64) % 2 /\ (m \div 128) % 2 = (n \div 128) % 2
    <3>1. 6 \in 0 .. 7 /\ 7 \in 0 .. 7 /\ 64 \in 1 .. 128 /\ 128 \in 1 .. 128
      OBVIOUS
    <3>2. Worth[6 + 1] = 64 /\ Worth[7 + 1] = 128
      BY <1>1
    <3> QED BY <1>3, <3>1, <3>2, SMTT(30)
  <2> QED BY <2>1, <2>2, <2>3, <2>4
<1> DEFINE M(k) == (m \div k) % 2
           N(k) == (n \div k) % 2
<1>5. m \div 1 = m /\ n \div 1 = n
  OBVIOUS
<1>6. m = M(1) + 2 * M(2) + 4 * M(4) + 8 * M(8) + 16 * M(16) + 32 * M(32) + 64 * M(64) + 128 * M(128)
  BY <1>5, SumOfBits
<1>7. n = N(1) + 2 * N(2) + 4 * N(4) + 8 * N(8) + 16 * N(16) + 32 * N(32) + 64 * N(64) + 128 * N(128)
  BY <1>5, SumOfBits
<1>8. /\ M(1) = N(1) /\ M(2) = N(2) /\ M(4) = N(4) /\ M(8) = N(8)
      /\ M(16) = N(16) /\ M(32) = N(32) /\ M(64) = N(64) /\ M(128) = N(128)
  BY <1>4
<1> HIDE DEF M, N
<1> QED BY <1>6, <1>7, <1>8

\* The byte at an offset of a block.
At(b, i) == b[i \div 4][(i % 4) + 1]

LEMMA AtType ==
  ASSUME NEW b \in Block, NEW i \in 0 .. 63
  PROVE  At(b, i) \in 0 .. 255
<1>1. i \div 4 \in Words /\ (i % 4) + 1 \in 1 .. 4
  BY DEF Words
<1> QED BY <1>1 DEF At, Block, Word

LEMMA SameBlock ==
  ASSUME NEW b \in Block, NEW e \in Block, \A i \in 0 .. 63 : At(b, i) = At(e, i)
  PROVE  b = e
<1>1. ASSUME NEW w \in Words PROVE b[w] = e[w]
  <2>1. ASSUME NEW j \in 1 .. 4 PROVE b[w][j] = e[w][j]
    <3>1. w * 4 + j - 1 \in 0 .. 63 /\ (w * 4 + j - 1) \div 4 = w /\ ((w * 4 + j - 1) % 4) + 1 = j
      BY DEF Words
    <3> QED BY <3>1 DEF At
  <2> QED BY <2>1 DEF Block, Word
<1> QED BY <1>1 DEF Block

\* The two bytes of the CRC16 make it up, and no others do.
Stored(low, high) == low \cup {i + 8 : i \in high}

LEMMA SameStored ==
  ASSUME NEW low \in ByteBits, NEW high \in ByteBits, NEW low1 \in ByteBits, NEW high1 \in ByteBits,
         Stored(low, high) = Stored(low1, high1)
  PROVE  low = low1 /\ high = high1
<1>1. ASSUME NEW x \in 0 .. 7 PROVE x \in low <=> x \in low1
  <2>1. x \notin {i + 8 : i \in high} /\ x \notin {i + 8 : i \in high1}
    BY DEF ByteBits
  <2> QED BY <2>1 DEF Stored
<1>2. ASSUME NEW x \in 0 .. 7 PROVE x \in high <=> x \in high1
  <2>1. x + 8 \notin low /\ x + 8 \notin low1
    BY DEF ByteBits
  <2>2. (x + 8 \in {i + 8 : i \in high} <=> x \in high) /\ (x + 8 \in {i + 8 : i \in high1} <=> x \in high1)
    BY DEF ByteBits
  <2> QED BY <2>1, <2>2 DEF Stored
<1> QED BY <1>1, <1>2 DEF ByteBits

\* A message of 62 bytes, damaged at two adjacent places.
CoveredMessages == {m \in Seq(ByteBits) : Len(m) = 62}
DamagedAt(m, k, at) == \A i \in 1 .. 62 : i \notin {at, at + 1} => m[i] = k[i]

LEMMA DamagedMessage ==
  ASSUME NEW m \in CoveredMessages, NEW k \in CoveredMessages,
         NEW at \in 1 .. 61, DamagedAt(m, k, at),
         boot_record_crc16(m) = boot_record_crc16(k)
  PROVE  m = k
<1>1. m \in Seq(ByteBits) /\ k \in Seq(ByteBits) /\ Len(m) = 62 /\ Len(k) = 62 /\ at \in 1 .. Len(m) - 1
  <2>1. m \in Seq(ByteBits) /\ k \in Seq(ByteBits) /\ Len(m) = 62 /\ Len(k) = 62
    BY Zenon DEF CoveredMessages
  <2>2. at \in 1 .. Len(m) - 1
    BY <2>1
  <2> QED BY <2>1, <2>2
<1>2. \A i \in 1 .. Len(m) : i \notin {at, at + 1} => m[i] = k[i]
  BY <1>1 DEF DamagedAt
<1> QED BY <1>1, <1>2, DetectsBurst

\* The bytes the CRC16 of a record is taken over.
LEMMA CoveredType ==
  ASSUME NEW b
  PROVE  BytesOf(b, 62) \in Seq(ByteBits) /\ Len(BytesOf(b, 62)) = 62
<1> DEFINE length == 62
<1>1. length \in Nat
  OBVIOUS
<1> HIDE DEF length
<1>2. BytesOf(b, length) \in Seq(ByteBits) /\ Len(BytesOf(b, length)) = length
  BY <1>1, BytesType
<1> QED BY <1>2 DEF length

(* Damage to two adjacent bytes of a record is noticed by                  *)
(* boot_record_read(), whatever the record and the damage, unless it is to *)
(* the last byte the CRC16 is taken over and the first one of the CRC16.   *)
THEOREM DamageRefused ==
  ASSUME NEW e \in Block, boot_record_read(e), NEW b \in Block, b # e,
         NEW at \in (0 .. 62) \ {61}, \A i \in 0 .. 63 : i \notin {at, at + 1} => At(b, i) = At(e, i)
  PROVE  ~ boot_record_read(b)
<1> SUFFICES ASSUME boot_record_read(b) PROVE b = e
  OBVIOUS
<1> DEFINE m == BytesOf(b, 62)
           k == BytesOf(e, 62)
<1>1. m \in Seq(ByteBits) /\ k \in Seq(ByteBits) /\ Len(m) = 62 /\ Len(k) = 62
  BY CoveredType
<1>2. \A i \in 1 .. 62 : m[i] = Byte(At(b, i - 1)) /\ k[i] = Byte(At(e, i - 1))
  BY Zenon DEF BytesOf, At
<1>3. /\ At(b, 62) = b[15][3] /\ At(b, 63) = b[15][4] /\ At(e, 62) = e[15][3] /\ At(e, 63) = e[15][4]
  <2>1. 62 \div 4 = 15 /\ 62 % 4 = 2 /\ 63 \div 4 = 15 /\ 63 % 4 = 3 /\ 2 + 1 = 3 /\ 3 + 1 = 4
    OBVIOUS
  <2> QED BY <2>1 DEF At
<1>4. /\ Byte(At(b, 62)) \cup {i + 8 : i \in Byte(At(b, 63))} = boot_record_crc16(m)
      /\ Byte(At(e, 62)) \cup {i + 8 : i \in Byte(At(e, 63))} = boot_record_crc16(k)
  BY <1>3 DEF boot_record_read, Crc16Of
<1> HIDE DEF m, k
<1>5. m = k
  <2>1. CASE at = 62
    <3>1. \A i \in 1 .. 62 : Byte(At(b, i - 1)) = Byte(At(e, i - 1))
      <4> TAKE i \in 1 .. 62
      <4>1. i - 1 \in 0 .. 63 /\ i - 1 \notin {at, at + 1}
        BY <2>1
      <4>2. At(b, i - 1) = At(e, i - 1)
        BY <4>1
      <4> QED BY <4>2
    <3>2. m = [i \in 1 .. 62 |-> Byte(At(b, i - 1))] /\ k = [i \in 1 .. 62 |-> Byte(At(e, i - 1))]
      BY Zenon DEF m, k, BytesOf, At
    <3> QED BY <3>1, <3>2
  <2>2. CASE at # 62
    <3>1. At(b, 62) = At(e, 62) /\ At(b, 63) = At(e, 63)
      BY <2>2
    <3>2. boot_record_crc16(m) = boot_record_crc16(k)
      BY <1>4, <3>1
    <3>3. at + 1 \in 1 .. 61
      BY <2>2
    <3>4. ASSUME NEW i \in 1 .. 62, i \notin {at + 1, (at + 1) + 1} PROVE m[i] = k[i]
      <4>1. i - 1 \in 0 .. 63 /\ i - 1 \notin {at, at + 1}
        BY <3>4
      <4>2. At(b, i - 1) = At(e, i - 1)
        BY <4>1
      <4> QED BY <1>2, <4>2
    <3>5. DamagedAt(m, k, at + 1)
      BY <3>4 DEF DamagedAt
    <3>6. m \in CoveredMessages /\ k \in CoveredMessages
      BY <1>1 DEF CoveredMessages
    <3> QED BY <3>2, <3>3, <3>5, <3>6, DamagedMessage, Zenon
  <2> QED BY <2>1, <2>2
<1>6. Byte(At(b, 62)) = Byte(At(e, 62)) /\ Byte(At(b, 63)) = Byte(At(e, 63))
  <2>1. /\ Byte(At(b, 62)) \in ByteBits /\ Byte(At(e, 62)) \in ByteBits
        /\ Byte(At(b, 63)) \in ByteBits /\ Byte(At(e, 63)) \in ByteBits
    BY ByteType
  <2>2. Stored(Byte(At(b, 62)), Byte(At(b, 63))) = Stored(Byte(At(e, 62)), Byte(At(e, 63)))
    BY <1>4, <1>5 DEF Stored
  <2> QED BY <2>1, <2>2, SameStored
<1>7. ASSUME NEW i \in 0 .. 63 PROVE At(b, i) = At(e, i)
  <2>1. Byte(At(b, i)) = Byte(At(e, i))
    <3>1. CASE i \in 0 .. 61
      <4>1. i + 1 \in 1 .. 62 /\ (i + 1) - 1 = i
        BY <3>1
      <4> QED BY <1>2, <1>5, <4>1
    <3>2. CASE i \in {62, 63}
      BY <1>6, <3>2
    <3> QED BY <3>1, <3>2
  <2> QED BY <2>1, AtType, SameNumber
<1> QED BY <1>7, SameBlock

-------------------------------------------------------------------------------
(* What the codec's runs check, for every set of fingerprints, every way   *)
(* of tearing words and any number of cuts.                                *)

LEMMA SampleType == Sample \in Seq(ByteBits)
BY BytesType DEF Sample

CodecTypeOK ==
  /\ block \in Block /\ staged \in Block /\ committed \in Block
  /\ programmed \subseteq Words
  /\ cuts \in Nat
  /\ pc \in {"idle", "erase", "program"}

\* What is about to be programmed is a record, and so is what was once programmed to its end.
WholeInv ==
  /\ pc # "idle" => boot_record_read(staged)
  /\ committed \in {OldRecord, Blank} \/ boot_record_read(committed)

\* Words are programmed one after the other, each once, and none is left out.
ProgressInv ==
  pc = "program" => \E k \in 0 .. 15 : programmed = 0 .. k - 1 /\ \A w \in 0 .. k - 1 : block[w] = staged[w]

LEMMA NextIsNext ==
  ASSUME NEW k \in Nat, programmed = 0 .. k - 1
  PROVE  NextWord = k
<1>1. Cardinality(0 .. k - 1) = IF 0 > k - 1 THEN 0 ELSE (k - 1) - 0 + 1
  BY FS_Interval
<1> QED BY <1>1 DEF NextWord

LEMMA DefaultsType == boot_record_defaults \in RecordBytes /\ boot_record_defaults.sequence = 1
<1>1. Ones \in Word
  BY DEF Ones, Word
<1> QED BY <1>1 DEF boot_record_defaults, NONE, RecordBytes

LEMMA InitialBlocks == OldRecord \in Block /\ Blank \in Block
<1>1. OldRecord \in Block
  <2>1. 2 \in 0 .. 255 /\ boot_record_defaults \in RecordBytes
    BY DefaultsType
  <2>2. Holds(Encode(2, boot_record_defaults), 2, boot_record_defaults)
    BY <2>1, EncodedWords
  <2> QED BY <2>2 DEF OldRecord, Holds
<1>2. Ones \in Word
  BY DEF Ones, Word
<1>3. Blank \in Block
  BY <1>2 DEF Blank, Block
<1> QED BY <1>1, <1>3

\* A record whose sequence number has just been counted up.
Counted == [swap_type : 0 .. 255, copy_done : 0 .. 255, image_ok : 0 .. 255,
            sequence : Nat, crc32_staged : Word, crc32_primary : Word]

LEMMA CountedField ==
  ASSUME NEW r \in Counted, NEW byte \in 0 .. 255, NEW word \in Word
  PROVE  /\ [r EXCEPT !.swap_type = byte] \in Counted
         /\ [r EXCEPT !.copy_done = byte] \in Counted
         /\ [r EXCEPT !.image_ok = byte] \in Counted
         /\ [r EXCEPT !.crc32_staged = word] \in Counted
         /\ [r EXCEPT !.crc32_primary = word] \in Counted
  BY DEF Counted

\* What a writer starts from.
LEMMA LoadedType ==
  ASSUME CodecTypeOK
  PROVE  boot_record_load \in Counted
<1>1. boot_record_defaults \in RecordBytes
  BY DefaultsType
<1>2. \A w \in Words : block[w] \in Word
  BY DEF CodecTypeOK, Block
<1>3. block[1] \in Word /\ block[2] \in Word /\ block[3] \in Word /\ block[4] \in Word
  BY <1>2 DEF Words
<1>4. /\ block[1][2] \in 0 .. 255 /\ block[1][3] \in 0 .. 255 /\ block[1][4] \in 0 .. 255
      /\ block[2][1] \in 0 .. 255
  <2>1. ASSUME NEW word \in Word
        PROVE  word[1] \in 0 .. 255 /\ word[2] \in 0 .. 255 /\ word[3] \in 0 .. 255 /\ word[4] \in 0 .. 255
    BY DEF Word
  <2> QED BY <1>3, <2>1
<1>5. Decode(block) \in RecordBytes
  BY <1>3, <1>4 DEF Decode, RecordBytes
<1> DEFINE d == Decode(block)
<1> HIDE DEF d
<1>6. [d EXCEPT !.sequence = @ + 1] \in Counted
  BY <1>5 DEF d, RecordBytes, Counted
<1>7. boot_record_defaults \in Counted
  BY <1>1 DEF RecordBytes, Counted
<1> QED BY <1>6, <1>7 DEF boot_record_load, d

\* The three writers have a record of the current version programmed.
LEMMA WritesRecords ==
  ASSUME CodecTypeOK, boot_record_request_swap \/ boot_record_swap_complete \/ boot_record_set_image_ok
  PROVE  /\ pc' = "erase" /\ UNCHANGED <<block, programmed, committed, cuts>>
         /\ staged' \in Block /\ boot_record_read(staged')
<1> DEFINE L == boot_record_load
<1>1. L \in Counted
  BY LoadedType
<1>2. Crcs \subseteq Word /\ MaxSequence \in 1 .. 255
  BY CodecAssumption DEF Word
<1>3. ASSUME NEW r, Write(r), r \in Counted
      PROVE  /\ pc' = "erase" /\ UNCHANGED <<block, programmed, committed, cuts>>
             /\ staged' \in Block /\ boot_record_read(staged')
  <2>1. r.sequence \in 0 .. 255
    BY <1>2, <1>3 DEF Write, Counted
  <2>2. r \in RecordBytes
    BY <1>3, <2>1 DEF RecordBytes, Counted
  <2>3. staged' = Encode(BOOT_RECORD_VERSION, r) /\ pc' = "erase" /\ UNCHANGED <<block, programmed, committed, cuts>>
    BY <1>3 DEF Write
  <2>4. BOOT_RECORD_VERSION \in 0 .. 255
    BY DEF BOOT_RECORD_VERSION
  <2> QED BY <2>2, <2>3, <2>4, EncodedWords, ReadsBack DEF Holds
<1> HIDE DEF L
<1>4. Ones \in Word
  BY DEF Ones, Word
<1>5. CASE boot_record_request_swap
  <2>1. PICK type \in {PERM, TEST, REVERT}, crc \in Crcs :
           Write([L EXCEPT !.swap_type = type, !.copy_done = 0,
                           !.image_ok = IF type = TEST THEN 0 ELSE 1,
                           !.crc32_staged = crc, !.crc32_primary = Ones])
    BY <1>5 DEF boot_record_request_swap, L
  <2> DEFINE ok == IF type = TEST THEN 0 ELSE 1
             t == [L EXCEPT !.swap_type = type]
             d == [t EXCEPT !.copy_done = 0]
             o == [d EXCEPT !.image_ok = ok]
             c == [o EXCEPT !.crc32_staged = crc]
             r == [c EXCEPT !.crc32_primary = Ones]
  <2>2. Write(r)
    BY <2>1
  <2>3. type \in 0 .. 255 /\ crc \in Word /\ 0 \in 0 .. 255 /\ ok \in 0 .. 255
    BY <1>2 DEF PERM, TEST, REVERT
  <2> HIDE DEF ok
  <2>4. t \in Counted
    BY <1>1, <2>3, CountedField, Zenon
  <2> HIDE DEF t
  <2>5. d \in Counted
    BY <2>3, <2>4, CountedField, Zenon
  <2> HIDE DEF d
  <2>6. o \in Counted
    BY <2>3, <2>5, CountedField, Zenon
  <2> HIDE DEF o
  <2>7. c \in Counted
    BY <2>3, <2>6, CountedField, Zenon
  <2> HIDE DEF c
  <2>8. r \in Counted
    BY <1>4, <2>3, <2>7, CountedField, Zenon
  <2> HIDE DEF r
  <2> QED BY <1>3, <2>2, <2>8
<1>6. CASE boot_record_swap_complete
  <2>1. PICK crc \in Crcs :
           Write([L EXCEPT !.swap_type = IF @ = TEST THEN REVERT ELSE NONE, !.copy_done = 1,
                           !.image_ok = IF L.swap_type = TEST THEN 0 ELSE 1,
                           !.crc32_primary = crc])
    BY <1>6 DEF boot_record_swap_complete, L
  <2> DEFINE type == IF L.swap_type = TEST THEN REVERT ELSE NONE
             ok == IF L.swap_type = TEST THEN 0 ELSE 1
             t == [L EXCEPT !.swap_type = type]
             d == [t EXCEPT !.copy_done = 1]
             o == [d EXCEPT !.image_ok = ok]
             r == [o EXCEPT !.crc32_primary = crc]
  <2>2. Write(r)
    BY <2>1
  <2>3. crc \in Word /\ type \in 0 .. 255 /\ 1 \in 0 .. 255 /\ ok \in 0 .. 255
    BY <1>2 DEF REVERT, NONE
  <2> HIDE DEF type, ok
  <2>4. t \in Counted
    BY <1>1, <2>3, CountedField, Zenon
  <2> HIDE DEF t
  <2>5. d \in Counted
    BY <2>3, <2>4, CountedField, Zenon
  <2> HIDE DEF d
  <2>6. o \in Counted
    BY <2>3, <2>5, CountedField, Zenon
  <2> HIDE DEF o
  <2>7. r \in Counted
    BY <2>3, <2>6, CountedField, Zenon
  <2> HIDE DEF r
  <2> QED BY <1>3, <2>2, <2>7
<1>7. CASE boot_record_set_image_ok
  <2> DEFINE t == [L EXCEPT !.swap_type = NONE]
             r == [t EXCEPT !.image_ok = 1]
  <2>1. Write(r)
    BY <1>7 DEF boot_record_set_image_ok, L
  <2>2. NONE \in 0 .. 255 /\ 1 \in 0 .. 255
    BY DEF NONE
  <2>3. t \in Counted
    BY <1>1, <1>4, <2>2, CountedField, Zenon
  <2> HIDE DEF t
  <2>4. r \in Counted
    BY <1>4, <2>2, <2>3, CountedField, Zenon
  <2> HIDE DEF r
  <2> QED BY <1>3, <2>1, <2>4
<1> QED BY <1>5, <1>6, <1>7

LEMMA ProgramsWords ==
  ASSUME CodecTypeOK, NEW new, Program(new)
  PROVE  /\ block' \in Block
         /\ committed' = staged \/ committed' = committed
<1>1. block' = [block EXCEPT ![NextWord] = [i \in 1 .. 4 |-> IF i \in new THEN staged[NextWord][i] ELSE 255]]
  BY DEF Program
<1>2. block' \in Block
  <2>1. CASE NextWord \in Words
    <3>1. staged[NextWord] \in Word
      BY <2>1 DEF CodecTypeOK, Block
    <3>2. [i \in 1 .. 4 |-> IF i \in new THEN staged[NextWord][i] ELSE 255] \in Word
      <4>1. 255 \in 0 .. 255
        OBVIOUS
      <4>2. \A i \in 1 .. 4 : staged[NextWord][i] \in 0 .. 255
        BY <3>1, Zenon DEF Word
      <4>3. \A i \in 1 .. 4 : (IF i \in new THEN staged[NextWord][i] ELSE 255) \in 0 .. 255
        BY <4>1, <4>2, Zenon
      <4> QED BY <4>3, Zenon DEF Word
    <3> QED BY <1>1, <3>2 DEF CodecTypeOK, Block
  <2>2. CASE NextWord \notin Words
    <3>1. block' = block
      BY <1>1, <2>2 DEF CodecTypeOK, Block
    <3> QED BY <3>1 DEF CodecTypeOK
  <2> QED BY <2>1, <2>2
<1>3. committed' = staged \/ committed' = committed
  BY DEF Program
<1> QED BY <1>2, <1>3

LEMMA CodecStep ==
  ASSUME CodecTypeOK, WholeInv, ProgressInv, [Next]_codec_vars
  PROVE  CodecTypeOK' /\ WholeInv' /\ ProgressInv'
<1>1. CASE boot_record_request_swap \/ boot_record_swap_complete \/ boot_record_set_image_ok
  <2>1. /\ pc' = "erase" /\ UNCHANGED <<block, programmed, committed, cuts>>
        /\ staged' \in Block /\ boot_record_read(staged')
    BY <1>1, WritesRecords
  <2> QED BY <2>1 DEF CodecTypeOK, WholeInv, ProgressInv
<1>2. CASE Erase
  BY <1>2 DEF Erase, CodecTypeOK, WholeInv, ProgressInv
<1>3. CASE Fade
  <2>1. PICK w \in Words : block' = [block EXCEPT ![w] = Ones]
    BY <1>3 DEF Fade
  <2>2. Ones \in Word
    BY DEF Ones, Word
  <2>3. block' \in Block
    BY <2>1, <2>2 DEF CodecTypeOK, Block
  <2>4. UNCHANGED <<programmed, staged, committed, cuts, pc>>
    BY <1>3 DEF Fade
  <2>5. pc = "idle"
    BY <1>3 DEF Fade
  <2> QED BY <2>3, <2>4, <2>5 DEF CodecTypeOK, WholeInv, ProgressInv
<1>4. ASSUME pc = "program"
      PROVE  \E k \in 0 .. 15 : /\ programmed = 0 .. k - 1 /\ NextWord = k
                                /\ \A w \in 0 .. k - 1 : block[w] = staged[w]
  <2>1. PICK k \in 0 .. 15 : programmed = 0 .. k - 1 /\ \A w \in 0 .. k - 1 : block[w] = staged[w]
    BY <1>4 DEF ProgressInv
  <2>2. NextWord = k
    BY <2>1, NextIsNext
  <2> QED BY <2>1, <2>2
<1>5. ASSUME NEW new, Program(new), pc = "program", pc' \in {"idle", "program"}, staged' = staged, cuts' \in Nat
      PROVE  CodecTypeOK' /\ WholeInv'
  <2>1. block' \in Block /\ (committed' = staged \/ committed' = committed)
    BY <1>5, ProgramsWords
  <2>2. programmed' \subseteq Words
    BY <1>4, <1>5 DEF Program, CodecTypeOK, Words
  <2> QED BY <1>5, <2>1, <2>2 DEF CodecTypeOK, WholeInv
<1>6. CASE ProgramWord
  <2>1. /\ pc = "program" /\ Program(1 .. 4) /\ UNCHANGED <<staged, cuts>>
        /\ pc' = IF NextWord = 15 THEN "idle" ELSE "program"
    BY <1>6 DEF ProgramWord
  <2>2. CodecTypeOK' /\ WholeInv'
    BY <1>5, <2>1 DEF CodecTypeOK
  <2>3. PICK k \in 0 .. 15 : /\ programmed = 0 .. k - 1 /\ NextWord = k
                             /\ \A w \in 0 .. k - 1 : block[w] = staged[w]
    BY <1>4, <2>1
  <2>4. ASSUME k # 15 PROVE \E j \in 0 .. 15 : programmed' = 0 .. j - 1 /\ \A w \in 0 .. j - 1 : block'[w] = staged'[w]
    <3>1. programmed' = 0 .. (k + 1) - 1
      BY <2>1, <2>3, SMTT(30) DEF Program
    <3>2. staged[k] \in Word
      BY DEF CodecTypeOK, Block, Words
    <3>3. block' = [block EXCEPT ![k] = [i \in 1 .. 4 |-> staged[k][i]]]
      <4>1. block' = [block EXCEPT ![k] = [i \in 1 .. 4 |-> IF i \in 1 .. 4 THEN staged[k][i] ELSE 255]]
        BY <2>1, <2>3, Zenon DEF Program
      <4>2. [i \in 1 .. 4 |-> IF i \in 1 .. 4 THEN staged[k][i] ELSE 255] = [i \in 1 .. 4 |-> staged[k][i]]
        OBVIOUS
      <4> QED BY <4>1, <4>2, Zenon
    <3>4. block'[k] = staged[k]
      BY <3>2, <3>3 DEF CodecTypeOK, Block, Words, Word
    <3>5. \A w \in 0 .. k - 1 : block'[w] = block[w]
      BY <3>3 DEF CodecTypeOK, Block, Words
    <3>6. \A w \in 0 .. (k + 1) - 1 : block'[w] = staged'[w]
      BY <2>1, <2>3, <3>4, <3>5
    <3>7. k + 1 \in 0 .. 15
      BY <2>4
    <3> WITNESS k + 1 \in 0 .. 15
    <3> QED BY <3>1, <3>6
  <2> QED BY <2>1, <2>2, <2>3, <2>4 DEF ProgressInv
<1>7. CASE Cut
  <2>1. CASE UNCHANGED <<block, programmed, committed>>
    BY <1>7, <2>1 DEF Cut, CodecTypeOK, WholeInv, ProgressInv
  <2>2. CASE pc = "erase" /\ \E left \in SUBSET Stubborn : programmed' = programmed \cap left /\ UNCHANGED <<block, committed>>
    BY <1>7, <2>2 DEF Cut, CodecTypeOK, WholeInv, ProgressInv
  <2>3. CASE pc = "program" /\ \E new \in TornWords : Program(new)
    <3>1. pc' = "idle" /\ staged' = staged /\ cuts' \in Nat
      BY <1>7 DEF Cut, CodecTypeOK
    <3>2. CodecTypeOK' /\ WholeInv'
      BY <1>5, <2>3, <3>1
    <3> QED BY <3>1, <3>2 DEF ProgressInv
  <2> QED BY <1>7, <2>1, <2>2, <2>3 DEF Cut
<1>8. CASE UNCHANGED codec_vars
  BY <1>8 DEF codec_vars, CodecTypeOK, WholeInv, ProgressInv
<1> QED BY <1>1, <1>2, <1>3, <1>6, <1>7, <1>8 DEF Next

(* What is being programmed, and what was last programmed to its end, is a *)
(* record boot_record_read() accepts; the words are programmed one after   *)
(* the other and none is left out.                                         *)
THEOREM CodecWhole == Spec => [](CodecTypeOK /\ WholeInv /\ ProgressInv)
<1>1. Init => CodecTypeOK /\ WholeInv /\ ProgressInv
  BY InitialBlocks DEF Init, CodecTypeOK, WholeInv, ProgressInv
<1>2. CodecTypeOK /\ WholeInv /\ ProgressInv /\ [Next]_codec_vars => (CodecTypeOK /\ WholeInv /\ ProgressInv)'
  BY CodecStep
<1> QED BY <1>1, <1>2, PTL DEF Spec

(* A record that was written to its end is never refused, through any      *)
(* number of interrupted writes before it.                                 *)
THEOREM AcceptsWhole == Spec => []WholeRecordAccepted
<1>1. WholeInv => WholeRecordAccepted
  BY DEF WholeInv, WholeRecordAccepted
<1> QED BY <1>1, CodecWhole, PTL

(* The two properties of the checksums: of any bytes, and so of those the  *)
(* run takes from the block in every state.                                *)
THEOREM Crc16Right == Spec => []Crc16IsRemainder
<1>1. Crc16IsRemainder
  BY SampleType, Crc16Divides DEF Crc16IsRemainder
<1> QED BY <1>1, PTL

\* The same of boot_crc32().
THEOREM Crc32Right == Spec => []Crc32IsRemainder
<1>1. Crc32IsRemainder
  BY SampleType, Crc32Divides DEF Crc32IsRemainder
<1> QED BY <1>1, PTL

===============================================================================
