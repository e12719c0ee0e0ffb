------------------------------ MODULE RecordCodec ------------------------------
(***************************************************************************)
(* The boot record byte by byte: how boot_record_write.c encodes it, how   *)
(* the data flash is erased and programmed word by word, how a power cut   *)
(* leaves it, and what boot_record_read() makes of it (boot_record.c).     *)
(*                                                                         *)
(* A word that has been erased still reads as it did before, until it no   *)
(* longer does: then it reads as ones.  The word being programmed at a cut *)
(* keeps some of its new bytes.  BootRecord and BootSwap take from here    *)
(* that a block is the old record, the new one, or none.                   *)
(***************************************************************************)
EXTENDS BootCrc

CONSTANTS
  Crcs,         \* CRC32 values an image may have, as four bytes
  Stubborn,     \* words an interrupted erase may leave programmed
  TornWords,    \* bytes of the interrupted word that may have taken their value
  MaxSequence,  \* the record is written that often
  MaxCuts       \* power cuts while the record is being written

Ones == <<255, 255, 255, 255>>

ASSUME CodecAssumption ==
  /\ Crcs \subseteq [1 .. 4 -> 0 .. 255]
  /\ Stubborn \subseteq 0 .. 15
  /\ TornWords \subseteq SUBSET (1 .. 4)
  /\ MaxSequence \in 1 .. 255 /\ MaxCuts \in Nat

Words == 0 .. 15                      \* BOOT_RECORD_SIZE / 4
BOOT_RECORD_MAGIC == <<66, 79, 79, 84>>
BOOT_RECORD_VERSION == 3

NONE == 0
PERM == 1
TEST == 2
REVERT == 3

VARIABLES
  block,        \* what each word of the record block reads as
  programmed,   \* the words that are not erased
  staged,       \* the block being written
  committed,    \* history: the last block whose every byte was programmed
  cuts,         \* power cuts so far
  pc            \* "idle", "erase" or "program"

codec_vars == <<block, programmed, staged, committed, cuts, pc>>

\* Bytes 0 .. length - 1 of a block.
BytesOf(b, length) == [i \in 1 .. length |-> Byte(b[(i - 1) \div 4][((i - 1) % 4) + 1])]

\* Mutant: the CRC16 is taken over the whole structure, itself included.
Crc16Of_whole(b) == boot_record_crc16(BytesOf(b, 64))

Crc16Of(b) == boot_record_crc16(BytesOf(b, 62))    \* BOOT_RECORD_CRC_LENGTH

\* A record as the 64 bytes of boot_record_t, little endian, with its CRC16.
Encode(version, r) ==
  LET body == [w \in Words |->
                 CASE w = 0 -> BOOT_RECORD_MAGIC
                   [] w = 1 -> <<version, r.swap_type, r.copy_done, r.image_ok>>
                   [] w = 2 -> <<r.sequence, 0, 0, 0>>
                   [] w = 3 -> r.crc32_staged
                   [] w = 4 -> r.crc32_primary
                   [] OTHER -> Ones]
      crc == Crc16Of(body)
  IN  [body EXCEPT ![15] = <<255, 255, NumberOf({b \in crc : b < 8}), NumberOf(ShiftRight(crc, 8))>>]

\* Mutant: the CRC16 is not compared.
boot_record_read_no_crc(b) ==
  /\ b[0] = BOOT_RECORD_MAGIC
  /\ b[1][1] = BOOT_RECORD_VERSION

boot_record_read(b) ==
  /\ b[0] = BOOT_RECORD_MAGIC
  /\ b[1][1] = BOOT_RECORD_VERSION
  /\ Byte(b[15][3]) \cup {i + 8 : i \in Byte(b[15][4])} = Crc16Of(b)

Decode(b) ==
  [swap_type |-> b[1][2], copy_done |-> b[1][3], image_ok |-> b[1][4],
   sequence |-> b[2][1], crc32_staged |-> b[3], crc32_primary |-> b[4]]

boot_record_defaults ==
  [swap_type |-> NONE, copy_done |-> 1, image_ok |-> 1,
   sequence |-> 1, crc32_staged |-> Ones, crc32_primary |-> Ones]

boot_record_load ==
  IF boot_record_read(block) THEN [Decode(block) EXCEPT !.sequence = @ + 1]
                             ELSE boot_record_defaults

boot_record_swap_in_progress ==
  /\ boot_record_read(block)
  /\ Decode(block).swap_type # NONE /\ Decode(block).copy_done # 1

boot_record_revert_pending ==
  /\ boot_record_read(block)
  /\ Decode(block).swap_type = REVERT /\ Decode(block).copy_done = 1 /\ Decode(block).image_ok # 1

-------------------------------------------------------------------------------
(* The three writers of boot_record_write.c, and the commit.               *)

Write(r) ==
  /\ r.sequence <= MaxSequence
  /\ staged' = Encode(BOOT_RECORD_VERSION, r)
  /\ pc' = "erase"
  /\ UNCHANGED <<block, programmed, committed, cuts>>

boot_record_request_swap ==
  /\ pc = "idle"
  /\ \E r \in {boot_record_load}, type \in {PERM, TEST, REVERT}, crc \in Crcs :
        Write([r EXCEPT !.swap_type = type, !.copy_done = 0,
                        !.image_ok = IF type = TEST THEN 0 ELSE 1,
                        !.crc32_staged = crc, !.crc32_primary = Ones])

\* A TEST swap is completed as a pending revert, any other for good.
boot_record_swap_complete ==
  /\ pc = "idle"
  /\ boot_record_swap_in_progress
  /\ \E r \in {boot_record_load}, crc \in Crcs :
        Write([r EXCEPT !.swap_type = IF @ = TEST THEN REVERT ELSE NONE,
                        !.copy_done = 1,
                        !.image_ok = IF r.swap_type = TEST THEN 0 ELSE 1,
                        !.crc32_primary = crc])

boot_record_set_image_ok ==
  /\ pc = "idle"
  /\ boot_record_revert_pending
  /\ \E r \in {boot_record_load} : Write([r EXCEPT !.swap_type = NONE, !.image_ok = 1])

\* The block is erased: from here on nothing holds what its words read as.
Erase ==
  /\ pc = "erase"
  /\ programmed' = {}
  /\ pc' = "program"
  /\ UNCHANGED <<block, staged, committed, cuts>>

\* An erased word stops reading as what was programmed there.  Nothing reads the block
\* while it is being written, so a word that fades then may as well fade afterwards.
Fade ==
  /\ pc = "idle"
  /\ \E w \in Words \ programmed :
        /\ block[w] # Ones
        /\ block' = [block EXCEPT ![w] = Ones]
  /\ UNCHANGED <<programmed, staged, committed, cuts, pc>>

NextWord == Cardinality(programmed)

\* The word takes its bytes, the ones in new at least.
Program(new) ==
  /\ block' = [block EXCEPT ![NextWord] =
                 [i \in 1 .. 4 |-> IF i \in new THEN staged[NextWord][i] ELSE 255]]
  /\ programmed' = programmed \cup {NextWord}
  /\ committed' = IF block' = staged THEN staged ELSE committed

ProgramWord ==
  /\ pc = "program"
  /\ Program(1 .. 4)
  /\ pc' = IF NextWord = 15 THEN "idle" ELSE "program"
  /\ UNCHANGED <<staged, cuts>>

\* A cut between two operations, in the middle of the erase, or in the middle of a word.
Cut ==
  /\ pc # "idle" /\ cuts < MaxCuts
  /\ cuts' = cuts + 1
  /\ pc' = "idle"
  /\ \/ UNCHANGED <<block, programmed, committed>>
     \/ /\ pc = "erase"
        /\ \E left \in SUBSET Stubborn : programmed' = programmed \cap left
        /\ UNCHANGED <<block, committed>>
     \/ /\ pc = "program"
        /\ \E new \in TornWords : Program(new)
  /\ UNCHANGED staged

\* Erased data flash, or the record of an older bootloader.
OldRecord == Encode(2, boot_record_defaults)
Blank == [w \in Words |-> Ones]

Init ==
  /\ \/ block = OldRecord /\ programmed = Words
     \/ block = Blank /\ programmed = {}
  /\ committed = block /\ staged = block
  /\ cuts = 0 /\ pc = "idle"

Next ==
  \/ boot_record_request_swap \/ boot_record_swap_complete \/ boot_record_set_image_ok
  \/ Erase \/ Fade \/ ProgramWord \/ Cut

Spec == Init /\ [][Next]_codec_vars

-------------------------------------------------------------------------------

(* Whatever mixture of an old record, a new one and erased words a cut     *)
(* leaves, and however it fades, what boot_record_read() accepts is a      *)
(* record that was written to its end, byte for byte (boot_record.h, "it   *)
(* is a valid record").                                                    *)
TornRecordRejected == boot_record_read(block) => block = committed

(* And a record that was written to its end is accepted from then on:      *)
(* boot_record_write.c puts the CRC16 where boot_record_read() looks for   *)
(* it, over the same bytes.  Refusing one would forget an armed swap.      *)
WholeRecordAccepted ==
  block = committed /\ block \notin {OldRecord, Blank} => boot_record_read(block)

\* The kinds, the sequence and a part of the CRC16 and of a fingerprint.
Sample == BytesOf([w \in 0 .. 1 |-> IF w = 0 THEN block[1] ELSE <<block[15][3], block[15][4], block[2][1], block[3][1]>>], 8)

(* The loops compute the checksums their comments name: CRC16-CCITT and    *)
(* the reflected CRC32, as remainders of the message polynomial.           *)
Crc16IsRemainder == boot_record_crc16(Sample) = Crc16Spec(Sample)
Crc32IsRemainder == boot_crc32(Sample) = Crc32Spec(Sample)

===============================================================================
