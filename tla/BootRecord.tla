------------------------------ MODULE BootRecord ------------------------------
(***************************************************************************)
(* The boot record of data flash block 0 (boot_record.c) and the values    *)
(* boot_record_write.c programs into it, as functions of the record that   *)
(* is read.  A record that is blank, torn or of another version fails the  *)
(* magic / version / CRC16 test: it is NoRecord.                           *)
(*                                                                         *)
(* copy_done and image_ok are only ever compared with 1, so they are       *)
(* BOOLEAN.  sequence and crc32_primary are written for diagnosis and      *)
(* never read back by any code of the bootloader; they are left out.       *)
(***************************************************************************)
EXTENDS BootLayout

CONSTANTS
  boot_crc32(_),            \* the CRC32 of a slot
  BOOT_CRC32_UNSET,         \* 0xFFFFFFFF: never measured
  NoRecord                  \* what boot_record_read() refuses

Crc32 == {boot_crc32(slot) : slot \in Slot} \cup {BOOT_CRC32_UNSET}

Record == [swap_type : BootSwapTypes, copy_done : BOOLEAN, image_ok : BOOLEAN,
           crc32_staged : Crc32]

ASSUME NoRecordAssumption == NoRecord \notin Record

boot_record_swap_in_progress(r) ==
  r # NoRecord /\ r.swap_type # "NONE" /\ ~ r.copy_done

boot_record_revert_pending(r) ==
  r # NoRecord /\ r.swap_type = "REVERT" /\ r.copy_done /\ ~ r.image_ok

boot_record_defaults ==
  [swap_type |-> "NONE", copy_done |-> TRUE, image_ok |-> TRUE,
   crc32_staged |-> BOOT_CRC32_UNSET]

boot_record_load(r) == IF r = NoRecord THEN boot_record_defaults ELSE r

\* Mutant: the fingerprint of the last swap is kept.
Requested_crc_kept(r, type, crc) ==
  [boot_record_load(r) EXCEPT !.swap_type = type, !.copy_done = FALSE,
                              !.image_ok = (type # "TEST")]

\* What boot_record_request_swap() commits.
Requested(r, type, crc) ==
  [boot_record_load(r) EXCEPT !.swap_type = type, !.copy_done = FALSE,
                              !.image_ok = (type # "TEST"), !.crc32_staged = crc]

\* Mutant: a TEST swap is recorded as final.
Completed_final(r, type) ==
  [boot_record_load(r) EXCEPT !.swap_type = "NONE", !.copy_done = TRUE, !.image_ok = TRUE]

\* Mutant: a revert is itself a trial, to be reverted by the next boot.
Completed_revert_on_trial(r, type) ==
  [boot_record_load(r) EXCEPT !.swap_type = IF type = "PERM" THEN "NONE" ELSE "REVERT",
                              !.copy_done = TRUE, !.image_ok = (type = "PERM")]

\* A TEST swap stays flagged until the new image confirms itself.
Completed(r, type) ==
  [boot_record_load(r) EXCEPT !.swap_type = IF type = "TEST" THEN "REVERT" ELSE "NONE",
                              !.copy_done = TRUE, !.image_ok = (type # "TEST")]

\* What boot_record_set_image_ok() commits.
Confirmed(r) ==
  [boot_record_load(r) EXCEPT !.swap_type = "NONE", !.image_ok = TRUE]

===============================================================================
