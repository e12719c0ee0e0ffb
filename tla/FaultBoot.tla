------------------------------- MODULE FaultBoot ------------------------------
(***************************************************************************)
(* Boots in which flash operations fail, followed with three history       *)
(* variables that no code keeps.  After an error boot_recover_primary(),   *)
(* or the next request, may arm a swap that has moved sectors, and         *)
(* boot_swap_start() then takes the fingerprint of whatever the secondary  *)
(* slot holds by then: pieces of two images, which nobody has staged.      *)
(***************************************************************************)
EXTENDS Bootloader

VARIABLES
  moved,    \* legs are logged of an exchange whose end is not recorded, and nothing was downloaded since
  rearmed,  \* the last swap was armed over one that had moved
  staged    \* the secondary slot as it was when a swap was last armed over none that had

fault_vars == <<boot_vars, moved, rearmed, staged>>

Follow ==
  /\ moved' = (LogWrite \/ (moved /\ ~ BeginComplete /\ ~ AppStage))
  /\ rearmed' = IF Arm THEN moved ELSE rearmed
  /\ staged' = IF Arm /\ ~ moved THEN secondary ELSE staged

FaultInit == BootInit /\ moved = FALSE /\ rearmed = FALSE /\ staged = secondary

FaultNext == BootNext /\ Follow

FaultSpec == FaultInit /\ [][FaultNext]_fault_vars

-------------------------------------------------------------------------------
(* Whatever the flash driver claims and whichever operation failed, in     *)
(* this boot or an earlier one: SWAPPED and REVERTED are reported with no  *)
(* exchange left half done, and over a primary slot with the CRC32 of the  *)
(* image that was staged when the swap was armed, unless that swap was     *)
(* armed over one that had moved (SwappedIsAnImage is about those).        *)
(* CONFIRMED is reported only when no revert is going to happen            *)
(* (boot_mailbox.h, boot_status_t).                                        *)
AckTruthful ==
  phase = "running" =>
    /\ ack.status \in {"SWAPPED", "REVERTED"} =>
          ~ InFlight /\ (rearmed \/ boot_crc32(primary) = boot_crc32(staged))
    /\ ack.status = "CONFIRMED" => ~ boot_record_revert_pending(record)

===============================================================================
