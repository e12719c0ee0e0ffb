------------------------------ MODULE BootLayout ------------------------------
(***************************************************************************)
(* The flash map of src/boot_layout.h, as far as the swap engine sees it:  *)
(* two slots of equally many sectors, one scratch sector, and the nine (in *)
(* general, three per sector) resumable steps of an exchange.              *)
(*                                                                         *)
(* What a sector holds is an uninterpreted value of Data.  The only thing  *)
(* the bootloader ever looks at inside a slot is its first eight bytes,    *)
(* which lie in sector 0: Bootable is the set of sector contents whose     *)
(* vector table passes boot_image_ok_at() for the primary slot.            *)
(***************************************************************************)
EXTENDS Integers

CONSTANTS
  BOOT_SLOT_SECTOR_COUNT,   \* sectors in a slot (3 on the RA6E2)
  Data,                     \* what one slot sector can hold
  Bootable                  \* sector contents that start with a usable vector table

ASSUME SectorCountAssumption == BOOT_SLOT_SECTOR_COUNT \in Nat \ {0}
ASSUME BootableAssumption == Bootable \subseteq Data

Sectors == 0 .. BOOT_SLOT_SECTOR_COUNT - 1

Slot == [Sectors -> Data]

BOOT_SWAP_LEGS_PER_SECTOR == 3

BOOT_SWAP_STEP_COUNT == BOOT_SLOT_SECTOR_COUNT * BOOT_SWAP_LEGS_PER_SECTOR

Steps == 0 .. BOOT_SWAP_STEP_COUNT - 1

SectorOf(step) == step \div BOOT_SWAP_LEGS_PER_SECTOR

LegOf(step) == step % BOOT_SWAP_LEGS_PER_SECTOR

\* The sanity check of a slot reads two words of sector 0 and nothing else.
boot_image_ok(slot) == slot[0] \in Bootable

BootSwapTypes == {"NONE", "PERM", "TEST", "REVERT"}

===============================================================================
