------------------------------- MODULE TrialBoot ------------------------------
(***************************************************************************)
(* Trial boots, followed with two history variables that no code keeps:    *)
(* the images installed by a TEST swap that were not accepted since, and   *)
(* the image that was primary when the last TEST swap was armed.           *)
(***************************************************************************)
EXTENDS Bootloader

VARIABLES
  unconfirmed,   \* images on trial, or that failed their trial
  previous       \* what a revert is to put back

trial_vars == <<boot_vars, unconfirmed, previous>>

(* A TEST swap puts another image on trial.  A PERM swap, a confirmation,  *)
(* and the decision to keep a trial image that nothing bootable could      *)
(* replace each accept an image for good.                                  *)
Track ==
  /\ unconfirmed' =
       IF Arm /\ swap_type = "TEST" /\ secondary # primary THEN unconfirmed \cup {secondary}
       ELSE IF Arm /\ swap_type = "PERM" THEN unconfirmed \ {secondary}
       ELSE IF BeginSettle THEN unconfirmed \ {primary}
       ELSE unconfirmed
  /\ previous' = IF Arm /\ swap_type = "TEST" THEN primary ELSE previous

TrialSpec ==
  /\ BootInit /\ unconfirmed = {} /\ previous = primary
  /\ [][BootNext /\ Track]_trial_vars

-------------------------------------------------------------------------------
(* What the boots make of the two slots, with the record and the log read  *)
(* as SlotExchange reads them.                                             *)

Resident == IF InFlight THEN Outgoing ELSE primary
Stored == IF InFlight THEN Incoming ELSE secondary

\* A trial, or the swap that undoes it, is in the record.
Reverting == record # NoRecord /\ record.swap_type = "REVERT"

Trial == INSTANCE ImageTrial WITH
  Slots    <- Slot,
  Runnable <- {slot \in Slot : boot_image_ok(slot)},
  runs     <- Resident,
  kept     <- Stored,
  stage    <- IF InFlight THEN record.swap_type ELSE IF Reverting THEN "TRIAL" ELSE "settled"

(* Refinement.  A trial is accepted, or undone; nothing else comes in      *)
(* between, through any number of resets (README.md, "exactly one of two   *)
(* things happens"; boot_swap.c, boot_swap_process).                       *)
ImageTrialSpec == Trial!Spec

(* A trial image that nobody has accepted runs only while the record says  *)
(* that it is to be reverted (README.md, "Anything else ... lands on the   *)
(* next boot with the flag still set").                                    *)
TrialGuarded ==
  phase = "running" /\ primary \in unconfirmed => boot_record_revert_pending(record)

(* It runs on the boot that installed it and on no other: the flag is set  *)
(* at a hand-off only if the exchange finished in this very boot.          *)
TrialIsFresh ==
  phase = "running" /\ boot_record_revert_pending(record) => result = "DONE"

(* A reported revert has put back the image that was primary before the    *)
(* trial (boot_swap.h: "exactly where the first swap left it").            *)
PreviousRestored ==
  phase = "running" /\ ack.status = "REVERTED" => primary = previous

===============================================================================
