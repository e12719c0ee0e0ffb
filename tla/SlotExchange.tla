----------------------------- MODULE SlotExchange -----------------------------
(***************************************************************************)
(* What the swap engine promises, with no sectors, no scratch area, no log *)
(* and no power cuts: a slot pair whose contents change in two ways only.  *)
(* While nothing is armed the secondary slot may be overwritten with a     *)
(* download.  Once a runnable secondary image is armed, the next thing     *)
(* that happens to either slot is that the two are exchanged, whole, once; *)
(* or the promise is lost while it is being repeated, and nothing happens. *)
(***************************************************************************)
CONSTANTS
  Slots,                    \* possible contents of a slot
  Runnable                  \* those that look like a bootable image

VARIABLES
  primary,                  \* the slot that executes
  secondary,                \* the slot that is staged into
  armed                     \* an exchange has been promised

vars == <<primary, secondary, armed>>

Init == primary \in Slots /\ secondary \in Slots /\ armed = FALSE

Stage ==
  /\ ~ armed
  /\ secondary' \in Slots
  /\ UNCHANGED <<primary, armed>>

Arm ==
  /\ ~ armed
  /\ secondary \in Runnable
  /\ armed' = TRUE
  /\ UNCHANGED <<primary, secondary>>

Forget ==
  /\ armed
  /\ armed' = FALSE
  /\ UNCHANGED <<primary, secondary>>

Exchange ==
  /\ armed
  /\ primary' = secondary
  /\ secondary' = primary
  /\ armed' = FALSE

Next == Stage \/ Arm \/ Forget \/ Exchange

Spec == Init /\ [][Next]_vars

===============================================================================
