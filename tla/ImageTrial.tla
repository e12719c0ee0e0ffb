------------------------------- MODULE ImageTrial -------------------------------
(***************************************************************************)
(* What a trial boot promises, with no sectors, no record, no mailbox and  *)
(* no power cuts (README.md, "exactly one of two things happens"): an      *)
(* image that is installed on trial is accepted for good, or the image     *)
(* that ran before it is put back; and until one of the two has happened   *)
(* nothing else is installed, requested or downloaded.                     *)
(***************************************************************************)
CONSTANTS
  Slots,                    \* possible contents of a slot
  Runnable                  \* those that look like a bootable image

VARIABLES
  runs,                     \* the image that runs
  kept,                     \* the one beside it: staged, or to fall back on
  stage                     \* "settled", the swap that has been requested, or "TRIAL"

trial_spec_vars == <<runs, kept, stage>>

Init == runs \in Slots /\ kept \in Slots /\ stage = "settled"

Download ==
  /\ stage = "settled"
  /\ kept' \in Slots
  /\ UNCHANGED <<runs, stage>>

\* A request may be repeated, with another type, until the swap begins.
Request ==
  /\ stage \in {"settled", "PERM", "TEST"}
  /\ kept \in Runnable
  /\ stage' \in {"PERM", "TEST"}
  /\ UNCHANGED <<runs, kept>>

Exchanged == runs' = kept /\ kept' = runs

Install ==
  /\ Exchanged
  /\ \/ stage = "PERM" /\ stage' = "settled"
     \/ stage = "TEST" /\ stage' = "TRIAL"

\* The image on trial says that it works, or there is nothing to fall back on.
Accept ==
  /\ stage = "TRIAL" /\ stage' = "settled"
  /\ UNCHANGED <<runs, kept>>

Reject ==
  /\ stage = "TRIAL" /\ stage' = "REVERT"
  /\ kept \in Runnable
  /\ UNCHANGED <<runs, kept>>

Restore ==
  /\ stage = "REVERT" /\ stage' = "settled"
  /\ Exchanged

Next == Download \/ Request \/ Install \/ Accept \/ Reject \/ Restore

Spec == Init /\ [][Next]_trial_spec_vars

===============================================================================
