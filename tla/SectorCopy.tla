------------------------------ MODULE SectorCopy ------------------------------
(***************************************************************************)
(* What the swap engine takes a copy to be (boot_flash.h): while it lasts  *)
(* its destination may hold debris, nothing else changes, and it succeeds  *)
(* only when the destination holds all of the source.                      *)
(***************************************************************************)
CONSTANTS Areas, Debris

VARIABLES
  holds,    \* what each sector holds
  job,      \* <<destination, source>> of the copy that is going on, or << >>
  copied    \* it has succeeded

copy_vars == <<holds, job, copied>>

Init == job = << >> /\ ~ copied

Begin ==
  /\ job = << >>
  /\ job' \in {<<d, s>> : d \in Areas, s \in Areas} /\ job'[1] # job'[2]
  /\ UNCHANGED <<holds, copied>>

\* The destination as it was, as debris, or already as the source.
Touched ==
  holds' = holds
  \/ \E v \in {Debris, holds[job[2]]} : holds' = [holds EXCEPT ![job[1]] = v]

Work == job # << >> /\ ~ copied /\ Touched /\ UNCHANGED <<job, copied>>

Finish ==
  /\ job # << >> /\ holds[job[1]] = holds[job[2]]
  /\ copied' = TRUE
  /\ UNCHANGED <<holds, job>>

Return ==
  /\ copied
  /\ job' = << >> /\ copied' = FALSE
  /\ UNCHANGED holds

\* An error, or a reset at any instant.
Abandon ==
  /\ job # << >>
  /\ Touched
  /\ job' = << >> /\ copied' = FALSE

Next == Begin \/ Work \/ Finish \/ Return \/ Abandon

Spec == Init /\ [][Next]_copy_vars

===============================================================================
