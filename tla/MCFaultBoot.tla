------------------------------ MODULE MCFaultBoot ------------------------------
(***************************************************************************)
(* An instance on slots of two sectors, so that the slots can hold pieces  *)
(* of two images, with a bound on what goes wrong in the engine.           *)
(***************************************************************************)
EXTENDS FaultBoot, MCContents

CONSTANT MaxMishaps
ASSUME MishapAssumption == MaxMishaps \in Nat

VARIABLE mishaps   \* errors, copies gone wrong, and resets with the engine on the stack

\* Of the values of MCContents those that slots of two sectors can hold.
MCTwoSectorData == MCData \ {"a2", "b2"}

CopyGoesWrong == Leg /\ ~ SetLegDest(LegSource)

Mishap == CopyGoesWrong \/ Fail \/ (Reset /\ pc # "idle")

Bounded ==
  /\ mishaps' = IF Mishap THEN mishaps + 1 ELSE mishaps
  /\ mishaps' <= MaxMishaps

MCFaultInit == FaultInit /\ mishaps = 0

MCFaultSpec ==
  /\ MCFaultInit
  /\ [][FaultNext /\ Bounded]_<<fault_vars, mishaps>>

===============================================================================
