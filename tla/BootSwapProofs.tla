---------------------------- MODULE BootSwapProofs ----------------------------
(***************************************************************************)
(* Proofs about the swap engine for every number of sectors, every content *)
(* of the slots and every behaviour of the flash driver and the resets.    *)
(***************************************************************************)
EXTENDS BootSwap, TLAPS

-------------------------------------------------------------------------------
(* The arithmetic of steps, sectors and legs.                              *)

\* A step of the exchange is a leg of a sector (boot_swap_process, the two divisions).
LEMMA StepShape ==
  ASSUME NEW s \in Steps
  PROVE  /\ SectorOf(s) \in Sectors
         /\ LegOf(s) \in {0, 1, 2}
         /\ s = 3 * SectorOf(s) + LegOf(s)
  BY SectorCountAssumption
  DEF Steps, BOOT_SWAP_STEP_COUNT, BOOT_SWAP_LEGS_PER_SECTOR, SectorOf, LegOf, Sectors

\* The three legs of every sector are steps of the exchange.
LEMMA SectorSteps ==
  ASSUME NEW i \in Sectors
  PROVE  3 * i \in Steps /\ 3 * i + 1 \in Steps /\ 3 * i + 2 \in Steps
  BY SectorCountAssumption
  DEF Steps, BOOT_SWAP_STEP_COUNT, BOOT_SWAP_LEGS_PER_SECTOR, Sectors

\* There is at least one sector and one step.
LEMMA StepCountNat == BOOT_SWAP_STEP_COUNT \in Nat /\ 0 \in Steps /\ 0 \in Sectors
  BY SectorCountAssumption
  DEF Steps, BOOT_SWAP_STEP_COUNT, BOOT_SWAP_LEGS_PER_SECTOR, Sectors

-------------------------------------------------------------------------------
(* Type correctness.                                                       *)

\* A fingerprint, taken or unset, is one a record can hold.
LEMMA CrcType ==
  /\ \A slot \in Slot : boot_crc32(slot) \in Crc32
  /\ BOOT_CRC32_UNSET \in Crc32
  BY DEF Crc32

\* What boot_record_write.c programs is a record, whatever was read.
LEMMA RecordTypes ==
  ASSUME NEW r \in Record \cup {NoRecord}, NEW type \in BootSwapTypes, NEW crc \in Crc32
  PROVE  /\ Requested(r, type, crc) \in Record
         /\ Completed(r, type) \in Record
         /\ Confirmed(r) \in Record
<1>1. boot_record_load(r) \in Record
  BY CrcType DEF boot_record_load, boot_record_defaults, Record, BootSwapTypes
<1>2. Requested(r, type, crc) \in Record
  BY <1>1 DEF Requested, Record
<1>3. Completed(r, type) \in Record
  BY <1>1 DEF Completed, Record, BootSwapTypes
<1>4. Confirmed(r) \in Record
  BY <1>1 DEF Confirmed, Record, BootSwapTypes
<1> QED BY <1>2, <1>3, <1>4

\* A board fresh from the factory is well typed.
LEMMA InitType == Init => TypeOK
<1> SUFFICES ASSUME Init PROVE TypeOK
  OBVIOUS
<1>1. primary \in Slot /\ secondary \in Slot
  BY ContentsAssumption DEF Init
<1>2. log \in [Steps -> LogWord]
  BY DEF Init, LogWord
<1>3. step \in 0 .. BOOT_SWAP_STEP_COUNT
  BY StepCountNat DEF Init
<1>4. pc \in PCs /\ busy \in BOOLEAN /\ fn \in {"none", "start", "process", "confirm"}
      /\ swap_type \in BootSwapTypes /\ result \in Results
  BY DEF Init, PCs, BootSwapTypes, Results
<1> QED
  BY <1>1, <1>2, <1>3, <1>4, CrcType DEF Init, TypeOK

\* The destination of a leg stays within the contents of its sector.
LEMMA SetLegDestType ==
  ASSUME TypeOK, NEW d \in Data, step \in Steps, SetLegDest(d)
  PROVE  primary' \in Slot /\ secondary' \in Slot /\ scratch' \in Data
<1>1. SectorOf(step) \in Sectors
  BY StepShape
<1> QED
  BY <1>1 DEF TypeOK, SetLegDest, Slot

\* What a leg copies is the contents of a sector.
LEMMA LegSourceType ==
  ASSUME TypeOK, step \in Steps
  PROVE  LegSource \in Data /\ LegDest \in Data
<1>1. SectorOf(step) \in Sectors /\ LegOf(step) \in {0, 1, 2}
  BY StepShape
<1> QED
  BY <1>1 DEF TypeOK, LegSource, LegDest, Slot

\* A return leaves the locals well typed.
LEMMA ReturnType ==
  ASSUME NEW outcome \in Results, Return(outcome)
  PROVE  /\ pc' \in PCs /\ busy' \in BOOLEAN /\ fn' \in {"none", "start", "process", "confirm"}
         /\ swap_type' \in BootSwapTypes /\ crc_staged' \in Crc32
         /\ step' \in 0 .. BOOT_SWAP_STEP_COUNT
         /\ g_staged_record' \in Record \cup {NoRecord} /\ result' \in Results
<1>1. step' \in 0 .. BOOT_SWAP_STEP_COUNT
  BY StepCountNat DEF Return
<1> QED
  BY <1>1, CrcType DEF Return, PCs, BootSwapTypes

\* The first half of a record write keeps the types if the new record is one.
LEMMA CommitType ==
  ASSUME TypeOK, NEW op, NEW new \in Record, BeginCommit(op, new)
  PROVE  TypeOK'
<1>1. record' \in Record \cup {NoRecord}
  BY DEF TypeOK, BeginCommit
<1>2. busy' \in BOOLEAN /\ g_staged_record' \in Record
  BY DEF BeginCommit, Begin
<1> QED
  BY <1>1, <1>2 DEF TypeOK, BeginCommit

\* Every step keeps the types.
LEMMA TypeStep ==
  ASSUME TypeOK, [Next]_swap_vars,
         pc = "scan" => InFlight, pc \in {"leg", "log"} => step \in Steps
  PROVE  TypeOK'
<1> USE StepCountNat DEF TypeOK
<1>1. CASE UNCHANGED swap_vars
  BY <1>1 DEF swap_vars, flash, locals
<1>2. CASE BeginEraseLog
  BY <1>2 DEF BeginEraseLog, Begin, LogWord
<1>3. CASE EraseLog
  <2>1. log' \in [Steps -> LogWord]
    BY <1>3 DEF EraseLog, Erased, LogWord
  <2>2. pc' \in PCs /\ busy' \in BOOLEAN /\ fn' \in {"none", "start", "process", "confirm"}
        /\ swap_type' \in BootSwapTypes /\ crc_staged' \in Crc32
        /\ step' \in 0 .. BOOT_SWAP_STEP_COUNT
        /\ g_staged_record' \in Record \cup {NoRecord} /\ result' \in Results
    <3>1. ErrorOf(fn) \in Results
      BY DEF ErrorOf, Results
    <3>2. CASE Return(ErrorOf(fn))
      BY <3>1, <3>2, ReturnType
    <3>3. CASE pc' = "arm" /\ busy' = FALSE
               /\ UNCHANGED <<fn, swap_type, crc_staged, step, g_staged_record, result>>
      BY <3>3 DEF PCs
    <3> QED BY <1>3, <3>2, <3>3 DEF EraseLog
  <2> QED BY <1>3, <2>1, <2>2 DEF EraseLog
<1>4. CASE BeginArm
  BY <1>4, CommitType, RecordTypes DEF BeginArm
<1>5. CASE Arm
  <2>1. CASE Return("SUCCESS")
    BY <1>5, <2>1, ReturnType DEF Arm, EndCommit, Results
  <2>2. CASE pc' = "scan" /\ busy' = FALSE /\ g_staged_record' = NoRecord
             /\ UNCHANGED <<fn, swap_type, crc_staged, step, result>>
    BY <1>5, <2>2 DEF Arm, EndCommit, PCs
  <2> QED BY <1>5, <2>1, <2>2 DEF Arm
<1>6. CASE Scan
  <2>1. record \in Record
    BY <1>6 DEF Scan, InFlight, boot_record_swap_in_progress
  <2> QED BY <1>6, <2>1 DEF Scan, OpOf, PCs, Record, flash
<1>7. CASE BeginLeg
  BY <1>7, SetLegDestType, ContentsAssumption DEF BeginLeg, Begin
<1>8. CASE Leg
  <2>1. step \in Steps
    BY <1>8 DEF Leg
  <2>2. PICK d \in {LegSource} \cup Misprogrammed : SetLegDest(d)
    BY <1>8 DEF Leg
  <2>3. primary' \in Slot /\ secondary' \in Slot /\ scratch' \in Data
    BY <2>1, <2>2, SetLegDestType, LegSourceType, ContentsAssumption
  <2> QED BY <1>8, <2>3 DEF Leg, PCs
<1>9. CASE BeginLogWrite
  BY <1>9 DEF BeginLogWrite, Begin, LogWord
<1>10. CASE LogWrite
  <2>1. step \in Steps
    BY <1>10 DEF LogWrite, LogWriteThen
  <2>2. step + 1 \in 0 .. BOOT_SWAP_STEP_COUNT
    BY <2>1 DEF Steps
  <2> QED BY <1>10, <2>2 DEF LogWrite, LogWriteThen, LogWord, OpOf, PCs
<1>11. CASE BeginComplete
  BY <1>11, CommitType, RecordTypes, CrcType DEF BeginComplete
<1>12. CASE Complete
  <2>1. Return("CRC_FAIL") \/ Return("REVERTED") \/ Return("DONE")
    BY <1>12 DEF Complete
  <2>2. {"CRC_FAIL", "REVERTED", "DONE"} \subseteq Results
    BY DEF Results
  <2> QED BY <1>12, <2>1, <2>2, ReturnType DEF Complete, EndCommit
<1>13. CASE BeginSettle
  BY <1>13, CommitType, RecordTypes, CrcType DEF BeginSettle
<1>14. CASE Settle
  <2>1. Return("NONE") \/ Return("SUCCESS")
    BY <1>14 DEF Settle
  <2> QED BY <1>14, <2>1, ReturnType DEF Settle, EndCommit, Results
<1>15. CASE Fail
  <2>1. ErrorOf(fn) \in Results
    BY DEF ErrorOf, Results
  <2> QED BY <1>15, <2>1, ReturnType DEF Fail, flash
<1>16. CASE Crash
  BY <1>16, ReturnType DEF Crash, flash, Results
<1>17. CASE Stage
  BY <1>17, ContentsAssumption DEF Stage, locals
<1>18. CASE Caller
  <2>1. UNCHANGED flash
    BY <1>18 DEF Caller, boot_swap_start, boot_swap_process, boot_record_set_image_ok
  <2>2. ASSUME NEW op \in PCs, NEW f \in {"start", "process", "confirm"},
               NEW type \in BootSwapTypes, NEW crc \in Crc32, Call(op, f, type, crc)
        PROVE  TypeOK'
    BY <2>1, <2>2 DEF Call, flash, Results
  <2>3. ASSUME NEW outcome \in Results, Return(outcome)
        PROVE  TypeOK'
    BY <2>1, <2>3, ReturnType DEF flash
  <2>4. ASSUME NEW type \in {"PERM", "TEST"}, boot_swap_start(type)
        PROVE  TypeOK'
    BY <2>2, <2>3, <2>4, CrcType DEF boot_swap_start, BootSwapTypes, Results, PCs
  <2>5. CASE boot_swap_process
    <3>1. CASE InFlight
      <4>1. record.swap_type \in BootSwapTypes
        BY <3>1 DEF InFlight, boot_record_swap_in_progress, Record
      <4> QED BY <2>2, <2>3, <2>5, <3>1, <4>1, CrcType
              DEF boot_swap_process, BootSwapTypes, Results, PCs, InFlight,
                  boot_record_swap_in_progress, boot_record_revert_pending
    <3>2. CASE ~ InFlight
      BY <2>2, <2>3, <2>5, <3>2, CrcType DEF boot_swap_process, BootSwapTypes, Results, PCs
    <3> QED BY <3>1, <3>2
  <2>6. CASE boot_record_set_image_ok
    BY <2>2, <2>6, CrcType DEF boot_record_set_image_ok, BootSwapTypes, PCs
  <2> QED BY <1>18, <2>4, <2>5, <2>6 DEF Caller
<1> QED
  BY <1>1, <1>2, <1>3, <1>4, <1>5, <1>6, <1>7, <1>8, <1>9, <1>10, <1>11, <1>12,
     <1>13, <1>14, <1>15, <1>16, <1>17, <1>18
  DEF Next, SwapStep, FlashStep

-------------------------------------------------------------------------------
(* The control, the staged record and the log are consistent, whatever the *)
(* flash driver does to the data.                                          *)

\* Which of the records that are written say that a swap is in flight.
LEMMA RecordVerdicts ==
  ASSUME NEW r \in Record \cup {NoRecord}, NEW type \in BootSwapTypes, NEW crc \in Crc32
  PROVE  /\ type # "NONE" => boot_record_swap_in_progress(Requested(r, type, crc))
         /\ ~ boot_record_swap_in_progress(Completed(r, type))
         /\ ~ boot_record_swap_in_progress(Confirmed(r))
<1>1. /\ Requested(r, type, crc) \in Record
      /\ Completed(r, type) \in Record
      /\ Confirmed(r) \in Record
  BY RecordTypes
<1>2. boot_record_load(r) \in Record
  BY CrcType DEF boot_record_load, boot_record_defaults, Record, BootSwapTypes
<1>3. ASSUME type # "NONE"
      PROVE  boot_record_swap_in_progress(Requested(r, type, crc))
  <2>1. Requested(r, type, crc).swap_type = type /\ Requested(r, type, crc).copy_done = FALSE
    BY <1>2 DEF Requested, Record
  <2> QED BY <1>1, <1>3, <2>1, NoRecordAssumption DEF boot_record_swap_in_progress
<1>4. ~ boot_record_swap_in_progress(Completed(r, type))
  <2>1. Completed(r, type).copy_done = TRUE
    BY <1>2 DEF Completed, Record
  <2> QED BY <2>1 DEF boot_record_swap_in_progress
<1>5. ~ boot_record_swap_in_progress(Confirmed(r))
  <2>1. Confirmed(r).swap_type = "NONE"
    BY <1>2 DEF Confirmed, Record
  <2> QED BY <2>1 DEF boot_record_swap_in_progress
<1> QED BY <1>3, <1>4, <1>5

\* The part of the inductive invariant that no wrong copy can break.
EngineInv == TypeOK /\ ControlInv /\ StagedRecordInv /\ LogInv

\* A log without entries has no gap.
LEMMA UntouchedPrefix == Untouched => PrefixShaped
  BY DEF Untouched, PrefixShaped

\* A record that is refused says that no swap is in flight.
LEMMA NothingInFlight == ~ boot_record_swap_in_progress(NoRecord)
  BY DEF boot_record_swap_in_progress

\* A return leaves nothing to be relied on but the shape of the log.
LEMMA ReturnInv ==
  ASSUME NEW outcome, Return(outcome), (InFlight => PrefixShaped)'
  PROVE  (ControlInv /\ StagedRecordInv /\ LogInv)'
  BY DEF Return, ControlInv, StagedRecordInv, LogInv

\* The engine invariant holds on a board fresh from the factory.
LEMMA InitEngine == Init => EngineInv
<1> SUFFICES ASSUME Init PROVE EngineInv
  OBVIOUS
<1>1. TypeOK
  BY InitType
<1>2. ~ InFlight
  BY NothingInFlight DEF Init, InFlight
<1>3. ControlInv /\ StagedRecordInv /\ LogInv
  BY <1>2 DEF Init, ControlInv, StagedRecordInv, LogInv
<1> QED BY <1>1, <1>3 DEF EngineInv

\* Erasing the log keeps the engine invariant.
LEMMA EraseLogInv ==
  ASSUME EngineInv, BeginEraseLog \/ EraseLog
  PROVE  (ControlInv /\ StagedRecordInv /\ LogInv)'
<1> USE DEF EngineInv
<1>1. CASE BeginEraseLog
  <2>1. \A s \in Steps : Logged(s)' => Logged(s)
    BY <1>1 DEF BeginEraseLog, Logged, Counts, TypeOK
  <2>2. Untouched => Untouched'
    BY <2>1 DEF Untouched
  <2>3. pc' = "erase_log" /\ busy' = TRUE /\ InFlight' = InFlight
    BY <1>1 DEF BeginEraseLog, Begin, InFlight
  <2>4. ControlInv'
    BY <1>1, <2>2, <2>3 DEF BeginEraseLog, Begin, ControlInv
  <2>5. StagedRecordInv'
    BY <2>3 DEF StagedRecordInv
  <2>6. LogInv'
    BY <1>1, <2>2, <2>3, UntouchedPrefix DEF BeginEraseLog, Begin, ControlInv, LogInv,
                                            PrefixShaped, Untouched
  <2> QED BY <2>4, <2>5, <2>6
<1>2. CASE EraseLog
  <2>1. InFlight' = InFlight /\ pc = "erase_log"
    BY <1>2 DEF EraseLog, InFlight
  <2>2. log' = Erased(log) \/ log' = log
    BY <1>2 DEF EraseLog
  <2>3. Untouched => Untouched'
    BY <2>2 DEF Untouched, Logged, Counts, Erased, TypeOK
  <2>4. InFlight' => Untouched'
    BY <2>1, <2>3 DEF ControlInv
  <2>5. CASE Return(ErrorOf(fn))
    <3>1. (InFlight => PrefixShaped)'
      BY <2>4 DEF Untouched, PrefixShaped
    <3> QED BY <2>5, <3>1, ReturnInv
  <2>6. CASE /\ boot_flash_df_blank(log')
             /\ pc' = "arm" /\ busy' = FALSE
             /\ UNCHANGED <<fn, swap_type, crc_staged, step, g_staged_record, result>>
    <3>1. Untouched'
      BY <2>6 DEF boot_flash_df_blank, Untouched, Logged, Counts
    <3>2. ControlInv'
      BY <1>2, <2>1, <2>6, <3>1 DEF EraseLog, ControlInv, boot_image_ok
    <3>3. StagedRecordInv' /\ LogInv'
      BY <2>6, <3>1 DEF StagedRecordInv, LogInv, Untouched, PrefixShaped
    <3> QED BY <3>2, <3>3
  <2> QED BY <1>2, <2>5, <2>6 DEF EraseLog
<1> QED BY <1>1, <1>2

\* Writing the record, for each of its three purposes, keeps the engine invariant.
LEMMA CommitInv ==
  ASSUME EngineInv,
         BeginArm \/ Arm \/ BeginComplete \/ Complete \/ BeginSettle \/ Settle
  PROVE  (ControlInv /\ StagedRecordInv /\ LogInv)'
<1> USE DEF EngineInv
<1>1. ASSUME NEW op, NEW new, BeginCommit(op, new)
      PROVE  /\ InFlight' => InFlight
             /\ pc = op /\ pc' = pc /\ busy' = TRUE /\ g_staged_record' = new
             /\ UNCHANGED <<secondary, log, fn, swap_type, step>>
  BY <1>1, NothingInFlight DEF BeginCommit, Begin, InFlight
<1>2. ASSUME NEW op, EndCommit(op)
      PROVE  /\ InFlight' <=> boot_record_swap_in_progress(g_staged_record)
             /\ pc = op /\ busy /\ UNCHANGED <<primary, secondary, log>>
  BY <1>2 DEF EndCommit, InFlight
<1>3. CASE BeginArm
  <2>1. /\ InFlight' => InFlight
        /\ pc = "arm" /\ pc' = pc /\ busy' = TRUE
        /\ g_staged_record' = Requested(record, swap_type, crc_staged)
        /\ UNCHANGED <<secondary, log, fn, swap_type, step>>
    BY <1>1, <1>3 DEF BeginArm
  <2>2. boot_record_swap_in_progress(g_staged_record')
    BY <2>1, RecordVerdicts DEF TypeOK, ControlInv
  <2>3. ControlInv'
    BY <2>1 DEF ControlInv, boot_image_ok, Untouched, Logged
  <2>4. StagedRecordInv'
    BY <2>1, <2>2 DEF StagedRecordInv
  <2>5. LogInv'
    BY <2>1 DEF LogInv, Untouched, PrefixShaped, Logged
  <2> QED BY <2>3, <2>4, <2>5
<1>4. CASE Arm
  <2>1. /\ pc = "arm" /\ busy /\ InFlight' /\ Untouched'
        /\ UNCHANGED <<primary, secondary, log>>
    BY <1>2, <1>4 DEF Arm, StagedRecordInv, LogInv, Untouched, Logged
  <2>2. PrefixShaped'
    BY <2>1 DEF PrefixShaped, Untouched
  <2>3. CASE Return("SUCCESS")
    BY <2>2, <2>3, ReturnInv
  <2>4. CASE /\ fn = "process" /\ pc' = "scan" /\ busy' = FALSE
             /\ UNCHANGED <<fn, swap_type, crc_staged, step, result>>
    BY <2>1, <2>2, <2>4 DEF ControlInv, StagedRecordInv, LogInv
  <2> QED BY <1>4, <2>3, <2>4 DEF Arm
<1>5. CASE BeginComplete
  <2>1. /\ pc = "complete" /\ pc' = pc /\ busy' = TRUE
        /\ g_staged_record' = Completed(record, swap_type)
        /\ UNCHANGED <<secondary, log, fn, swap_type, step>>
        /\ InFlight' => InFlight
    BY <1>1, <1>5 DEF BeginComplete
  <2>2. g_staged_record' # NoRecord /\ ~ boot_record_swap_in_progress(g_staged_record')
    BY <2>1, RecordVerdicts, RecordTypes, CrcType, NoRecordAssumption DEF TypeOK
  <2>3. ControlInv' /\ StagedRecordInv'
    BY <2>1, <2>2 DEF ControlInv, StagedRecordInv
  <2>4. LogInv'
    BY <2>1 DEF LogInv, PrefixShaped, Logged
  <2> QED BY <2>3, <2>4
<1>6. CASE Complete
  <2>1. ~ InFlight'
    BY <1>2, <1>6 DEF Complete, StagedRecordInv
  <2>2. PICK outcome : Return(outcome)
    BY <1>6 DEF Complete
  <2> QED BY <2>1, <2>2, ReturnInv
<1>7. CASE BeginSettle
  <2>1. /\ pc = "settle" /\ pc' = pc /\ busy' = TRUE
        /\ g_staged_record' = Confirmed(record)
        /\ UNCHANGED <<secondary, log, fn, swap_type, step>>
        /\ InFlight' => InFlight
    BY <1>1, <1>7 DEF BeginSettle
  <2>2. g_staged_record' # NoRecord /\ ~ boot_record_swap_in_progress(g_staged_record')
    BY <2>1, RecordVerdicts, RecordTypes, CrcType, NoRecordAssumption DEF TypeOK
  <2>3. ControlInv' /\ StagedRecordInv'
    BY <2>1, <2>2 DEF ControlInv, StagedRecordInv
  <2>4. LogInv'
    BY <2>1 DEF ControlInv, LogInv
  <2> QED BY <2>3, <2>4
<1>8. CASE Settle
  <2>1. ~ InFlight'
    BY <1>2, <1>8 DEF Settle, StagedRecordInv
  <2>2. PICK outcome : Return(outcome)
    BY <1>8 DEF Settle
  <2> QED BY <2>1, <2>2, ReturnInv
<1> QED BY <1>3, <1>4, <1>5, <1>6, <1>7, <1>8

\* The legs and their log entries keep the engine invariant.
LEMMA LegsInv ==
  ASSUME EngineInv, Scan \/ BeginLeg \/ Leg \/ BeginLogWrite \/ LogWrite
  PROVE  (ControlInv /\ StagedRecordInv /\ LogInv)'
<1> USE DEF EngineInv
<1>1. pc \in {"scan", "leg", "log"} /\ InFlight /\ fn = "process" /\ PrefixShaped
  BY DEF Scan, BeginLeg, Leg, BeginLogWrite, LogWrite, LogWriteThen, Begin, ControlInv, LogInv
<1>2. InFlight' /\ fn' = "process"
  BY <1>1 DEF Scan, BeginLeg, Leg, BeginLogWrite, LogWrite, LogWriteThen, Begin, InFlight, flash
<1>3. CASE Scan
  <2>1. PICK n \in 0 .. BOOT_SWAP_STEP_COUNT : IsCount(n) /\ step' = n /\ pc' = OpOf(n)
    BY <1>3 DEF Scan
  <2>2. log' = log /\ ~ busy' /\ PrefixShaped'
    BY <1>1, <1>3 DEF Scan, flash, ControlInv, PrefixShaped, Logged
  <2>3. CASE n < BOOT_SWAP_STEP_COUNT
    <3>1. pc' = "leg" /\ n \in Steps
      BY <2>1, <2>3, StepCountNat DEF OpOf, Steps
    <3>2. IsCount(step)'
      BY <2>1, <2>2 DEF IsCount
    <3> QED BY <1>2, <2>1, <2>2, <3>1, <3>2 DEF ControlInv, StagedRecordInv, LogInv
  <2>4. CASE n = BOOT_SWAP_STEP_COUNT
    <3>1. pc' = "complete"
      BY <2>1, <2>4, StepCountNat DEF OpOf
    <3>2. \A s \in Steps : Logged(s)'
      BY <2>1, <2>2, <2>4, StepCountNat DEF IsCount, Logged, Steps
    <3> QED BY <1>2, <2>2, <3>1, <3>2 DEF ControlInv, StagedRecordInv, LogInv
  <2> QED BY <2>1, <2>3, <2>4, StepCountNat
<1>4. CASE BeginLeg \/ Leg
  <2>1. log' = log /\ step' = step /\ pc = "leg" /\ pc' \in {"leg", "log"}
    BY <1>4 DEF BeginLeg, Leg, Begin
  <2>2. step' \in Steps /\ IsCount(step)' /\ PrefixShaped'
    BY <1>1, <2>1 DEF LogInv, IsCount, PrefixShaped, Logged
  <2> QED BY <1>2, <2>1, <2>2 DEF ControlInv, StagedRecordInv, LogInv
<1>5. CASE BeginLogWrite
  <2>1. pc = "log" /\ pc' = pc /\ step' = step /\ log' = [log EXCEPT ![step] = "torn"]
    BY <1>5 DEF BeginLogWrite, Begin
  <2>2. step \in Steps /\ IsCount(step)
    BY <2>1 DEF LogInv
  <2>3. \A s \in Steps : Counts(log'[s]) <=> Counts(log[s])
    BY <2>1, <2>2 DEF TypeOK, IsCount, Counts
  <2>4. IsCount(step)' /\ PrefixShaped'
    BY <1>1, <2>1, <2>2, <2>3 DEF IsCount, PrefixShaped, Logged
  <2> QED BY <1>2, <2>1, <2>2, <2>4 DEF ControlInv, StagedRecordInv, LogInv
<1>6. CASE LogWrite
  <2>1. /\ pc = "log" /\ busy' = FALSE /\ log' = [log EXCEPT ![step] = "entry"]
        /\ step' = step + 1 /\ pc' = OpOf(step + 1)
    BY <1>6 DEF LogWrite, LogWriteThen
  <2>2. step \in Steps /\ IsCount(step)
    BY <2>1 DEF LogInv
  <2>3. \A s \in Steps : Counts(log'[s]) <=> Counts(log[s]) \/ s = step
    BY <2>1, <2>2 DEF TypeOK, Counts
  <2>4. PrefixShaped'
    BY <1>1, <2>2, <2>3 DEF PrefixShaped, Logged, IsCount, Steps
  <2>5. \A s \in Steps : s < step + 1 => Counts(log'[s])
    BY <2>2, <2>3, StepCountNat DEF IsCount, Steps
  <2>6. CASE step + 1 < BOOT_SWAP_STEP_COUNT
    <3>1. pc' = "leg" /\ step' \in Steps
      BY <2>1, <2>2, <2>6, StepCountNat DEF OpOf, Steps
    <3>2. ~ Counts(log'[step + 1])
      <4>1. step + 1 \in Steps /\ step + 1 # step /\ step < step + 1
        BY <2>1, <2>2, <3>1, StepCountNat DEF Steps
      <4>2. ~ Counts(log[step])
        BY <2>2 DEF IsCount
      <4>3. ~ Counts(log[step + 1])
        BY <1>1, <2>2, <4>1, <4>2 DEF PrefixShaped, Logged
      <4> QED BY <2>3, <4>1, <4>3
    <3>3. IsCount(step)'
      BY <2>1, <2>5, <3>1, <3>2, StepCountNat DEF IsCount, Steps
    <3> QED BY <1>2, <2>1, <2>4, <3>1, <3>3 DEF ControlInv, StagedRecordInv, LogInv
  <2>7. CASE ~ (step + 1 < BOOT_SWAP_STEP_COUNT)
    <3>1. pc' = "complete"
      BY <2>1, <2>7 DEF OpOf
    <3>2. \A s \in Steps : Logged(s)'
      BY <2>2, <2>5, <2>7, StepCountNat DEF Steps, Logged
    <3> QED BY <1>2, <2>1, <2>4, <3>1, <3>2 DEF ControlInv, StagedRecordInv, LogInv
  <2> QED BY <2>6, <2>7
<1> QED BY <1>3, <1>4, <1>5, <1>6

\* The calls keep the engine invariant.
LEMMA CallerInv ==
  ASSUME EngineInv, Fail \/ Crash \/ Stage \/ Caller \/ UNCHANGED swap_vars
  PROVE  (ControlInv /\ StagedRecordInv /\ LogInv)'
<1> USE DEF EngineInv
<1>1. InFlight' = InFlight /\ log' = log
  BY DEF Fail, Crash, Stage, Caller, boot_swap_start, boot_swap_process,
         boot_record_set_image_ok, swap_vars, flash, InFlight
<1>2. (InFlight => PrefixShaped)'
  BY <1>1 DEF LogInv, PrefixShaped, Logged
<1>3. ASSUME NEW outcome, Return(outcome)
      PROVE  (ControlInv /\ StagedRecordInv /\ LogInv)'
  BY <1>2, <1>3, ReturnInv
<1>4. CASE Fail \/ Crash
  BY <1>3, <1>4 DEF Fail, Crash
<1>5. CASE Stage
  BY <1>1, <1>2, <1>5 DEF Stage, locals, ControlInv, StagedRecordInv, LogInv
<1>6. CASE UNCHANGED swap_vars
  BY <1>1, <1>2, <1>6 DEF swap_vars, flash, locals, ControlInv, StagedRecordInv, LogInv,
                          boot_image_ok, Untouched, IsCount, Logged
<1>7. ASSUME NEW type \in {"PERM", "TEST"}, boot_swap_start(type), InFlight => Untouched
      PROVE  (ControlInv /\ StagedRecordInv /\ LogInv)'
  <2>1. CASE Return("INVALID_DATA")
    BY <1>3, <2>1
  <2>2. CASE boot_image_ok(secondary) /\ Call("erase_log", "start", type, boot_crc32(secondary))
    <3>1. pc' = "erase_log" /\ ~ busy' /\ boot_image_ok(secondary)' /\ (InFlight => Untouched)'
      BY <1>1, <1>7, <2>2 DEF Call, ControlInv, boot_swap_start, flash, boot_image_ok, Untouched, Logged
    <3> QED BY <1>2, <2>2, <3>1 DEF Call, ControlInv, StagedRecordInv, LogInv
  <2> QED BY <1>7, <2>1, <2>2 DEF boot_swap_start
<1>8. CASE boot_swap_process
  <2>1. pc = "idle" /\ ~ busy
    BY <1>8 DEF boot_swap_process, ControlInv
  <2>2. CASE Return("NONE")
    BY <1>3, <2>2
  <2>3. CASE InFlight /\ Call("scan", "process", record.swap_type, BOOT_CRC32_UNSET)
    BY <1>1, <1>2, <2>1, <2>3 DEF Call, ControlInv, StagedRecordInv, LogInv
  <2>4. CASE /\ boot_record_revert_pending(record) /\ boot_image_ok(secondary)
             /\ Call("erase_log", "process", "REVERT", boot_crc32(secondary))
    <3>1. ~ InFlight' /\ boot_image_ok(secondary)'
      BY <1>1, <1>8, <2>4 DEF boot_swap_process, flash, boot_image_ok,
         boot_record_revert_pending, boot_record_swap_in_progress, InFlight
    <3> QED BY <1>2, <2>1, <2>4, <3>1 DEF Call, ControlInv, StagedRecordInv, LogInv
  <2>5. CASE /\ boot_record_revert_pending(record)
             /\ Call("settle", "process", "NONE", BOOT_CRC32_UNSET)
    <3>1. ~ InFlight'
      BY <1>1, <2>5 DEF boot_record_revert_pending, boot_record_swap_in_progress, InFlight
    <3> QED BY <1>2, <2>1, <2>5, <3>1 DEF Call, ControlInv, StagedRecordInv, LogInv
  <2> QED BY <1>8, <2>2, <2>3, <2>4, <2>5 DEF boot_swap_process
<1>9. CASE boot_record_revert_pending(record) /\ boot_record_set_image_ok
  <2>1. ~ InFlight' /\ ~ busy
    BY <1>1, <1>9 DEF boot_record_revert_pending, boot_record_swap_in_progress, InFlight,
                      boot_record_set_image_ok, Call, ControlInv
  <2> QED BY <1>2, <1>9, <2>1 DEF boot_record_set_image_ok, Call, ControlInv, StagedRecordInv, LogInv
<1> QED BY <1>4, <1>5, <1>6, <1>7, <1>8, <1>9 DEF Caller

\* Every step keeps the engine invariant.
LEMMA EngineStep == EngineInv /\ [Next]_swap_vars => EngineInv'
<1> SUFFICES ASSUME EngineInv, [Next]_swap_vars PROVE EngineInv'
  OBVIOUS
<1>1. TypeOK'
  BY TypeStep DEF EngineInv, ControlInv, LogInv
<1>2. (ControlInv /\ StagedRecordInv /\ LogInv)'
  BY EraseLogInv, CommitInv, LegsInv, CallerInv DEF Next, SwapStep, FlashStep
<1> QED BY <1>1, <1>2 DEF EngineInv

(* The engine keeps its types: in particular the step it resumes from is a *)
(* step of the exchange, the record it is about to write is a record, and  *)
(* no leg writes outside its slot (boot_swap_process).                     *)
THEOREM TypeCorrect == Spec => []TypeOK
<1>1. EngineInv => TypeOK
  BY DEF EngineInv
<1> QED BY <1>1, InitEngine, EngineStep, PTL DEF Spec

-------------------------------------------------------------------------------
(* A copy that reports success has copied.                                 *)

Faithful == Misprogrammed = {}

\* Every step keeps what a finished leg promises, if a copy that reported success has copied.
LEMMA CopyStep == EngineInv /\ CopyInv /\ Faithful /\ [Next]_swap_vars => CopyInv'
<1> SUFFICES ASSUME EngineInv, CopyInv, Faithful, [Next]_swap_vars, pc' = "log"
             PROVE  (LegDest = LegSource)'
  BY DEF CopyInv
<1>1. CASE Leg
  <2>1. step' = step /\ step \in Steps /\ SetLegDest(LegSource)
    BY <1>1 DEF Leg, Faithful, EngineInv, LogInv
  <2>2. SectorOf(step) \in Sectors /\ LegOf(step) \in {0, 1, 2}
    BY <2>1, StepShape
  <2>3. primary \in Slot /\ secondary \in Slot
    BY DEF EngineInv, TypeOK
  <2>4. CASE LegOf(step) = 0
    BY <2>1, <2>2, <2>3, <2>4 DEF SetLegDest, LegSource, LegDest, Slot
  <2>5. CASE LegOf(step) = 1
    BY <2>1, <2>2, <2>3, <2>5 DEF SetLegDest, LegSource, LegDest, Slot
  <2>6. CASE LegOf(step) = 2
    BY <2>1, <2>2, <2>3, <2>6 DEF SetLegDest, LegSource, LegDest, Slot
  <2> QED BY <2>2, <2>4, <2>5, <2>6
<1>2. CASE UNCHANGED <<primary, secondary, scratch, step, pc>>
  BY <1>2 DEF CopyInv, LegSource, LegDest
<1>3. ASSUME NEW outcome, Return(outcome) PROVE FALSE
  BY <1>3 DEF Return
<1>4. CASE BeginEraseLog \/ BeginArm \/ BeginLogWrite \/ BeginComplete \/ BeginSettle
           \/ UNCHANGED swap_vars
  BY <1>2, <1>4 DEF BeginEraseLog, BeginArm, BeginLogWrite, BeginComplete, BeginSettle,
                    BeginCommit, swap_vars, flash, locals
<1>5. CASE EraseLog \/ Arm \/ Complete \/ Settle \/ Fail \/ Crash
  BY <1>3, <1>5 DEF EraseLog, Arm, Complete, Settle, Fail, Crash
<1>6. CASE Scan \/ BeginLeg \/ LogWrite
  BY <1>6 DEF Scan, BeginLeg, Begin, LogWrite, LogWriteThen, OpOf
<1>7. CASE Stage
  BY <1>7 DEF Stage, locals
<1>8. CASE Caller
  BY <1>3, <1>8 DEF Caller, boot_swap_start, boot_swap_process, boot_record_set_image_ok, Call
<1> QED BY <1>1, <1>4, <1>5, <1>6, <1>7, <1>8 DEF Next, SwapStep, FlashStep

(* A reset at any instant finds a record and a log from which the exchange *)
(* resumes without loss, provided a copy that reported success has copied. *)
THEOREM Resumable == ASSUME Faithful PROVE Spec => []ResumeInv
<1>1. Init => CopyInv
  BY DEF Init, CopyInv
<1>2. EngineInv /\ CopyInv => ResumeInv
  BY DEF EngineInv, ResumeInv
<1>3. EngineInv /\ CopyInv /\ [Next]_swap_vars => EngineInv' /\ CopyInv'
  BY EngineStep, CopyStep
<1> QED BY <1>1, <1>2, <1>3, InitEngine, PTL DEF Spec

-------------------------------------------------------------------------------
(* The refinement mapping.                                                 *)

\* Before the first leg is logged a resume would see the slots as they are.
LEMMA UntouchedMapping ==
  ASSUME TypeOK, Untouched
  PROVE  Outgoing = primary /\ Incoming = secondary
<1>1. \A i \in Sectors : ~ Logged(3 * i) /\ ~ Logged(3 * i + 1) /\ ~ Logged(3 * i + 2)
  BY SectorSteps DEF Untouched
<1> QED BY <1>1 DEF TypeOK, Slot, Outgoing, Incoming

\* After the last leg is logged a resume would see the slots exchanged.
LEMMA ExchangedMapping ==
  ASSUME TypeOK, \A s \in Steps : Logged(s)
  PROVE  Outgoing = secondary /\ Incoming = primary
<1>1. \A i \in Sectors : Logged(3 * i) /\ Logged(3 * i + 1) /\ Logged(3 * i + 2)
  BY SectorSteps
<1> QED BY <1>1 DEF TypeOK, Slot, Outgoing, Incoming

\* The running leg writes to a sector no resume would read before the leg is logged.
LEMMA LegMapping ==
  ASSUME EngineInv, NEW d, SetLegDest(d), log' = log, pc = "leg"
  PROVE  Outgoing' = Outgoing /\ Incoming' = Incoming
<1>1. step \in Steps /\ IsCount(step)
  BY DEF EngineInv, LogInv
<1>2. PrefixShaped /\ primary \in Slot /\ secondary \in Slot
  BY DEF EngineInv, LogInv, ControlInv, TypeOK
<1>3. SectorOf(step) \in Sectors /\ LegOf(step) \in {0, 1, 2}
      /\ step = 3 * SectorOf(step) + LegOf(step)
  BY <1>1, StepShape
<1>4. ~ Logged(step)
  BY <1>1 DEF IsCount, Logged
<1>5. \A s \in Steps : s > step => ~ Logged(s)
  BY <1>1, <1>2, <1>4 DEF PrefixShaped
<1>6. \A s \in Steps : s < step => Logged(s)
  BY <1>1 DEF IsCount, Logged
<1>7. \A s : Logged(s)' <=> Logged(s)
  BY DEF Logged
<1>8. CASE LegOf(step) = 0
  <2>1. primary' = primary /\ secondary' = secondary
    BY <1>8 DEF SetLegDest
  <2>2. \A i \in Sectors : Logged(3 * i) => Logged(3 * i + 2)
    <3> SUFFICES ASSUME NEW i \in Sectors, Logged(3 * i) PROVE Logged(3 * i + 2)
      OBVIOUS
    <3>1. 3 * i \in Steps /\ 3 * i + 2 \in Steps
      BY SectorSteps
    <3>2. i \in Int /\ SectorOf(step) \in Int
      BY <1>3 DEF Sectors
    <3>3. 3 * i < step
      BY <1>4, <1>5, <1>1, <3>1 DEF Steps
    <3>4. 3 * i + 2 < step
      BY <1>3, <1>8, <3>2, <3>3
    <3> QED BY <1>6, <3>1, <3>4
  <2> QED BY <1>7, <2>1, <2>2 DEF Outgoing, Incoming
<1>9. CASE LegOf(step) = 1
  <2>1. primary' = primary /\ scratch' = scratch
        /\ \A i \in Sectors : i # SectorOf(step) => secondary'[i] = secondary[i]
    BY <1>2, <1>9 DEF SetLegDest, Slot
  <2>2. ~ Logged(3 * SectorOf(step) + 1) /\ Logged(3 * SectorOf(step))
    <3>1. 3 * SectorOf(step) \in Steps
      BY <1>3, SectorSteps
    <3>2. SectorOf(step) \in Int
      BY <1>3 DEF Sectors
    <3>3. step = 3 * SectorOf(step) + 1 /\ 3 * SectorOf(step) < step
      BY <1>3, <1>9, <3>2
    <3> QED BY <1>4, <1>6, <3>1, <3>3
  <2> QED BY <1>7, <2>1, <2>2 DEF Outgoing, Incoming
<1>10. CASE LegOf(step) = 2
  <2>1. secondary' = secondary /\ scratch' = scratch
        /\ \A i \in Sectors : i # SectorOf(step) => primary'[i] = primary[i]
    BY <1>2, <1>10 DEF SetLegDest, Slot
  <2>2. ~ Logged(3 * SectorOf(step) + 2) /\ Logged(3 * SectorOf(step) + 1)
    <3>1. 3 * SectorOf(step) + 1 \in Steps
      BY <1>3, SectorSteps
    <3>2. SectorOf(step) \in Int
      BY <1>3 DEF Sectors
    <3>3. step = 3 * SectorOf(step) + 2 /\ 3 * SectorOf(step) + 1 < step
      BY <1>3, <1>10, <3>2
    <3> QED BY <1>4, <1>6, <3>1, <3>3
  <2> QED BY <1>7, <2>1, <2>2 DEF Outgoing, Incoming
<1> QED BY <1>3, <1>8, <1>9, <1>10

\* Logging a leg whose destination equals its source moves no image.
LEMMA LogMapping ==
  ASSUME EngineInv, CopyInv, LogWrite
  PROVE  Outgoing' = Outgoing /\ Incoming' = Incoming
<1>1. step \in Steps /\ IsCount(step) /\ LegDest = LegSource
      /\ UNCHANGED <<primary, secondary, scratch>>
      /\ log' = [log EXCEPT ![step] = "entry"]
  BY DEF LogWrite, LogWriteThen, EngineInv, LogInv, CopyInv
<1>2. PrefixShaped
  BY DEF LogWrite, LogWriteThen, EngineInv, LogInv, ControlInv
<1>3. SectorOf(step) \in Sectors /\ LegOf(step) \in {0, 1, 2}
      /\ step = 3 * SectorOf(step) + LegOf(step)
  BY <1>1, StepShape
<1>4. \A s \in Steps : Logged(s)' <=> Logged(s) \/ s = step
  BY <1>1 DEF EngineInv, TypeOK, Logged, Counts
<1>5. ~ Logged(step) /\ \A s \in Steps : s < step => Logged(s)
  BY <1>1 DEF IsCount, Logged
<1>6. \A s \in Steps : s > step => ~ Logged(s)
  BY <1>1, <1>2, <1>5 DEF PrefixShaped
<1>7. \A i \in Sectors :
        /\ 3 * i = step <=> i = SectorOf(step) /\ LegOf(step) = 0
        /\ 3 * i + 1 = step <=> i = SectorOf(step) /\ LegOf(step) = 1
        /\ 3 * i + 2 = step <=> i = SectorOf(step) /\ LegOf(step) = 2
  BY <1>3 DEF Sectors
<1>8. \A i \in Sectors : Outgoing'[i] = Outgoing[i]
  <2> SUFFICES ASSUME NEW i \in Sectors PROVE Outgoing'[i] = Outgoing[i]
    OBVIOUS
  <2>1. 3 * i + 1 \in Steps
    BY SectorSteps
  <2>2. CASE 3 * i + 1 = step
    <3>1. secondary[i] = primary[i]
      BY <1>1, <1>7, <2>2 DEF LegDest, LegSource
    <3> QED BY <1>1, <3>1 DEF Outgoing
  <2>3. CASE 3 * i + 1 # step
    <3>1. Logged(3 * i + 1)' <=> Logged(3 * i + 1)
      BY <1>4, <2>1, <2>3
    <3> QED BY <1>1, <3>1 DEF Outgoing
  <2> QED BY <2>2, <2>3
<1>9. \A i \in Sectors : Incoming'[i] = Incoming[i]
  <2> SUFFICES ASSUME NEW i \in Sectors PROVE Incoming'[i] = Incoming[i]
    OBVIOUS
  <2>1. 3 * i \in Steps /\ 3 * i + 2 \in Steps /\ 3 * i < 3 * i + 2 /\ 3 * i + 2 > 3 * i
    BY SectorSteps DEF Sectors
  <2>2. CASE 3 * i = step
    <3>1. scratch = secondary[i]
      BY <1>1, <1>7, <2>2 DEF LegDest, LegSource
    <3>2. ~ Logged(3 * i) /\ ~ Logged(3 * i + 2) /\ 3 * i + 2 # step
      BY <1>5, <1>6, <2>1, <2>2
    <3>3. Logged(3 * i)' /\ ~ Logged(3 * i + 2)'
      BY <1>4, <2>1, <2>2, <3>2
    <3> QED BY <1>1, <3>1, <3>2, <3>3 DEF Incoming
  <2>3. CASE 3 * i + 2 = step
    <3>1. primary[i] = scratch
      BY <1>1, <1>7, <2>3 DEF LegDest, LegSource
    <3>2. Logged(3 * i) /\ ~ Logged(3 * i + 2)
      BY <1>5, <2>1, <2>3
    <3>3. Logged(3 * i + 2)'
      BY <1>4, <2>1, <2>3
    <3> QED BY <1>1, <3>1, <3>2, <3>3 DEF Incoming
  <2>4. CASE 3 * i # step /\ 3 * i + 2 # step
    <3>1. (Logged(3 * i)' <=> Logged(3 * i)) /\ (Logged(3 * i + 2)' <=> Logged(3 * i + 2))
      BY <1>4, <2>1, <2>4
    <3> QED BY <1>1, <3>1 DEF Incoming
  <2> QED BY <2>2, <2>3, <2>4
<1> QED BY <1>8, <1>9 DEF Outgoing, Incoming

\* The slots as the abstract specification sees them.
Seen == <<IF InFlight THEN Outgoing ELSE primary,
          IF InFlight THEN Incoming ELSE secondary>>

\* A step that changes nothing a resume would see is a stutter of the exchange.
LEMMA SeenStutter ==
  ASSUME InFlight' <=> InFlight, Seen' = Seen
  PROVE  UNCHANGED Exchange!vars
<1>1. InFlight' = InFlight
  BY DEF InFlight, boot_record_swap_in_progress
<1> QED BY <1>1 DEF Exchange!vars, Seen

\* A step that neither moves an image nor touches the record is a stutter.
LEMMA QuietStutter ==
  ASSUME UNCHANGED <<primary, secondary, record>>,
         InFlight => (Outgoing' = Outgoing /\ Incoming' = Incoming)
  PROVE  UNCHANGED Exchange!vars
<1>1. InFlight' <=> InFlight
  BY DEF InFlight
<1> QED BY <1>1, SeenStutter DEF Seen

\* A step that leaves the flash alone is a stutter.
LEMMA FlashStutter ==
  ASSUME UNCHANGED flash
  PROVE  UNCHANGED Exchange!vars
<1>1. Outgoing' = Outgoing /\ Incoming' = Incoming
  BY DEF flash, Outgoing, Incoming, Logged
<1> QED BY <1>1, QuietStutter DEF flash

\* Arming, and losing the record while it is armed again, move nothing.
LEMMA ArmMapping ==
  ASSUME EngineInv, BeginArm \/ Arm
  PROVE  [Exchange!Next]_(Exchange!vars)
<1> USE DEF EngineInv
<1>1. UNCHANGED <<primary, secondary, scratch, log>> /\ pc = "arm" /\ Untouched
      /\ boot_image_ok(secondary)
  BY DEF BeginArm, Arm, BeginCommit, EndCommit, Begin, ControlInv, LogInv
<1>2. Outgoing = primary /\ Incoming = secondary
  BY <1>1, UntouchedMapping
<1>3. Outgoing' = primary /\ Incoming' = secondary
  BY <1>1, <1>2 DEF Outgoing, Incoming, Logged
<1>4. Seen = <<primary, secondary>> /\ Seen' = Seen
  BY <1>1, <1>2, <1>3 DEF Seen
<1>5. CASE InFlight' <=> InFlight
  BY <1>4, <1>5, SeenStutter
<1>6. CASE ~ InFlight /\ InFlight'
  <2>1. secondary \in {slot \in Slot : boot_image_ok(slot)}
    BY <1>1 DEF TypeOK
  <2>2. Exchange!Arm
    BY <1>1, <1>2, <1>3, <1>6, <2>1 DEF Exchange!Arm
  <2> QED BY <2>2 DEF Exchange!Next
<1>7. CASE InFlight /\ ~ InFlight'
  <2>1. Exchange!Forget
    BY <1>1, <1>2, <1>3, <1>7 DEF Exchange!Forget
  <2> QED BY <2>1 DEF Exchange!Next
<1> QED BY <1>5, <1>6, <1>7

\* The record of a finished exchange is what makes it happen.
LEMMA CompleteMapping ==
  ASSUME EngineInv, BeginComplete \/ Complete
  PROVE  [Exchange!Next]_(Exchange!vars)
<1> USE DEF EngineInv
<1>1. UNCHANGED <<primary, secondary, scratch, log>> /\ pc = "complete"
      /\ \A s \in Steps : Logged(s)
  BY DEF BeginComplete, Complete, BeginCommit, EndCommit, Begin, LogInv
<1>2. Outgoing = secondary /\ Incoming = primary
  BY <1>1, ExchangedMapping
<1>3. Outgoing' = Outgoing /\ Incoming' = Incoming
  BY <1>1 DEF Outgoing, Incoming, Logged
<1>4. InFlight' => InFlight
  BY NothingInFlight DEF BeginComplete, Complete, BeginCommit, EndCommit, InFlight, StagedRecordInv
<1>5. CASE InFlight' <=> InFlight
  BY <1>1, <1>3, <1>5, SeenStutter DEF Seen
<1>6. CASE InFlight /\ ~ InFlight'
  <2>1. Exchange!Exchange
    BY <1>1, <1>2, <1>6 DEF Exchange!Exchange
  <2> QED BY <2>1 DEF Exchange!Next
<1> QED BY <1>4, <1>5, <1>6

\* A download is a download.
LEMMA StageMapping ==
  ASSUME Stage
  PROVE  [Exchange!Next]_(Exchange!vars)
<1>1. ~ InFlight /\ ~ InFlight' /\ primary' = primary /\ secondary' \in Slot
  BY ContentsAssumption DEF Stage, InFlight
<1>2. InFlight' = InFlight
  BY DEF Stage, InFlight
<1>3. Exchange!Stage
  BY <1>1, <1>2 DEF Exchange!Stage
<1> QED BY <1>3 DEF Exchange!Next

\* Every step of the engine is a step of the exchange or a stutter.
LEMMA StepMapping ==
  EngineInv /\ CopyInv /\ Faithful /\ [Next]_swap_vars => [Exchange!Next]_(Exchange!vars)
<1> SUFFICES ASSUME EngineInv, CopyInv, Faithful, [Next]_swap_vars
             PROVE  [Exchange!Next]_(Exchange!vars)
  OBVIOUS
<1>1. CASE BeginEraseLog \/ EraseLog
  <2>1. UNCHANGED <<primary, secondary, record>> /\ pc = "erase_log"
    BY <1>1 DEF BeginEraseLog, EraseLog, Begin
  <2>2. InFlight => Untouched /\ Untouched'
    <3>1. \A s \in Steps : Logged(s)' => Logged(s)
      BY <1>1 DEF BeginEraseLog, EraseLog, Erased, Logged, Counts, EngineInv, TypeOK
    <3> QED BY <2>1, <3>1 DEF EngineInv, ControlInv, Untouched
  <2>3. InFlight => Outgoing = primary /\ Incoming = secondary
    BY <2>2, UntouchedMapping DEF EngineInv
  <2>4. InFlight => (Outgoing = primary /\ Incoming = secondary)'
    <3>1. \A i \in Sectors : 3 * i \in Steps /\ 3 * i + 1 \in Steps /\ 3 * i + 2 \in Steps
      BY SectorSteps
    <3>2. primary' \in Slot /\ secondary' \in Slot
      BY <2>1 DEF EngineInv, TypeOK
    <3> QED BY <2>2, <3>1, <3>2 DEF Untouched, Slot, Outgoing, Incoming
  <2> QED BY <2>1, <2>3, <2>4, QuietStutter
<1>2. CASE BeginArm \/ Arm
  BY <1>2, ArmMapping
<1>3. CASE BeginComplete \/ Complete
  BY <1>3, CompleteMapping
<1>4. CASE BeginLeg \/ Leg
  <2>1. PICK d : SetLegDest(d)
    BY <1>4 DEF BeginLeg, Leg
  <2>2. pc = "leg" /\ InFlight /\ record' = record /\ log' = log
    BY <1>4 DEF BeginLeg, Leg, Begin, EngineInv, ControlInv
  <2>3. Outgoing' = Outgoing /\ Incoming' = Incoming
    BY <2>1, <2>2, LegMapping
  <2> QED BY <2>2, <2>3, SeenStutter DEF Seen, InFlight
<1>5. CASE BeginLogWrite
  <2>1. step \in Steps /\ ~ Counts(log[step])
    BY <1>5 DEF BeginLogWrite, Begin, EngineInv, LogInv, IsCount
  <2>2. \A s : s \in Steps => (Logged(s)' <=> Logged(s))
    BY <1>5, <2>1 DEF BeginLogWrite, Logged, Counts, EngineInv, TypeOK
  <2>3. UNCHANGED <<primary, secondary, scratch, record>>
    BY <1>5 DEF BeginLogWrite
  <2>4. Outgoing' = Outgoing /\ Incoming' = Incoming
    BY <2>2, <2>3, SectorSteps DEF Outgoing, Incoming
  <2> QED BY <2>3, <2>4, QuietStutter
<1>6. CASE LogWrite
  <2>1. UNCHANGED <<primary, secondary, record>>
    BY <1>6 DEF LogWrite, LogWriteThen
  <2> QED BY <1>6, <2>1, LogMapping, QuietStutter
<1>7. CASE BeginSettle \/ Settle
  <2>1. ~ InFlight /\ ~ InFlight' /\ UNCHANGED <<primary, secondary>>
    BY <1>7, NothingInFlight
    DEF BeginSettle, Settle, BeginCommit, EndCommit, Begin, InFlight,
        EngineInv, ControlInv, StagedRecordInv
  <2> QED BY <2>1, SeenStutter DEF Seen
<1>8. CASE Scan \/ Fail \/ Crash \/ Caller \/ UNCHANGED swap_vars
  <2>1. UNCHANGED flash
    BY <1>8 DEF Scan, Fail, Crash, Caller, boot_swap_start, boot_swap_process,
                boot_record_set_image_ok, swap_vars
  <2> QED BY <2>1, FlashStutter
<1>9. CASE Stage
  BY <1>9, StageMapping
<1> QED BY <1>1, <1>2, <1>3, <1>4, <1>5, <1>6, <1>7, <1>8, <1>9 DEF Next, SwapStep, FlashStep

(* The engine implements SlotExchange: through any number of resets, torn  *)
(* record writes, driver errors and repeated legs, each armed swap is one  *)
(* exchange of the whole slots, or none (boot_swap_process), provided a    *)
(* copy that reported success has copied.                                  *)
THEOREM ImplementsExchange == ASSUME Faithful PROVE Spec => ExchangeSpec
<1>1. Init => Exchange!Init
  <2> SUFFICES ASSUME Init PROVE Exchange!Init
    OBVIOUS
  <2>1. ~ InFlight /\ primary \in Slot /\ secondary \in Slot
    BY NothingInFlight, ContentsAssumption DEF Init, InFlight
  <2> QED BY <2>1 DEF Exchange!Init
<1>2. Init => CopyInv
  BY DEF Init, CopyInv
<1>3. EngineInv /\ CopyInv /\ [Next]_swap_vars => EngineInv' /\ CopyInv'
  BY EngineStep, CopyStep
<1>4. EngineInv /\ CopyInv /\ [Next]_swap_vars => [Exchange!Next]_(Exchange!vars)
  BY StepMapping
<1> QED BY <1>1, <1>2, <1>3, <1>4, InitEngine, PTL DEF Spec, ExchangeSpec, Exchange!Spec

-------------------------------------------------------------------------------
(* The fingerprint, from the arming of a swap to its completion.           *)

\* While a swap is armed, the fingerprint on the stack is that of what is staged.
ArmedCrcInv ==
  /\ pc \in {"erase_log", "arm"} => crc_staged = boot_crc32(secondary)
  /\ pc = "arm" /\ busy =>
        /\ InFlight => Untouched
        /\ g_staged_record.crc32_staged = crc_staged

\* While it runs, and in the record that ends it, it is the one in the record.
VerifyInv ==
  /\ pc \in {"leg", "log"} \/ (pc = "complete" /\ ~ busy) => crc_staged = record.crc32_staged
  /\ pc = "complete" /\ busy =>
        /\ g_staged_record # NoRecord /\ g_staged_record.copy_done
        /\ g_staged_record.crc32_staged = crc_staged

\* The three records that are committed keep or set the fingerprint.
LEMMA CommittedCrc ==
  ASSUME NEW r \in Record, NEW type \in BootSwapTypes, NEW crc \in Crc32
  PROVE  /\ Completed(r, type).crc32_staged = r.crc32_staged
         /\ Completed(r, type).copy_done = TRUE
<1>1. boot_record_load(r) = r
  BY NoRecordAssumption DEF boot_record_load
<1> QED BY <1>1 DEF Completed, Record

\* A request sets the fingerprint, whatever the record was.
LEMMA RequestedCrc ==
  ASSUME NEW r \in Record \cup {NoRecord}, NEW type \in BootSwapTypes, NEW crc \in Crc32
  PROVE  Requested(r, type, crc).crc32_staged = crc
<1>1. boot_record_load(r) \in Record
  BY CrcType DEF boot_record_load, boot_record_defaults, Record, BootSwapTypes
<1> QED BY <1>1 DEF Requested, Record

\* A return forgets the fingerprint.
LEMMA ReturnVerify ==
  ASSUME NEW outcome, Return(outcome)
  PROVE  (ArmedCrcInv /\ VerifyInv)'
  BY DEF Return, ArmedCrcInv, VerifyInv

\* Every step keeps both.
LEMMA VerifyStep ==
  EngineInv /\ ArmedCrcInv /\ VerifyInv /\ [Next]_swap_vars => ArmedCrcInv' /\ VerifyInv'
<1> SUFFICES ASSUME EngineInv, ArmedCrcInv, VerifyInv, [Next]_swap_vars
             PROVE  (ArmedCrcInv /\ VerifyInv)'
  OBVIOUS
<1> USE DEF EngineInv
<1>1. CASE UNCHANGED swap_vars
  BY <1>1 DEF swap_vars, flash, locals, ArmedCrcInv, VerifyInv, InFlight, Untouched, Logged
<1>2. CASE BeginEraseLog
  BY <1>2 DEF BeginEraseLog, Begin, ArmedCrcInv, VerifyInv
<1>3. CASE EraseLog
  <2>1. CASE Return(ErrorOf(fn))
    BY <2>1, ReturnVerify
  <2>2. CASE pc' = "arm" /\ busy' = FALSE /\ UNCHANGED crc_staged
    BY <1>3, <2>2 DEF EraseLog, ArmedCrcInv, VerifyInv
  <2> QED BY <1>3, <2>1, <2>2 DEF EraseLog
<1>4. CASE BeginArm
  <2>1. /\ pc = "arm" /\ pc' = "arm" /\ UNCHANGED <<secondary, log, crc_staged>>
        /\ g_staged_record' = Requested(record, swap_type, crc_staged)
        /\ record' \in {record, NoRecord}
    BY <1>4 DEF BeginArm, BeginCommit, Begin
  <2>2. g_staged_record'.crc32_staged = crc_staged
    BY <2>1, RequestedCrc DEF TypeOK
  <2>3. InFlight' => Untouched'
    BY <2>1, NothingInFlight DEF ControlInv, InFlight, Untouched, Logged
  <2> QED BY <2>1, <2>2, <2>3 DEF ArmedCrcInv, VerifyInv
<1>5. CASE Arm
  <2>1. CASE Return("SUCCESS")
    BY <2>1, ReturnVerify
  <2>2. CASE pc' = "scan"
    BY <2>2 DEF ArmedCrcInv, VerifyInv
  <2> QED BY <1>5, <2>1, <2>2 DEF Arm
<1>6. CASE Scan
  <2>1. crc_staged' = record'.crc32_staged /\ busy' = busy /\ ~ busy /\ pc' \in {"leg", "complete"}
    BY <1>6 DEF Scan, OpOf, flash, ControlInv
  <2> QED BY <2>1 DEF ArmedCrcInv, VerifyInv
<1>7. CASE BeginLeg \/ Leg \/ BeginLogWrite \/ LogWrite
  <2>1. /\ pc \in {"leg", "log"} /\ UNCHANGED <<record, crc_staged>>
        /\ pc' \in {"leg", "log"} \/ (pc' = "complete" /\ ~ busy')
    BY <1>7 DEF BeginLeg, Leg, BeginLogWrite, LogWrite, LogWriteThen, OpOf, Begin
  <2> QED BY <2>1 DEF ArmedCrcInv, VerifyInv
<1>8. CASE BeginComplete
  <2>1. /\ pc = "complete" /\ pc' = "complete" /\ ~ busy /\ busy' /\ UNCHANGED crc_staged
        /\ g_staged_record' = Completed(record, swap_type)
    BY <1>8 DEF BeginComplete, BeginCommit, Begin
  <2>2. record \in Record
    BY <2>1 DEF TypeOK, ControlInv, InFlight, boot_record_swap_in_progress
  <2>3. g_staged_record'.crc32_staged = crc_staged /\ g_staged_record'.copy_done
    BY <2>1, <2>2, CommittedCrc, CrcType DEF TypeOK, VerifyInv
  <2>4. g_staged_record' # NoRecord
    BY <2>1, <2>2, RecordTypes, CrcType, NoRecordAssumption DEF TypeOK
  <2> QED BY <2>1, <2>3, <2>4 DEF ArmedCrcInv, VerifyInv
<1>9. CASE Complete \/ Settle \/ Fail \/ Crash
  <2>1. PICK outcome : Return(outcome)
    BY <1>9 DEF Complete, Settle, Fail, Crash
  <2> QED BY <2>1, ReturnVerify
<1>10. CASE BeginSettle
  BY <1>10 DEF BeginSettle, BeginCommit, Begin, ArmedCrcInv, VerifyInv
<1>11. CASE Stage
  BY <1>11 DEF Stage, locals, ArmedCrcInv, VerifyInv
<1>12. CASE Caller
  <2>1. UNCHANGED secondary /\ pc = "idle"
    BY <1>12 DEF Caller, boot_swap_start, boot_swap_process, boot_record_set_image_ok, flash, Call
  <2>2. ~ busy
    BY <2>1 DEF ControlInv
  <2>3. ASSUME NEW outcome, Return(outcome) PROVE (ArmedCrcInv /\ VerifyInv)'
    BY <2>3, ReturnVerify
  <2>4. ASSUME NEW f, NEW type, Call("erase_log", f, type, boot_crc32(secondary))
        PROVE  (ArmedCrcInv /\ VerifyInv)'
    BY <2>1, <2>4 DEF Call, ArmedCrcInv, VerifyInv
  <2>5. ASSUME NEW op \in {"scan", "settle"}, NEW f, NEW type, NEW crc, Call(op, f, type, crc)
        PROVE  (ArmedCrcInv /\ VerifyInv)'
    BY <2>5 DEF Call, ArmedCrcInv, VerifyInv
  <2> QED BY <1>12, <2>3, <2>4, <2>5
          DEF Caller, boot_swap_start, boot_swap_process, boot_record_set_image_ok
<1> QED
  BY <1>1, <1>2, <1>3, <1>4, <1>5, <1>6, <1>7, <1>8, <1>9, <1>10, <1>11, <1>12
  DEF Next, SwapStep, FlashStep

\* On a board fresh from the factory nothing is armed and nothing was reported.
LEMMA VerifyInit == Init => ArmedCrcInv /\ VerifyInv /\ VerifiedArrival
  BY DEF Init, ArmedCrcInv, VerifyInv, VerifiedArrival

-------------------------------------------------------------------------------

\* Only a completed exchange reports an arrival, and only of what it compared.
LEMMA ArrivalStep ==
  EngineInv /\ VerifyInv /\ VerifiedArrival /\ [Next]_swap_vars => VerifiedArrival'
<1> SUFFICES ASSUME EngineInv, VerifyInv, VerifiedArrival, [Next]_swap_vars,
                    pc' = "idle", result' \in {"DONE", "REVERTED"}
             PROVE  /\ record' # NoRecord /\ record'.copy_done
                    /\ record'.crc32_staged \in {boot_crc32(primary'), BOOT_CRC32_UNSET}
  BY DEF VerifiedArrival
<1>1. CASE Complete
  <2>1. /\ pc = "complete" /\ busy /\ CrcOk
        /\ record' = g_staged_record /\ primary' = primary
    BY <1>1 DEF Complete, EndCommit, Return
  <2>2. /\ record' # NoRecord /\ record'.copy_done /\ record'.crc32_staged = crc_staged
    BY <2>1 DEF VerifyInv
  <2> QED BY <2>1, <2>2 DEF CrcOk
<1>2. CASE Stage \/ UNCHANGED swap_vars
  <2>1. UNCHANGED <<primary, record, pc, result>>
    BY <1>2 DEF Stage, swap_vars, flash, locals
  <2> QED BY <2>1 DEF VerifiedArrival
<1>3. CASE Caller
  BY <1>3 DEF Caller, boot_swap_start, boot_swap_process, boot_record_set_image_ok, Call, Return
<1>4. CASE Fail \/ Crash \/ Settle \/ Arm \/ EraseLog
  BY <1>4 DEF Fail, Crash, Settle, Arm, EraseLog, Return, ErrorOf
<1>5. CASE BeginEraseLog \/ BeginArm \/ BeginComplete \/ BeginSettle \/ BeginLeg \/ BeginLogWrite
  BY <1>5 DEF BeginEraseLog, BeginArm, BeginComplete, BeginSettle, BeginLeg, BeginLogWrite,
              BeginCommit, Begin
<1>6. CASE Scan \/ Leg \/ LogWrite
  BY <1>6 DEF Scan, Leg, LogWrite, LogWriteThen, OpOf
<1> QED BY <1>1, <1>2, <1>3, <1>4, <1>5, <1>6 DEF Next, SwapStep, FlashStep

(* A swap reported as done or reverted has put into the primary slot an    *)
(* image with the fingerprint in the record, even if copies that reported  *)
(* success have not copied (boot_swap_process, the comparison after the    *)
(* last leg).                                                              *)
THEOREM Verified == Spec => []VerifiedArrival
  BY InitEngine, EngineStep, VerifyInit, VerifyStep, ArrivalStep, PTL DEF Spec

(* The fingerprint in the record is that of the image that was staged when *)
(* the swap was armed: no reset, resumed leg or repeated request replaces  *)
(* it before the exchange is over (boot_record_request_swap).              *)
THEOREM FingerprintKept == Spec => FingerprintOfStaged
<1>1. EngineInv /\ ArmedCrcInv /\ [Next]_swap_vars =>
        [InFlight' =>
           record'.crc32_staged = IF InFlight /\ ~ Untouched THEN record.crc32_staged
                                                            ELSE boot_crc32(secondary)]_record
  <2> SUFFICES ASSUME EngineInv, ArmedCrcInv, [Next]_swap_vars, InFlight', record' # record
               PROVE  /\ InFlight => Untouched
                      /\ record'.crc32_staged = boot_crc32(secondary)
    OBVIOUS
  <2>1. CASE Arm
    BY <2>1 DEF Arm, EndCommit, ArmedCrcInv
  <2>2. CASE BeginArm \/ BeginComplete \/ BeginSettle
    BY <2>2, NothingInFlight DEF BeginArm, BeginComplete, BeginSettle, BeginCommit, InFlight
  <2>3. CASE Complete \/ Settle
    BY <2>3 DEF Complete, Settle, EndCommit, EngineInv, StagedRecordInv, InFlight
  <2>4. CASE BeginEraseLog \/ EraseLog \/ BeginLeg \/ Leg \/ BeginLogWrite \/ LogWrite
    BY <2>4 DEF BeginEraseLog, EraseLog, BeginLeg, Leg, BeginLogWrite, LogWrite, LogWriteThen
  <2>5. CASE Scan \/ Fail \/ Crash \/ Caller \/ Stage \/ UNCHANGED swap_vars
    BY <2>5 DEF Scan, Fail, Crash, Caller, boot_swap_start, boot_swap_process,
                boot_record_set_image_ok, Stage, swap_vars, flash
  <2> QED BY <2>1, <2>2, <2>3, <2>4, <2>5 DEF Next, SwapStep, FlashStep
<1> QED
  BY <1>1, InitEngine, EngineStep, VerifyInit, VerifyStep, PTL DEF Spec, FingerprintOfStaged

===============================================================================
