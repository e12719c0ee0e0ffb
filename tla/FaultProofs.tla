------------------------------ MODULE FaultProofs ------------------------------
(***************************************************************************)
(* Proofs about the boot sequence when anything may fail: the flash driver *)
(* reports errors, copies that report success have not copied, record      *)
(* writes tear, and resets come at any instant.  The recovery may then arm *)
(* a swap that has moved sectors, so nothing of the exchange is left to    *)
(* rely on but the fingerprint, and the calls that are made.               *)
(***************************************************************************)
EXTENDS BootloaderProofs, FaultBoot

\* What a CRC32 tells of a slot: whether it looks bootable, and that it has been measured.
CrcTells ==
  /\ \A s, t \in Slot : boot_image_ok(s) /\ boot_crc32(s) = boot_crc32(t) => boot_image_ok(t)
  /\ \A s \in Slot : boot_crc32(s) # BOOT_CRC32_UNSET

Fingerprints == {boot_crc32(slot) : slot \in {s \in Slot : boot_image_ok(s)}}

\* A swap that is over has put the image it was armed for into the primary slot.
Arrived ==
  /\ record # NoRecord /\ ~ InFlight
  /\ record.crc32_staged = boot_crc32(primary)
  /\ boot_image_ok(primary)

-------------------------------------------------------------------------------
(* The engine, called by a boot sequence that does not keep its rule.      *)

OpInv ==
  /\ pc \in {"idle", "scan"} => ~ busy
  /\ pc \in {"erase_log", "arm"} => boot_image_ok(secondary) /\ swap_type # "NONE"
  /\ pc \in {"scan", "leg", "log"} \/ (pc = "complete" /\ ~ busy) => InFlight
  /\ pc \in {"leg", "log"} => step \in Steps

StagedInv ==
  busy =>
    /\ pc = "arm" =>
          /\ boot_record_swap_in_progress(g_staged_record)
          /\ g_staged_record.crc32_staged = crc_staged
          /\ g_staged_record.swap_type = swap_type
    /\ pc \in {"complete", "settle"} =>
          /\ g_staged_record # NoRecord
          /\ ~ boot_record_swap_in_progress(g_staged_record)
          /\ pc = "complete" => g_staged_record.copy_done /\ g_staged_record.crc32_staged = crc_staged
          /\ pc = "settle" \/ swap_type # "TEST" => ~ boot_record_revert_pending(g_staged_record)

CrcInv ==
  /\ InFlight => record.crc32_staged \in Fingerprints
  /\ pc \in {"erase_log", "arm"} => crc_staged = boot_crc32(secondary)
  /\ pc \in {"leg", "log"} \/ (pc = "complete" /\ ~ busy) => crc_staged = record.crc32_staged
  /\ pc = "complete" /\ busy => crc_staged \in Fingerprints

\* A swap is armed on a log that has been proved empty.
BlankInv == pc = "arm" => Untouched

ArrivalInv == pc = "idle" /\ result \in {"DONE", "REVERTED"} => Arrived

LooseInv == TypeOK /\ OpInv /\ StagedInv /\ CrcInv /\ BlankInv

-------------------------------------------------------------------------------
(* The engine's part.                                                      *)

LooseCall ==
  \/ \E type \in {"PERM", "TEST"} : boot_swap_start(type)
  \/ boot_swap_process
  \/ boot_record_revert_pending(record) /\ boot_record_set_image_ok

LooseStage ==
  /\ pc = "idle" /\ secondary' \in Images
  /\ UNCHANGED <<primary, scratch, log, record, locals>>

LooseNext == SwapStep \/ Crash \/ LooseCall \/ LooseStage

\* A fingerprint is that of something bootable, and none is the value that means "never measured".
LEMMA FingerprintTells ==
  ASSUME CrcTells, NEW crc \in Fingerprints
  PROVE  /\ crc # BOOT_CRC32_UNSET
         /\ \A s \in Slot : boot_crc32(s) = crc => boot_image_ok(s)
<1>1. PICK t \in Slot : boot_image_ok(t) /\ crc = boot_crc32(t)
  BY DEF Fingerprints
<1> QED BY <1>1 DEF CrcTells

\* What the records that are written say of the type of the swap, and of a trial.
LEMMA RecordFlags ==
  ASSUME NEW r \in Record \cup {NoRecord}, NEW type \in BootSwapTypes, NEW crc \in Crc32
  PROVE  /\ Requested(r, type, crc).swap_type = type
         /\ type # "TEST" => ~ boot_record_revert_pending(Completed(r, type))
         /\ ~ boot_record_revert_pending(Confirmed(r))
<1>1. boot_record_load(r) \in Record
  BY CrcType DEF boot_record_load, boot_record_defaults, Record, BootSwapTypes
<1>2. Requested(r, type, crc).swap_type = type
  BY <1>1 DEF Requested, Record
<1>3. type # "TEST" => Completed(r, type).image_ok = TRUE
  BY <1>1 DEF Completed, Record
<1>4. Confirmed(r).swap_type = "NONE"
  BY <1>1 DEF Confirmed, Record
<1> QED BY <1>2, <1>3, <1>4 DEF boot_record_revert_pending

\* The types do not depend on the caller's rule.
LEMMA LooseType ==
  ASSUME LooseInv, [LooseNext]_swap_vars
  PROVE  TypeOK'
<1> USE DEF LooseInv
<1>1. CASE [Next]_swap_vars
  BY <1>1, TypeStep DEF OpInv
<1>2. CASE LooseStage
  BY <1>2, ContentsAssumption DEF LooseStage, TypeOK, locals
<1>3. CASE \E type \in {"PERM", "TEST"} : boot_swap_start(type)
  <2>1. PICK type \in {"PERM", "TEST"} : boot_swap_start(type)
    BY <1>3
  <2>2. CASE Return("INVALID_DATA")
    BY <2>1, <2>2, ReturnType DEF boot_swap_start, TypeOK, flash, Results
  <2>3. CASE Call("erase_log", "start", type, boot_crc32(secondary))
    BY <2>1, <2>3, CrcType DEF boot_swap_start, Call, TypeOK, flash, Results, PCs, BootSwapTypes
  <2> QED BY <2>1, <2>2, <2>3 DEF boot_swap_start
<1> QED BY <1>1, <1>2, <1>3 DEF LooseNext, LooseCall, Next, Caller

\* A return with nothing written leaves what the record says.
LEMMA ReturnLoose ==
  ASSUME LooseInv, NEW outcome, Return(outcome), UNCHANGED record
  PROVE  (OpInv /\ StagedInv /\ CrcInv)'
  BY DEF LooseInv, Return, OpInv, StagedInv, CrcInv, InFlight

\* Arming, with the erase of the log.
LEMMA ArmLoose ==
  ASSUME LooseInv, BeginEraseLog \/ EraseLog \/ BeginArm \/ Arm
  PROVE  (OpInv /\ StagedInv /\ CrcInv)'
<1> USE DEF LooseInv
<1>1. CASE BeginEraseLog
  BY <1>1 DEF BeginEraseLog, Begin, OpInv, StagedInv, CrcInv, InFlight, boot_image_ok
<1>2. CASE EraseLog
  <2>1. CASE Return(ErrorOf(fn))
    BY <1>2, <2>1, ReturnLoose DEF EraseLog, ErrorOf
  <2>2. CASE pc' = "arm" /\ busy' = FALSE /\ UNCHANGED <<swap_type, crc_staged>>
    BY <1>2, <2>2 DEF EraseLog, OpInv, StagedInv, CrcInv, InFlight, boot_image_ok
  <2> QED BY <1>2, <2>1, <2>2 DEF EraseLog
<1>3. CASE BeginArm
  <2>1. /\ pc = "arm" /\ pc' = "arm" /\ UNCHANGED <<secondary, swap_type, crc_staged, step>>
        /\ g_staged_record' = Requested(record, swap_type, crc_staged)
        /\ record' \in {record, NoRecord}
    BY <1>3 DEF BeginArm, BeginCommit, Begin
  <2>2. boot_record_swap_in_progress(g_staged_record')
    BY <2>1, RecordVerdicts DEF OpInv, TypeOK
  <2>3. g_staged_record'.crc32_staged = crc_staged /\ g_staged_record'.swap_type = swap_type
    BY <2>1, RequestedCrc, RecordFlags DEF TypeOK
  <2>4. InFlight' => record' = record /\ InFlight
    BY <2>1, NothingInFlight DEF InFlight
  <2> QED BY <2>1, <2>2, <2>3, <2>4 DEF OpInv, StagedInv, CrcInv, boot_image_ok
<1>4. CASE Arm
  <2>1. /\ pc = "arm" /\ busy /\ record' = g_staged_record /\ primary' = primary
    BY <1>4 DEF Arm, EndCommit
  <2>2. InFlight' /\ record'.crc32_staged = boot_crc32(secondary)
    BY <2>1 DEF StagedInv, CrcInv, InFlight
  <2>3. record'.crc32_staged \in Fingerprints
    BY <2>1, <2>2 DEF OpInv, Fingerprints, TypeOK
  <2>4. CASE Return("SUCCESS")
    BY <2>3, <2>4 DEF Return, OpInv, StagedInv, CrcInv
  <2>5. CASE pc' = "scan" /\ busy' = FALSE
    BY <2>2, <2>3, <2>5 DEF OpInv, StagedInv, CrcInv
  <2> QED BY <1>4, <2>4, <2>5 DEF Arm
<1> QED BY <1>1, <1>2, <1>3, <1>4

\* The legs of the exchange.
LEMMA LegsLoose ==
  ASSUME LooseInv, Scan \/ BeginLeg \/ Leg \/ BeginLogWrite \/ LogWrite
  PROVE  (OpInv /\ StagedInv /\ CrcInv)'
<1> USE DEF LooseInv
<1>1. InFlight /\ record' = record
  BY DEF Scan, BeginLeg, Leg, BeginLogWrite, LogWrite, LogWriteThen, Begin, flash, OpInv
<1>2. CASE Scan
  <2>1. /\ crc_staged' = record'.crc32_staged /\ ~ busy' /\ pc' \in {"leg", "complete"}
        /\ step' \in 0 .. BOOT_SWAP_STEP_COUNT /\ pc' = OpOf(step')
    BY <1>1, <1>2 DEF Scan, OpOf, OpInv
  <2>2. pc' = "leg" => step' \in Steps
    BY <2>1, StepCountNat DEF OpOf, Steps
  <2> QED BY <1>1, <2>1, <2>2 DEF OpInv, StagedInv, CrcInv, InFlight
<1>3. CASE BeginLeg \/ Leg \/ BeginLogWrite
  <2>1. /\ pc \in {"leg", "log"} /\ pc' \in {"leg", "log"} /\ UNCHANGED <<step, crc_staged>>
    BY <1>3 DEF BeginLeg, Leg, BeginLogWrite, Begin
  <2> QED BY <1>1, <2>1 DEF OpInv, StagedInv, CrcInv, InFlight
<1>4. CASE LogWrite
  <2>1. /\ pc = "log" /\ step' = step + 1 /\ pc' = OpOf(step') /\ busy' = FALSE /\ UNCHANGED crc_staged
    BY <1>4 DEF LogWrite, LogWriteThen
  <2>2. pc' = "leg" => step' \in Steps
    BY <2>1, StepCountNat DEF OpInv, OpOf, Steps
  <2>3. pc' \in {"leg", "complete"}
    BY <2>1 DEF OpOf
  <2> QED BY <1>1, <2>1, <2>2, <2>3 DEF OpInv, StagedInv, CrcInv, InFlight
<1> QED BY <1>2, <1>3, <1>4

\* A return after a record has been written that says no swap is in flight.
LEMMA SettledLoose ==
  ASSUME NEW outcome, Return(outcome), ~ InFlight'
  PROVE  (OpInv /\ StagedInv /\ CrcInv)'
  BY DEF Return, OpInv, StagedInv, CrcInv

\* The end of the exchange.
LEMMA EndLoose ==
  ASSUME LooseInv, BeginComplete \/ Complete \/ BeginSettle \/ Settle
  PROVE  (OpInv /\ StagedInv /\ CrcInv)'
<1> USE DEF LooseInv
<1>1. CASE BeginComplete
  <2>1. /\ pc = "complete" /\ pc' = "complete" /\ ~ busy /\ busy' /\ UNCHANGED <<crc_staged, swap_type>>
        /\ g_staged_record' = Completed(record, swap_type)
        /\ record' \in {record, NoRecord}
    BY <1>1 DEF BeginComplete, BeginCommit, Begin
  <2>2. record \in Record /\ crc_staged \in Fingerprints
    BY <2>1 DEF TypeOK, OpInv, CrcInv, InFlight, boot_record_swap_in_progress
  <2>3. g_staged_record'.crc32_staged = crc_staged /\ g_staged_record'.copy_done
    BY <2>1, <2>2, CommittedCrc, CrcType DEF TypeOK, CrcInv
  <2>4. /\ g_staged_record' # NoRecord
        /\ ~ boot_record_swap_in_progress(g_staged_record')
        /\ swap_type # "TEST" => ~ boot_record_revert_pending(g_staged_record')
    BY <2>1, <2>2, RecordTypes, RecordVerdicts, RecordFlags, CrcType, NoRecordAssumption DEF TypeOK
  <2>5. InFlight' => record' = record
    BY <2>1, NothingInFlight DEF InFlight
  <2> QED BY <2>1, <2>2, <2>3, <2>4, <2>5 DEF OpInv, StagedInv, CrcInv, InFlight
<1>2. CASE Complete \/ Settle
  <2>1. pc \in {"complete", "settle"} /\ busy /\ record' = g_staged_record
    BY <1>2 DEF Complete, Settle, EndCommit
  <2>2. ~ InFlight'
    BY <2>1 DEF StagedInv, InFlight
  <2>3. PICK outcome : Return(outcome)
    BY <1>2 DEF Complete, Settle
  <2> QED BY <2>2, <2>3, SettledLoose
<1>3. CASE BeginSettle
  <2>1. /\ pc = "settle" /\ pc' = "settle" /\ g_staged_record' = Confirmed(record)
        /\ record' \in {record, NoRecord}
    BY <1>3 DEF BeginSettle, BeginCommit, Begin
  <2>2. /\ g_staged_record' # NoRecord
        /\ ~ boot_record_swap_in_progress(g_staged_record')
        /\ ~ boot_record_revert_pending(g_staged_record')
    BY <2>1, RecordTypes, RecordVerdicts, RecordFlags, CrcType, NoRecordAssumption DEF TypeOK
  <2>3. InFlight' => record' = record
    BY <2>1, NothingInFlight DEF InFlight
  <2> QED BY <2>1, <2>2, <2>3 DEF OpInv, StagedInv, CrcInv, InFlight
<1> QED BY <1>1, <1>2, <1>3

\* Calls, errors, resets and downloads.
LEMMA CallLoose ==
  ASSUME LooseInv, Fail \/ Crash \/ LooseCall \/ LooseStage \/ UNCHANGED swap_vars
  PROVE  (OpInv /\ StagedInv /\ CrcInv)'
<1> USE DEF LooseInv
<1>1. CASE Fail \/ Crash
  <2>1. PICK outcome : Return(outcome)
    BY <1>1 DEF Fail, Crash
  <2> QED BY <1>1, <2>1, ReturnLoose DEF Fail, Crash, flash
<1>2. CASE LooseCall
  <2>1. pc = "idle" /\ ~ busy /\ UNCHANGED flash
    BY <1>2 DEF LooseCall, boot_swap_start, boot_swap_process, boot_record_set_image_ok, Call, OpInv
  <2>2. ASSUME NEW outcome, Return(outcome)
        PROVE  (OpInv /\ StagedInv /\ CrcInv)'
    BY <2>1, <2>2, ReturnLoose DEF flash
  <2>3. ASSUME boot_image_ok(secondary), NEW f, NEW type \in {"PERM", "TEST", "REVERT"},
               Call("erase_log", f, type, boot_crc32(secondary))
        PROVE  (OpInv /\ StagedInv /\ CrcInv)'
    BY <2>1, <2>3 DEF Call, OpInv, StagedInv, CrcInv, flash, InFlight, boot_image_ok
  <2>4. ASSUME NEW f, NEW type, NEW crc, Call("settle", f, type, crc)
        PROVE  (OpInv /\ StagedInv /\ CrcInv)'
    BY <2>1, <2>4 DEF Call, OpInv, StagedInv, CrcInv, flash, InFlight
  <2>5. ASSUME InFlight, NEW f, NEW type, NEW crc, Call("scan", f, type, crc)
        PROVE  (OpInv /\ StagedInv /\ CrcInv)'
    BY <2>1, <2>5 DEF Call, OpInv, StagedInv, CrcInv, flash, InFlight
  <2>6. ASSUME NEW type \in {"PERM", "TEST"}, boot_swap_start(type)
        PROVE  (OpInv /\ StagedInv /\ CrcInv)'
    BY <2>2, <2>3, <2>6 DEF boot_swap_start
  <2>7. CASE boot_swap_process
    BY <2>2, <2>3, <2>4, <2>5, <2>7 DEF boot_swap_process
  <2>8. CASE boot_record_set_image_ok
    BY <2>4, <2>8 DEF boot_record_set_image_ok
  <2> QED BY <1>2, <2>6, <2>7, <2>8 DEF LooseCall
<1>3. CASE LooseStage
  BY <1>3 DEF LooseStage, locals, OpInv, StagedInv, CrcInv, InFlight, boot_image_ok
<1>4. CASE UNCHANGED swap_vars
  BY <1>4 DEF swap_vars, flash, locals, OpInv, StagedInv, CrcInv, InFlight, boot_image_ok
<1> QED BY <1>1, <1>2, <1>3, <1>4

\* Where the log is blank nothing is logged, and until the arming is over it is not written to.
LEMMA BlankStep ==
  ASSUME LooseInv, [LooseNext]_swap_vars
  PROVE  BlankInv'
<1> SUFFICES ASSUME pc' = "arm" PROVE Untouched'
  BY DEF BlankInv
<1>1. CASE EraseLog
  BY <1>1 DEF EraseLog, Return, boot_flash_df_blank, Untouched, Logged, Counts
<1>2. CASE ~ EraseLog
  <2>1. pc = "arm" /\ log' = log
    BY <1>2 DEF LooseNext, LooseCall, LooseStage, SwapStep, FlashStep, Fail, Crash, Return, Call,
                boot_swap_start, boot_swap_process, boot_record_set_image_ok, BeginEraseLog, BeginArm,
                Arm, Scan, BeginLeg, Leg, BeginLogWrite, LogWrite, LogWriteThen, BeginComplete, Complete,
                BeginSettle, Settle, BeginCommit, EndCommit, Begin, OpOf, swap_vars, flash, locals
  <2> QED BY <2>1 DEF LooseInv, BlankInv, Untouched, Logged
<1> QED BY <1>1, <1>2

\* A flash operation that begins is under way.
LEMMA BeginKeeps ==
  ASSUME BeginEraseLog \/ BeginArm \/ BeginComplete \/ BeginSettle \/ BeginLeg \/ BeginLogWrite
  PROVE  pc' = pc /\ pc # "idle"
  BY DEF BeginEraseLog, BeginArm, BeginComplete, BeginSettle, BeginLeg, BeginLogWrite, BeginCommit, Begin

\* No other step of the engine reports an arrival.
LEMMA NoArrival ==
  ASSUME SwapStep \/ Crash \/ LooseCall, ~ Complete, pc' = "idle"
  PROVE  result' \notin {"DONE", "REVERTED"}
<1>1. CASE LooseCall
  BY <1>1 DEF LooseCall, boot_swap_start, boot_swap_process, boot_record_set_image_ok, Call, Return
<1>2. CASE Fail \/ Crash \/ Settle \/ Arm \/ EraseLog
  BY <1>2 DEF Fail, Crash, Settle, Arm, EraseLog, Return, ErrorOf
<1>3. CASE BeginEraseLog \/ BeginArm \/ BeginComplete \/ BeginSettle \/ BeginLeg \/ BeginLogWrite
  BY <1>3, BeginKeeps
<1>4. CASE Scan \/ Leg \/ LogWrite
  BY <1>4 DEF Scan, Leg, LogWrite, LogWriteThen, OpOf
<1> QED BY <1>1, <1>2, <1>3, <1>4 DEF SwapStep, FlashStep

\* The engine keeps its invariant whoever calls it.
LEMMA LooseStep ==
  ASSUME LooseInv, [LooseNext]_swap_vars
  PROVE  LooseInv'
<1>1. TypeOK'
  BY LooseType
<1>2. (OpInv /\ StagedInv /\ CrcInv)'
  BY ArmLoose, LegsLoose, EndLoose, CallLoose DEF LooseNext, SwapStep, FlashStep
<1> QED BY <1>1, <1>2, BlankStep DEF LooseInv

\* Only a completed exchange reports an arrival, and only of what it compared.
LEMMA VerifiedStep ==
  ASSUME LooseInv, VerifiedArrival, [LooseNext]_swap_vars
  PROVE  VerifiedArrival'
<1> SUFFICES ASSUME pc' = "idle", result' \in {"DONE", "REVERTED"}
             PROVE  /\ record' # NoRecord /\ record'.copy_done
                    /\ record'.crc32_staged \in {boot_crc32(primary'), BOOT_CRC32_UNSET}
  BY DEF VerifiedArrival
<1>1. CASE Complete
  <2>1. /\ pc = "complete" /\ busy /\ CrcOk
        /\ record' = g_staged_record /\ primary' = primary
    BY <1>1 DEF Complete, EndCommit, Return
  <2>2. /\ record' # NoRecord /\ record'.copy_done /\ record'.crc32_staged = crc_staged
    BY <2>1 DEF LooseInv, StagedInv
  <2> QED BY <2>1, <2>2 DEF CrcOk
<1>2. CASE LooseStage \/ UNCHANGED swap_vars
  <2>1. UNCHANGED <<primary, record, pc, result>>
    BY <1>2 DEF LooseStage, swap_vars, flash, locals
  <2> QED BY <2>1 DEF VerifiedArrival
<1> QED BY <1>1, <1>2, NoArrival DEF LooseNext

\* It has put an image into the primary slot that looks bootable, if a CRC32 can tell.
LEMMA ArrivalStays ==
  ASSUME CrcTells, LooseInv, ArrivalInv, [LooseNext]_swap_vars
  PROVE  ArrivalInv'
<1> SUFFICES ASSUME pc' = "idle", result' \in {"DONE", "REVERTED"} PROVE Arrived'
  BY DEF ArrivalInv
<1>1. CASE Complete
  <2>1. /\ pc = "complete" /\ busy /\ CrcOk
        /\ record' = g_staged_record /\ primary' = primary
    BY <1>1 DEF Complete, EndCommit, Return
  <2>2. record' # NoRecord /\ ~ InFlight' /\ record'.crc32_staged = crc_staged
    BY <2>1 DEF LooseInv, StagedInv, InFlight
  <2>3. boot_crc32(primary) = crc_staged /\ boot_image_ok(primary)
    BY <2>1, FingerprintTells DEF CrcOk, LooseInv, CrcInv, TypeOK
  <2> QED BY <2>1, <2>2, <2>3 DEF Arrived, boot_image_ok
<1>2. CASE LooseStage \/ UNCHANGED swap_vars
  <2>1. UNCHANGED <<primary, record, pc, result>>
    BY <1>2 DEF LooseStage, swap_vars, flash, locals
  <2> QED BY <2>1 DEF ArrivalInv, Arrived, InFlight, boot_image_ok
<1> QED BY <1>1, <1>2, NoArrival DEF LooseNext

\* A record of a swap in flight is written by an arming only, over an empty log.
LEMMA FingerprintStep ==
  ASSUME LooseInv, [LooseNext]_swap_vars, InFlight', record' # record
  PROVE  /\ InFlight => Untouched
         /\ record'.crc32_staged = boot_crc32(secondary)
<1>1. CASE Arm
  BY <1>1 DEF Arm, EndCommit, LooseInv, StagedInv, CrcInv, BlankInv
<1>2. CASE BeginArm \/ BeginComplete \/ BeginSettle
  BY <1>2, NothingInFlight DEF BeginArm, BeginComplete, BeginSettle, BeginCommit, InFlight
<1>3. CASE Complete \/ Settle
  BY <1>3 DEF Complete, Settle, EndCommit, LooseInv, StagedInv, InFlight
<1>4. CASE BeginEraseLog \/ EraseLog \/ BeginLeg \/ Leg \/ BeginLogWrite \/ LogWrite
  BY <1>4 DEF BeginEraseLog, EraseLog, BeginLeg, Leg, BeginLogWrite, LogWrite, LogWriteThen
<1>5. CASE Scan \/ Fail \/ Crash \/ LooseCall \/ LooseStage \/ UNCHANGED swap_vars
  BY <1>5 DEF Scan, Fail, Crash, LooseCall, boot_swap_start, boot_swap_process,
              boot_record_set_image_ok, LooseStage, swap_vars, flash
<1> QED BY <1>1, <1>2, <1>3, <1>4, <1>5 DEF LooseNext, SwapStep, FlashStep

-------------------------------------------------------------------------------
(* The boot sequence's part.                                               *)

\* A request is there until the mailbox is cleared.
PendingInv == request # NoRequest => phase \in {"mailbox", "requested", "confirming", "clear", "running"}

HalInv == BootTypeOK /\ LooseInv /\ CallInv /\ PendingInv

\* The steps of the boot sequence, as the engine sees them.
LEMMA LooseMapping == HalInv /\ [BootNext]_boot_vars => [LooseNext]_swap_vars
<1> SUFFICES ASSUME HalInv, [BootNext]_boot_vars PROVE [LooseNext]_swap_vars
  OBVIOUS
<1>1. CASE StartRequested \/ Recover \/ Confirm \/ ProcessSwap \/ RecoverArmed
  BY <1>1 DEF StartRequested, RequestedType, Recover, Confirm, ProcessSwap, RecoverArmed, LooseNext, LooseCall
<1>2. CASE Engine
  BY <1>2 DEF Engine, LooseNext, SwapStep
<1>3. CASE AppStage
  <2>1. pc = "idle"
    BY <1>3 DEF AppStage, HalInv, CallInv
  <2> QED BY <1>3, <2>1 DEF AppStage, LooseStage, LooseNext
<1>4. CASE Reset
  BY <1>4 DEF Reset, LooseNext
<1>5. CASE \/ NothingRequested \/ StartReturned \/ ConfirmNothing \/ ConfirmReturned \/ RefuseRequest
           \/ boot_mailbox_clear \/ ProcessReturned \/ PrimaryUsable \/ RecoverRefused
           \/ RecoverReturned \/ boot_swap_log_count \/ boot_flash_close \/ boot_jump_to_primary
           \/ boot_fatal \/ AppRequest \/ UNCHANGED boot_vars
  <2>1. UNCHANGED swap_vars
    BY <1>5 DEF NothingRequested, StartReturned, ConfirmNothing, ConfirmReturned, RefuseRequest,
                boot_mailbox_clear, ProcessReturned, PrimaryUsable, RecoverRefused, RecoverReturned,
                boot_swap_log_count, boot_flash_close, boot_jump_to_primary, boot_fatal, AppRequest,
                boot_vars
  <2> QED BY <2>1
<1> QED BY <1>1, <1>2, <1>3, <1>4, <1>5 DEF BootNext, BootStep, RecoverStarted

\* The phases of hal_entry() and the calls of the engine stay in step.
LEMMA CallsInStep ==
  ASSUME HalInv, [BootNext]_boot_vars
  PROVE  CallInv' /\ PendingInv'
<1> USE DEF HalInv, CallInv, PendingInv
<1>1. CASE Engine
  <2>1. UNCHANGED <<phase, request>> /\ pc # "idle"
    BY <1>1, EngineCall DEF Engine, Fail
  <2>2. CASE FlashStep
    BY <2>1, <2>2, EngineCall
  <2>3. CASE Fail
    BY <2>1, <2>3 DEF Fail, Return
  <2> QED BY <1>1, <2>2, <2>3 DEF Engine
<1>2. CASE StartRequested \/ Recover
  <2>1. /\ phase \in {"mailbox", "check"} /\ phase' \in {"requested", "recover"}
        /\ phase' = "recover" => phase = "check"
        /\ pc' = "idle" \/ (pc' = "erase_log" /\ fn' = "start")
        /\ request' = request
    BY <1>2 DEF StartRequested, Recover, Goto, boot_swap_start, Return, Call
  <2> QED BY <2>1
<1>3. CASE Confirm
  <2>1. /\ phase = "mailbox" /\ phase' = "confirming" /\ pc' = "settle" /\ fn' = "confirm"
        /\ request' = request
    BY <1>3 DEF Confirm, Goto, boot_record_set_image_ok, Call
  <2> QED BY <2>1
<1>4. CASE ProcessSwap \/ RecoverArmed
  <2>1. /\ phase \in {"swap", "recover"} /\ phase' \in {"swapping", "recovering"}
        /\ pc' = "idle" \/ fn' = "process"
        /\ request' = request
    BY <1>4, ProcessCall DEF ProcessSwap, RecoverArmed, Goto
  <2> QED BY <2>1
<1>5. CASE \/ NothingRequested \/ StartReturned \/ ConfirmNothing \/ ConfirmReturned \/ RefuseRequest
           \/ boot_mailbox_clear \/ ProcessReturned \/ PrimaryUsable \/ RecoverRefused
           \/ RecoverReturned \/ boot_swap_log_count \/ boot_flash_close \/ boot_jump_to_primary
           \/ boot_fatal
  <2>1. /\ pc = "idle" /\ UNCHANGED swap_vars
        /\ phase' \in {"swap", "clear", "check", "count", "close", "handoff", "running", "fatal"}
        /\ request' # NoRequest => request' = request /\ phase' = "clear"
    BY <1>5 DEF NothingRequested, StartReturned, ConfirmNothing, ConfirmReturned, RefuseRequest,
                boot_mailbox_clear, ProcessReturned, PrimaryUsable, RecoverRefused, RecoverReturned,
                boot_swap_log_count, boot_flash_close, boot_jump_to_primary, boot_fatal, Goto
  <2>2. pc' = "idle"
    BY <2>1 DEF swap_vars, locals
  <2> QED BY <2>1, <2>2
<1>6. CASE AppStage \/ AppRequest \/ UNCHANGED boot_vars
  <2>1. UNCHANGED <<pc, fn, phase>> /\ (phase = "running" \/ request' = request)
    BY <1>6 DEF AppStage, AppRequest, boot_vars, swap_vars, locals
  <2> QED BY <2>1
<1>7. CASE Reset
  BY <1>7 DEF Reset, Crash, Return
<1> QED BY <1>1, <1>2, <1>3, <1>4, <1>5, <1>6, <1>7 DEF BootNext, BootStep, RecoverStarted

\* A board fresh from the factory has nothing to do.
LEMMA HalInit == BootInit => HalInv
<1> SUFFICES ASSUME BootInit PROVE HalInv
  OBVIOUS
<1>1. BootInv
  BY BootInitInv
<1>2. LooseInv
  BY <1>1, NothingInFlight DEF BootInit, Init, BootInv, EngineInv, LooseInv, OpInv, StagedInv, CrcInv,
                               BlankInv, InFlight
<1> QED BY <1>1, <1>2 DEF BootInit, BootInv, PhaseInv, HalInv, PendingInv

\* Every step of a boot keeps it, whatever fails.
LEMMA HalStep == HalInv /\ [BootNext]_boot_vars => HalInv'
<1> SUFFICES ASSUME HalInv, [BootNext]_boot_vars PROVE HalInv'
  OBVIOUS
<1>1. LooseInv'
  BY LooseMapping, LooseStep DEF HalInv
<1>2. BootTypeOK'
  BY <1>1, BootTypeStep DEF HalInv, LooseInv
<1> QED BY <1>1, <1>2, CallsInStep DEF HalInv

-------------------------------------------------------------------------------
(* What needs no assumption: any driver error, any copy that only reported *)
(* success, any CRC32.                                                     *)

(* Whatever is reported to an application is a status, a command and a     *)
(* number of legs it knows (boot_mailbox.h).                               *)
THEOREM BootTypeCorrect == BootSpec => []BootTypeOK
<1>1. HalInv => BootTypeOK
  BY DEF HalInv
<1> QED BY <1>1, HalInit, HalStep, PTL DEF BootSpec

(* The mailbox, as hal_entry(), the application and the resets use it, is  *)
(* the handshake: no request outlives the boot that saw it, and nobody is  *)
(* handed the core without a report, not even when a flash operation of    *)
(* the request, or of the recovery, fails (hal_entry.c,                    *)
(* boot_process_mailbox and the acknowledgement).                          *)
THEOREM ImplementsHandshake == BootSpec => HandshakeSpec
<1>1. BootInit => Hand!Init
  BY DEF BootInit, Hand!Init
<1>2. HalInv /\ [BootNext]_boot_vars => [Hand!Next]_(Hand!hand_vars)
  <2> SUFFICES ASSUME HalInv, [BootNext]_boot_vars
               PROVE  [Hand!Next]_(Hand!hand_vars)
    OBVIOUS
  <2>1. CASE boot_mailbox_clear
    BY <2>1 DEF boot_mailbox_clear, Goto, Hand!Next, Hand!Consume
  <2>2. CASE boot_jump_to_primary \/ boot_fatal
    <3>1. phase = "handoff" /\ phase' \in {"running", "fatal"} /\ request' = request
      BY <2>2 DEF boot_jump_to_primary, boot_fatal
    <3>2. request = NoRequest
      BY <3>1 DEF HalInv, PendingInv
    <3>3. ack' \in Acks
      <4>1. ASSUME NEW s \in Statuses, NEW d \in 0 .. BOOT_SWAP_STEP_COUNT, boot_mailbox_set_ack(s, d)
            PROVE  ack' \in Acks
        BY <4>1 DEF boot_mailbox_set_ack, Acks, HalInv, BootTypeOK
      <4>2. CASE boot_jump_to_primary
        BY <4>1, <4>2 DEF boot_jump_to_primary, HalInv, BootTypeOK
      <4>3. CASE boot_fatal
        BY <4>1, <4>3, StepCountNat DEF boot_fatal, Statuses
      <4> QED BY <2>2, <4>2, <4>3
    <3> QED BY <3>1, <3>2, <3>3 DEF Hand!Next, Hand!HandOver
  <2>3. CASE AppRequest
    BY <2>3 DEF AppRequest, Hand!Next, Hand!Ask
  <2>4. CASE Reset
    BY <2>4 DEF Reset, Hand!Next, Hand!Reset
  <2>5. CASE \/ NothingRequested \/ StartRequested \/ StartReturned \/ ConfirmNothing \/ Confirm
             \/ ConfirmReturned \/ RefuseRequest \/ ProcessSwap \/ ProcessReturned \/ PrimaryUsable
             \/ Recover \/ RecoverArmed \/ RecoverRefused \/ RecoverReturned \/ boot_swap_log_count
             \/ boot_flash_close
    BY <2>5 DEF NothingRequested, StartRequested, StartReturned, ConfirmNothing, Confirm,
                ConfirmReturned, RefuseRequest, ProcessSwap, ProcessReturned, PrimaryUsable, Recover,
                RecoverArmed, RecoverRefused, RecoverReturned, boot_swap_log_count, boot_flash_close,
                Goto, Hand!hand_vars
  <2>6. CASE Engine \/ AppStage \/ UNCHANGED boot_vars
    BY <2>6 DEF Engine, AppStage, boot_vars, Hand!hand_vars
  <2> QED BY <2>1, <2>2, <2>3, <2>4, <2>5, <2>6 DEF BootNext, BootStep, RecoverStarted
<1> QED
  BY <1>1, <1>2, HalInit, HalStep, PTL DEF BootSpec, HandshakeSpec, Hand!Spec

(* A swap reported as done or reverted has put into the primary slot an    *)
(* image with the fingerprint in the record, in the whole program too:     *)
(* with requests repeated by a reset, and with a recovery that arms a swap *)
(* again after an error (hal_entry.c, boot_recover_primary).               *)
THEOREM BootVerifies == BootSpec => []VerifiedArrival
<1>1. BootInit => VerifiedArrival
  BY DEF BootInit, Init, VerifiedArrival
<1>2. HalInv /\ VerifiedArrival /\ [BootNext]_boot_vars => VerifiedArrival'
  BY LooseMapping, VerifiedStep DEF HalInv
<1> QED BY <1>1, <1>2, HalInit, HalStep, PTL DEF BootSpec

(* The fingerprint in the record is that of what was staged at the arming, *)
(* and is replaced only over a log that has been proved empty, even when   *)
(* the recovery takes the place of a swap that failed half-way             *)
(* (boot_record_request_swap).                                             *)
THEOREM BootFingerprint == BootSpec => FingerprintOfStaged
<1>1. HalInv /\ [BootNext]_boot_vars =>
        [InFlight' =>
           record'.crc32_staged = IF InFlight /\ ~ Untouched THEN record.crc32_staged
                                                            ELSE boot_crc32(secondary)]_record
  BY LooseMapping, FingerprintStep DEF HalInv
<1> QED BY <1>1, HalInit, HalStep, PTL DEF BootSpec, FingerprintOfStaged

-------------------------------------------------------------------------------
(* The phases of hal_entry(), and what its calls have come to.             *)

RecoveryInv ==
  /\ phase \in {"recover", "recovering"} /\ pc # "idle" => swap_type = "PERM"
  /\ phase = "recover" /\ pc = "idle" /\ result = "SUCCESS" => InFlight /\ record.swap_type = "PERM"
  /\ phase = "recovering" => pc \in {"idle", "scan", "leg", "log", "complete"}
  /\ phase = "recovering" => ~ boot_record_revert_pending(record)

\* What the call that has returned has left in the record.
ReturnedInv ==
  /\ phase = "confirming" /\ pc = "idle" /\ result = "SUCCESS" => ~ boot_record_revert_pending(record)
  /\ phase = "swapping" /\ pc = "idle" =>
        /\ result \in {"DONE", "REVERTED", "ERROR", "CRC_FAIL", "NONE"}
        /\ result \in {"NONE", "REVERTED"} => ~ boot_record_revert_pending(record)
  /\ phase \in {"swapping", "recovering"} /\ pc = "idle" /\ InFlight => result = "ERROR"
  /\ phase = "recover" /\ pc = "idle" => result \in {"SUCCESS", "WRITE_FAILED"}

Reporting == {"check", "count", "close", "handoff"}

ErrorStatuses == {"ERR_SWAP", "ERR_CRC"}

\* An exchange left half done, and a trial that was not reverted, on the way to the hand-off.
EndedInv ==
  /\ phase \in Reporting /\ InFlight => result \in {"ERROR", "WRITE_FAILED"}
  /\ phase = "handoff" => ~ g_flash_open
  /\ SettledUnlessFailed

RepeatInv ==
  /\ phase = "recover" /\ boot_record_revert_pending(record) => ~ boot_image_ok(primary)
  /\ phase \in Reporting /\ boot_record_revert_pending(record) =>
        result = "DONE" \/ g_boot_status \in ErrorStatuses \/ ~ boot_image_ok(primary)
  /\ TrialRepeatReported

CourseInv == RecoveryInv /\ ReturnedInv /\ EndedInv /\ RepeatInv

\* A record of a swap in flight is not that of a trial to revert.
LEMMA InFlightNoTrial ==
  ASSUME NEW r, boot_record_swap_in_progress(r) PROVE ~ boot_record_revert_pending(r)
  BY DEF boot_record_swap_in_progress, boot_record_revert_pending

\* Nor is a record that is refused.
LEMMA NoRecordNoTrial == ~ boot_record_revert_pending(NoRecord)
  BY DEF boot_record_revert_pending

\* The recovery puts nobody on trial.
LEMMA RecoveryNoTrial ==
  ASSUME HalInv, RecoveryInv, Engine, phase \in {"recover", "recovering"},
         ~ boot_record_revert_pending(record)
  PROVE  ~ boot_record_revert_pending(record')
<1> USE DEF HalInv
<1>1. pc # "idle" /\ (FlashStep \/ Fail)
  BY EngineCall DEF Engine, Fail
<1>2. CASE UNCHANGED record
  BY <1>2
<1>3. CASE BeginArm \/ BeginComplete \/ BeginSettle
  BY <1>3, NoRecordNoTrial DEF BeginArm, BeginComplete, BeginSettle, BeginCommit
<1>4. CASE Arm
  BY <1>4, InFlightNoTrial DEF Arm, EndCommit, LooseInv, StagedInv
<1>5. CASE Complete \/ Settle
  <2>1. busy /\ pc \in {"complete", "settle"} /\ record' = g_staged_record
    BY <1>5 DEF Complete, Settle, EndCommit
  <2>2. swap_type = "PERM"
    BY <1>1 DEF RecoveryInv
  <2> QED BY <2>1, <2>2 DEF LooseInv, StagedInv
<1> QED BY <1>1, <1>2, <1>3, <1>4, <1>5
        DEF FlashStep, BeginEraseLog, EraseLog, Scan, BeginLeg, Leg, BeginLogWrite, LogWrite,
            LogWriteThen, Fail, flash

\* While the engine works below one of the calls.
LEMMA EngineCourse ==
  ASSUME HalInv, CourseInv, Engine
  PROVE  CourseInv'
<1> USE DEF HalInv, CourseInv
<1>1. /\ pc # "idle" /\ UNCHANGED <<phase, ack, g_boot_status>>
      /\ phase \in {"requested", "recover", "confirming", "swapping", "recovering"}
      /\ FlashStep \/ Fail
  BY EngineCall DEF Engine, Fail, CallInv, ram
<1>2. ASSUME ~ boot_record_revert_pending(record), phase \in {"recover", "recovering"}
      PROVE  ~ boot_record_revert_pending(record')
  BY <1>2, RecoveryNoTrial
<1>3. RecoveryInv'
  <2>1. pc' # "idle" => swap_type' = swap_type
    BY <1>1 DEF FlashStep, BeginEraseLog, EraseLog, BeginArm, Arm, Scan, BeginLeg, Leg, BeginLogWrite,
                LogWrite, LogWriteThen, BeginComplete, Complete, BeginSettle, Settle, EndCommit,
                BeginCommit, Fail, Return
  <2>2. ASSUME phase = "recover", pc' = "idle", result' = "SUCCESS"
        PROVE  InFlight' /\ record'.swap_type = "PERM"
    <3>1. pc \in {"erase_log", "arm"} /\ fn = "start" /\ swap_type = "PERM"
      BY <1>1, <2>2 DEF CallInv, RecoveryInv
    <3>2. Arm
      BY <1>1, <2>2, <3>1 DEF FlashStep, BeginEraseLog, EraseLog, BeginArm, Scan, BeginLeg, Leg,
              BeginLogWrite, LogWrite, LogWriteThen, BeginComplete, Complete, BeginSettle, Settle,
              EndCommit, BeginCommit, Begin, Fail, Return, ErrorOf
    <3> QED BY <3>1, <3>2 DEF Arm, EndCommit, LooseInv, StagedInv, InFlight
  <2>3. ASSUME phase = "recovering" PROVE pc' \in {"idle", "scan", "leg", "log", "complete"}
    <3>1. pc \in {"scan", "leg", "log", "complete"}
      BY <1>1, <2>3 DEF RecoveryInv
    <3> QED BY <1>1, <3>1 DEF FlashStep, BeginEraseLog, EraseLog, BeginArm, Arm, Scan, BeginLeg, Leg,
              BeginLogWrite, LogWrite, LogWriteThen, BeginComplete, Complete, BeginSettle, Settle,
              EndCommit, BeginCommit, Begin, Fail, Return, OpOf
  <2> QED BY <1>1, <1>2, <2>1, <2>2, <2>3 DEF RecoveryInv
<1>4. ReturnedInv'
  <2>1. ASSUME phase = "confirming", pc' = "idle", result' = "SUCCESS"
        PROVE  ~ boot_record_revert_pending(record')
    <3>1. pc = "settle" /\ fn = "confirm"
      BY <1>1, <2>1 DEF CallInv
    <3>2. Settle
      BY <1>1, <2>1, <3>1 DEF FlashStep, BeginEraseLog, EraseLog, BeginArm, Arm, Scan, BeginLeg, Leg,
              BeginLogWrite, LogWrite, LogWriteThen, BeginComplete, Complete, BeginSettle,
              EndCommit, BeginCommit, Begin, Fail, Return, ErrorOf
    <3> QED BY <3>2 DEF Settle, EndCommit, LooseInv, StagedInv
  <2>2. ASSUME phase = "swapping", pc' = "idle"
        PROVE  /\ result' \in {"DONE", "REVERTED", "ERROR", "CRC_FAIL", "NONE"}
               /\ result' \in {"NONE", "REVERTED"} => ~ boot_record_revert_pending(record')
    <3>1. fn = "process"
      BY <1>1, <2>2 DEF CallInv
    <3>2. CASE Settle
      BY <3>1, <3>2 DEF Settle, EndCommit, Return, LooseInv, StagedInv
    <3>3. CASE Complete
      BY <3>3 DEF Complete, EndCommit, Return, LooseInv, StagedInv
    <3>4. CASE EraseLog \/ Fail
      BY <2>2, <3>1, <3>4 DEF EraseLog, Fail, Return, ErrorOf
    <3>5. Settle \/ Complete \/ EraseLog \/ Fail
      BY <1>1, <2>2, <3>1 DEF FlashStep, BeginEraseLog, BeginArm, Arm, Scan, BeginLeg, Leg,
              BeginLogWrite, LogWrite, LogWriteThen, BeginComplete, BeginSettle, BeginCommit, Begin, OpOf
    <3> QED BY <3>2, <3>3, <3>4, <3>5
  <2>3. ASSUME phase \in {"swapping", "recovering"}, pc' = "idle", InFlight'
        PROVE  result' = "ERROR"
    <3>1. fn = "process"
      BY <1>1, <2>3 DEF CallInv
    <3>2. ~ Settle /\ ~ Complete
      BY <2>3 DEF Settle, Complete, EndCommit, LooseInv, StagedInv, InFlight
    <3>3. EraseLog \/ Fail
      BY <1>1, <2>3, <3>1, <3>2 DEF FlashStep, BeginEraseLog, BeginArm, Arm, Scan, BeginLeg, Leg,
              BeginLogWrite, LogWrite, LogWriteThen, BeginComplete, BeginSettle, BeginCommit, Begin, OpOf
    <3> QED BY <2>3, <3>1, <3>3 DEF EraseLog, Fail, Return, ErrorOf
  <2>4. ASSUME phase = "recover", pc' = "idle"
        PROVE  result' \in {"SUCCESS", "WRITE_FAILED"}
    <3>1. pc \in {"erase_log", "arm"} /\ fn = "start"
      BY <1>1, <2>4 DEF CallInv
    <3>2. Arm \/ EraseLog \/ Fail
      BY <1>1, <2>4, <3>1 DEF FlashStep, BeginEraseLog, BeginArm, Scan, BeginLeg, Leg,
              BeginLogWrite, LogWrite, LogWriteThen, BeginComplete, Complete, BeginSettle, Settle,
              EndCommit, BeginCommit, Begin
    <3> QED BY <2>4, <3>1, <3>2 DEF Arm, EraseLog, Fail, Return, ErrorOf
  <2> QED BY <1>1, <2>1, <2>2, <2>3, <2>4 DEF ReturnedInv
<1>5. EndedInv'
  BY <1>1 DEF EndedInv, SettledUnlessFailed, Reporting
<1>6. RepeatInv'
  <2>1. ASSUME phase = "recover", boot_record_revert_pending(record'), boot_record_revert_pending(record)
        PROVE  ~ boot_image_ok(primary')
    <3>1. pc \in {"erase_log", "arm"}
      BY <1>1, <2>1 DEF CallInv
    <3>2. primary' = primary
      BY <1>1, <3>1 DEF FlashStep, BeginEraseLog, EraseLog, BeginArm, Arm, Scan, BeginLeg, Leg,
              BeginLogWrite, LogWrite, LogWriteThen, BeginComplete, Complete, BeginSettle, Settle,
              EndCommit, BeginCommit, Begin, Fail, flash
    <3> QED BY <2>1, <3>2 DEF RepeatInv, boot_image_ok
  <2> QED BY <1>1, <1>2, <2>1 DEF RepeatInv, TrialRepeatReported, Reporting
<1> QED BY <1>3, <1>4, <1>5, <1>6

\* The calls hal_entry() makes.
LEMMA CallCourse ==
  ASSUME HalInv, CourseInv, StartRequested \/ Confirm \/ ProcessSwap \/ Recover \/ RecoverArmed
  PROVE  CourseInv'
<1> USE DEF HalInv, CourseInv
<1> USE DEF RecoveryInv, ReturnedInv, EndedInv, SettledUnlessFailed, RepeatInv, TrialRepeatReported, Reporting
<1>1. pc = "idle" /\ UNCHANGED flash /\ phase # "running"
  BY DEF StartRequested, Confirm, ProcessSwap, Recover, RecoverArmed, Goto, boot_swap_start,
         boot_swap_process, boot_record_set_image_ok
<1>2. UNCHANGED <<record, primary>> /\ InFlight' = InFlight
  BY <1>1 DEF flash, InFlight
<1>3. CASE StartRequested
  BY <1>3 DEF StartRequested, Goto
<1>4. CASE Confirm
  <2>1. phase' = "confirming" /\ pc' = "settle"
    BY <1>4 DEF Confirm, Goto, boot_record_set_image_ok, Call
  <2> QED BY <2>1
<1>5. CASE ProcessSwap
  <2>1. /\ phase' = "swapping"
        /\ \/ pc' = "idle" /\ result' = "NONE" /\ ~ boot_record_revert_pending(record) /\ ~ InFlight
           \/ pc' # "idle"
    BY <1>5 DEF ProcessSwap, Goto, boot_swap_process, Return, Call
  <2> QED BY <1>2, <2>1
<1>6. CASE Recover
  <2>1. /\ phase' = "recover" /\ ~ boot_image_ok(primary)
        /\ pc' = "erase_log" /\ swap_type' = "PERM"
    BY <1>6 DEF Recover, Goto, boot_swap_start, Return, Call
  <2> QED BY <1>2, <2>1 DEF boot_image_ok
<1>7. CASE RecoverArmed
  <2>1. /\ phase' = "recovering" /\ InFlight /\ record.swap_type = "PERM"
        /\ boot_swap_process
    BY <1>1, <1>7 DEF RecoverArmed, Goto
  <2>2. ~ boot_record_revert_pending(record)
    BY <2>1, InFlightNoTrial DEF InFlight
  <2>3. pc' = "scan" /\ swap_type' = "PERM"
    BY <2>1, <2>2 DEF boot_swap_process, Call
  <2> QED BY <1>2, <2>1, <2>2, <2>3
<1> QED BY <1>3, <1>4, <1>5, <1>6, <1>7

\* What hal_entry() makes of the answers, up to the swap and after it.
LEMMA AnswerCourse ==
  ASSUME HalInv, CourseInv,
         \/ NothingRequested \/ StartReturned \/ ConfirmNothing \/ ConfirmReturned
         \/ RefuseRequest \/ boot_mailbox_clear \/ ProcessReturned
  PROVE  CourseInv'
<1> USE DEF HalInv, CourseInv
<1> USE DEF RecoveryInv, ReturnedInv, EndedInv, SettledUnlessFailed, RepeatInv, TrialRepeatReported, Reporting
<1>1. pc = "idle" /\ UNCHANGED swap_vars
  BY DEF NothingRequested, StartReturned, ConfirmNothing, ConfirmReturned, RefuseRequest,
         boot_mailbox_clear, ProcessReturned, Goto
<1>2. UNCHANGED <<pc, record, result>> /\ InFlight' = InFlight
  BY <1>1 DEF swap_vars, flash, locals, InFlight
<1>3. CASE ProcessReturned
  <2>1. /\ phase = "swapping" /\ phase' = "check"
        /\ g_boot_status' = StatusAfter(result, g_boot_status)
    BY <1>3 DEF ProcessReturned, Goto, SetStatus
  <2>2. result = "ERROR" => g_boot_status' = "ERR_SWAP"
    BY <2>1 DEF StatusAfter
  <2>3. result = "CRC_FAIL" => g_boot_status' = "ERR_CRC"
    BY <2>1 DEF StatusAfter
  <2> QED BY <1>1, <1>2, <2>1, <2>2, <2>3 DEF ErrorStatuses
<1>4. CASE ~ ProcessReturned
  <2>1. phase' \in {"swap", "clear"}
    BY <1>4 DEF NothingRequested, StartReturned, ConfirmNothing, ConfirmReturned, RefuseRequest,
                boot_mailbox_clear, Goto
  <2> QED BY <2>1
<1> QED BY <1>3, <1>4

\* From the check of the primary slot to the hand-off.
LEMMA HandOffCourse ==
  ASSUME HalInv, CourseInv,
         \/ PrimaryUsable \/ RecoverRefused \/ RecoverReturned \/ boot_swap_log_count
         \/ boot_flash_close \/ boot_jump_to_primary \/ boot_fatal
  PROVE  CourseInv'
<1> USE DEF HalInv, CourseInv
<1> USE DEF RecoveryInv, ReturnedInv, EndedInv, SettledUnlessFailed, RepeatInv, TrialRepeatReported, Reporting
<1>1. pc = "idle" /\ UNCHANGED swap_vars
  BY DEF PrimaryUsable, RecoverRefused, RecoverReturned, boot_swap_log_count, boot_flash_close,
         boot_jump_to_primary, boot_fatal, Goto
<1>2. UNCHANGED <<pc, record, result, primary>> /\ InFlight' = InFlight
  BY <1>1 DEF swap_vars, flash, locals, InFlight
<1>3. boot_image_ok(primary') = boot_image_ok(primary)
  BY <1>2
<1>4. CASE PrimaryUsable \/ RecoverRefused \/ boot_swap_log_count
  <2>1. phase \in {"check", "recover", "count"} /\ phase' \in {"count", "close"} /\ g_boot_status' = g_boot_status
        /\ (phase = "recover" => result # "SUCCESS")
    BY <1>4 DEF PrimaryUsable, RecoverRefused, boot_swap_log_count, Goto, ram
  <2> QED BY <1>1, <1>2, <1>3, <2>1
<1>5. CASE RecoverReturned
  BY <1>1, <1>2, <1>3, <1>5 DEF RecoverReturned, Goto
<1>6. CASE boot_flash_close
  BY <1>1, <1>2, <1>3, <1>6 DEF boot_flash_close, Goto, ram
<1>7. CASE boot_jump_to_primary
  <2>1. /\ phase = "handoff" /\ phase' = "running" /\ boot_image_ok(primary)
        /\ ack'.status = g_boot_status /\ g_flash_open' = g_flash_open
    BY <1>7 DEF boot_jump_to_primary, boot_mailbox_set_ack
  <2> QED BY <1>2, <1>3, <2>1 DEF ErrorStatuses
<1>8. CASE boot_fatal
  BY <1>8 DEF boot_fatal
<1> QED BY <1>4, <1>5, <1>6, <1>7, <1>8

\* The application and the resets.
LEMMA OutsideCourse ==
  ASSUME HalInv, CourseInv, AppStage \/ AppRequest \/ Reset \/ UNCHANGED boot_vars
  PROVE  CourseInv'
<1> USE DEF CourseInv
<1> USE DEF RecoveryInv, ReturnedInv, EndedInv, SettledUnlessFailed, RepeatInv, TrialRepeatReported, Reporting
<1>1. CASE Reset
  BY <1>1 DEF Reset
<1>2. CASE AppStage \/ AppRequest \/ UNCHANGED boot_vars
  <2>1. UNCHANGED <<pc, swap_type, result, primary, record, phase, ack, g_boot_status, g_flash_open>>
    BY <1>2 DEF AppStage, AppRequest, boot_vars, swap_vars, flash, locals, ram
  <2>2. InFlight' = InFlight /\ boot_image_ok(primary') = boot_image_ok(primary)
    BY <2>1 DEF InFlight
  <2> QED BY <2>1, <2>2
<1> QED BY <1>1, <1>2

LEMMA CourseStep == HalInv /\ CourseInv /\ [BootNext]_boot_vars => CourseInv'
  BY EngineCourse, CallCourse, AnswerCourse, HandOffCourse, OutsideCourse DEF BootNext, BootStep, RecoverStarted

LEMMA CourseInit == BootInit => CourseInv
  BY DEF BootInit, CourseInv, RecoveryInv, ReturnedInv, EndedInv, SettledUnlessFailed, RepeatInv,
         TrialRepeatReported, Reporting

(* Whatever fails, what is handed over looks bootable, with the flash      *)
(* driver closed, and an exchange is left half done only by a boot whose   *)
(* last call of the engine returned an error (hal_entry.c, hal_entry and   *)
(* boot_recover_primary).                                                  *)
THEOREM SettledOrFailed == BootSpec => []SettledUnlessFailed
<1>1. CourseInv => SettledUnlessFailed
  BY DEF CourseInv, EndedInv
<1> QED BY <1>1, HalInit, HalStep, CourseInit, CourseStep, PTL DEF BootSpec

(* Whatever fails, a trial image that should have been reverted and is     *)
(* started once more reads ERR_SWAP or ERR_CRC (boot_swap_process, the     *)
(* revert; boot_process_swap).                                             *)
THEOREM RepeatIsReported == BootSpec => []TrialRepeatReported
<1>1. CourseInv => TrialRepeatReported
  BY DEF CourseInv, RepeatInv
<1> QED BY <1>1, HalInit, HalStep, CourseInit, CourseStep, PTL DEF BootSpec

-------------------------------------------------------------------------------
(* What it is about to report.                                             *)

StatusInv ==
  /\ phase \in {"mailbox", "requested", "confirming"} => g_boot_status = "OK"
  /\ g_boot_status \in {"SWAPPED", "REVERTED"} =>
        /\ phase \in Reporting \cup {"running", "fatal"}
        /\ phase \in Reporting => Arrived
  /\ g_boot_status = "CONFIRMED" /\ phase \in Reporting \cup {"recover", "recovering"} =>
        ~ boot_record_revert_pending(record)

\* What has been reported agrees with the record and the primary slot.
AckMatches ==
  phase = "running" =>
    /\ ack.status \in {"SWAPPED", "REVERTED"} => Arrived
    /\ ack.status = "CONFIRMED" => ~ boot_record_revert_pending(record)

FlowInv == StatusInv /\ AckMatches

FaultInv == HalInv /\ CourseInv /\ ArrivalInv /\ FlowInv

\* While the engine works below one of its calls.
LEMMA EngineFlow ==
  ASSUME FaultInv, Engine
  PROVE  FlowInv'
<1> USE DEF FaultInv, HalInv, CourseInv, FlowInv
<1>1. /\ pc # "idle" /\ UNCHANGED <<phase, ack, g_boot_status>>
      /\ phase \in {"requested", "recover", "confirming", "swapping", "recovering"}
      /\ FlashStep \/ Fail
  BY EngineCall DEF Engine, Fail, CallInv, ram
<1>2. AckMatches'
  BY <1>1 DEF AckMatches
<1>3. StatusInv'
  BY <1>1, RecoveryNoTrial DEF StatusInv, Reporting
<1> QED BY <1>2, <1>3

\* The calls hal_entry() makes.
LEMMA CallFlow ==
  ASSUME FaultInv, StartRequested \/ Confirm \/ ProcessSwap \/ Recover \/ RecoverArmed
  PROVE  FlowInv'
<1> USE DEF FaultInv, HalInv, CourseInv, FlowInv
<1>1. /\ pc = "idle" /\ UNCHANGED <<flash, ack, g_boot_status>>
      /\ phase # "running" /\ phase' \in {"requested", "confirming", "swapping", "recover", "recovering"}
      /\ phase' \in {"requested", "confirming"} => phase = "mailbox"
  BY DEF StartRequested, Confirm, ProcessSwap, Recover, RecoverArmed, Goto, boot_swap_start,
         boot_swap_process, boot_record_set_image_ok, ram
<1>2. UNCHANGED record
  BY <1>1 DEF flash
<1>3. g_boot_status \notin {"SWAPPED", "REVERTED"}
  <2>1. CASE Recover
    BY <2>1 DEF Recover, Goto, StatusInv, Reporting, Arrived
  <2>2. CASE ~ Recover
    BY <2>2 DEF StartRequested, Confirm, ProcessSwap, RecoverArmed, Goto, StatusInv, Reporting
  <2> QED BY <2>1, <2>2
<1>4. phase' \in {"recover", "recovering"} => phase \in Reporting \cup {"recover"}
  BY DEF StartRequested, Confirm, ProcessSwap, Recover, RecoverArmed, Goto, Reporting
<1> QED BY <1>1, <1>2, <1>3, <1>4 DEF StatusInv, Reporting, AckMatches

\* What hal_entry() makes of the answers, up to the swap.
LEMMA MailboxFlow ==
  ASSUME FaultInv,
         \/ NothingRequested \/ StartReturned \/ ConfirmNothing \/ ConfirmReturned
         \/ RefuseRequest \/ boot_mailbox_clear
  PROVE  FlowInv'
<1> USE DEF FaultInv, HalInv, CourseInv, FlowInv
<1>1. /\ pc = "idle" /\ UNCHANGED <<swap_vars, ack>>
      /\ phase \in {"mailbox", "requested", "confirming", "clear"} /\ phase' \in {"swap", "clear"}
  BY DEF NothingRequested, StartReturned, ConfirmNothing, ConfirmReturned, RefuseRequest,
         boot_mailbox_clear, Goto
<1>2. pc' = "idle"
  BY <1>1 DEF swap_vars, locals
<1>3. g_boot_status' \notin {"SWAPPED", "REVERTED"}
  <2>1. g_boot_status \notin {"SWAPPED", "REVERTED"}
    BY <1>1 DEF StatusInv, Reporting
  <2>2. CASE StartReturned
    BY <2>1, <2>2 DEF StartReturned, SetStatus
  <2>3. CASE ~ StartReturned
    BY <2>1, <2>3 DEF NothingRequested, ConfirmNothing, ConfirmReturned, RefuseRequest,
                      boot_mailbox_clear, SetStatus, ram
  <2> QED BY <2>2, <2>3
<1> QED BY <1>1, <1>2, <1>3 DEF StatusInv, Reporting, AckMatches

\* What it makes of the result of a swap.
LEMMA SwapFlow ==
  ASSUME FaultInv, ProcessReturned
  PROVE  FlowInv'
<1> USE DEF FaultInv, HalInv, CourseInv, FlowInv
<1>1. /\ pc = "idle" /\ UNCHANGED <<swap_vars, ack>> /\ phase = "swapping" /\ phase' = "check"
      /\ g_boot_status' = StatusAfter(result, g_boot_status)
  BY DEF ProcessReturned, Goto, SetStatus
<1>2. UNCHANGED <<pc, primary, record, result>> /\ InFlight' = InFlight
  BY <1>1 DEF swap_vars, flash, locals, InFlight
<1>3. g_boot_status \notin {"SWAPPED", "REVERTED"}
  BY <1>1 DEF StatusInv, Reporting
<1>4. result \in {"DONE", "REVERTED", "ERROR", "CRC_FAIL", "NONE"}
      /\ (result = "NONE" => ~ boot_record_revert_pending(record))
  BY <1>1 DEF ReturnedInv
<1>5. g_boot_status' \in {"SWAPPED", "REVERTED"} => result \in {"DONE", "REVERTED"}
  BY <1>1, <1>3, <1>4 DEF StatusAfter
<1>6. g_boot_status' = "CONFIRMED" => result = "NONE"
  BY <1>1, <1>3, <1>4 DEF StatusAfter
<1>7. g_boot_status' \in {"SWAPPED", "REVERTED"} => Arrived
  BY <1>1, <1>5 DEF ArrivalInv
<1>8. Arrived => Arrived'
  BY <1>2 DEF Arrived, boot_image_ok
<1> QED BY <1>1, <1>2, <1>4, <1>6, <1>7, <1>8
        DEF StatusInv, Reporting, AckMatches

\* And of the recovery, up to the hand-off.
LEMMA ReportFlow ==
  ASSUME FaultInv,
         \/ PrimaryUsable \/ RecoverRefused \/ RecoverReturned \/ boot_swap_log_count
         \/ boot_flash_close \/ boot_jump_to_primary \/ boot_fatal
  PROVE  FlowInv'
<1> USE DEF FaultInv, HalInv, CourseInv, FlowInv
<1>1. /\ pc = "idle" /\ UNCHANGED swap_vars
      /\ phase \in Reporting \cup {"recover", "recovering"}
      /\ phase' \in {"count", "close", "handoff", "running", "fatal"}
  BY DEF PrimaryUsable, RecoverRefused, RecoverReturned, boot_swap_log_count, boot_flash_close,
         boot_jump_to_primary, boot_fatal, Goto, Reporting
<1>2. UNCHANGED <<pc, primary, record, result>> /\ InFlight' = InFlight
  BY <1>1 DEF swap_vars, flash, locals, InFlight
<1>3. Arrived' = Arrived
  BY <1>2 DEF Arrived, boot_image_ok
<1>4. \/ g_boot_status' = g_boot_status
      \/ g_boot_status' = "SWAPPED" /\ Arrived /\ phase' = "count"
  <2>1. CASE RecoverReturned
    BY <2>1 DEF RecoverReturned, Goto, SetStatus, ArrivalInv
  <2>2. CASE ~ RecoverReturned
    BY <2>2 DEF PrimaryUsable, RecoverRefused, boot_swap_log_count, boot_flash_close,
                boot_jump_to_primary, boot_fatal, ram
  <2> QED BY <2>1, <2>2
<1>5. StatusInv'
  BY <1>1, <1>2, <1>3, <1>4 DEF StatusInv, Reporting
<1>6. AckMatches'
  <2>1. CASE boot_jump_to_primary
    <3>1. phase = "handoff" /\ ack'.status = g_boot_status
      BY <2>1 DEF boot_jump_to_primary, boot_mailbox_set_ack
    <3> QED BY <1>2, <1>3, <3>1 DEF StatusInv, Reporting, AckMatches
  <2>2. CASE ~ boot_jump_to_primary
    BY <2>2 DEF PrimaryUsable, RecoverRefused, RecoverReturned, boot_swap_log_count,
                boot_flash_close, boot_fatal, Goto, AckMatches
  <2> QED BY <2>1, <2>2
<1> QED BY <1>5, <1>6

\* The application and the resets.
LEMMA OutsideFlow ==
  ASSUME FaultInv, AppStage \/ AppRequest \/ Reset \/ UNCHANGED boot_vars
  PROVE  FlowInv'
<1> USE DEF FaultInv, HalInv, CourseInv, FlowInv
<1>1. CASE Reset
  BY <1>1 DEF Reset, Crash, Return, StatusInv, Reporting, AckMatches
<1>2. CASE AppStage \/ AppRequest \/ UNCHANGED boot_vars
  <2>1. UNCHANGED <<pc, fn, swap_type, result, primary, record, phase, ack, g_boot_status>>
    BY <1>2 DEF AppStage, AppRequest, boot_vars, swap_vars, flash, locals, ram
  <2>2. InFlight' = InFlight /\ Arrived' = Arrived
    BY <2>1 DEF InFlight, Arrived, boot_image_ok
  <2> QED BY <2>1, <2>2 DEF StatusInv, AckMatches
<1> QED BY <1>1, <1>2

\* Every step of a boot, whatever fails.
LEMMA FaultStep == CrcTells /\ FaultInv /\ [BootNext]_boot_vars => FaultInv'
<1> SUFFICES ASSUME CrcTells, FaultInv, [BootNext]_boot_vars PROVE FaultInv'
  OBVIOUS
<1>1. HalInv'
  BY HalStep DEF FaultInv
<1>2. CourseInv'
  BY CourseStep DEF FaultInv
<1>3. ArrivalInv'
  BY LooseMapping, ArrivalStays DEF FaultInv, HalInv
<1>4. FlowInv'
  BY EngineFlow, CallFlow, MailboxFlow, SwapFlow, ReportFlow, OutsideFlow DEF BootNext, BootStep, RecoverStarted
<1> QED BY <1>1, <1>2, <1>3, <1>4 DEF FaultInv

\* A board fresh from the factory has nothing to report.
LEMMA NothingReported == BootInit => FaultInv
  BY HalInit, CourseInit DEF BootInit, Init, FaultInv, ArrivalInv, FlowInv, StatusInv, Reporting,
                             AckMatches

-------------------------------------------------------------------------------
(* Which image that was.                                                   *)

\* The fingerprint, once a record holds it, is that of the image that was staged.
OfStaged(r) == r # NoRecord => r.crc32_staged \in {boot_crc32(staged), BOOT_CRC32_UNSET}

SameInv ==
  ~ rearmed =>
    /\ OfStaged(record)
    /\ pc \in {"complete", "settle"} /\ busy => OfStaged(g_staged_record)

\* A record that is settled keeps its fingerprint, or has none.
LEMMA SettledCrc ==
  ASSUME NEW r \in Record \cup {NoRecord}, NEW type \in BootSwapTypes
  PROVE  \A new \in {Completed(r, type), Confirmed(r)} :
            new.crc32_staged = IF r = NoRecord THEN BOOT_CRC32_UNSET ELSE r.crc32_staged
<1>1. boot_record_load(r) \in Record
  BY CrcType DEF boot_record_load, boot_record_defaults, Record, BootSwapTypes
<1>2. boot_record_load(r).crc32_staged = IF r = NoRecord THEN BOOT_CRC32_UNSET ELSE r.crc32_staged
  BY DEF boot_record_load, boot_record_defaults
<1>3. Completed(r, type).crc32_staged = boot_record_load(r).crc32_staged
  BY <1>1 DEF Completed, Record
<1>4. Confirmed(r).crc32_staged = boot_record_load(r).crc32_staged
  BY <1>1 DEF Confirmed, Record
<1> QED BY <1>2, <1>3, <1>4

\* A new fingerprint is stored by an arming, which takes it of the secondary slot.
LEMMA ArmedSame ==
  ASSUME HalInv, Arm, Follow
  PROVE  SameInv'
<1> SUFFICES ASSUME ~ rearmed' PROVE OfStaged(record)' /\ pc' \notin {"complete", "settle"}
  BY DEF SameInv
<1>1. pc = "arm" /\ busy /\ record' = g_staged_record
  BY DEF Arm, EndCommit
<1>2. staged' = secondary
  BY DEF Follow
<1>3. record'.crc32_staged = boot_crc32(secondary)
  BY <1>1 DEF HalInv, LooseInv, StagedInv, CrcInv
<1>4. pc' \in {"idle", "scan"}
  BY DEF Arm, Return
<1> QED BY <1>2, <1>3, <1>4 DEF OfStaged

\* No other step stores one that was not stored.
LEMMA UnarmedSame ==
  ASSUME HalInv, SameInv, [LooseNext]_swap_vars, ~ Arm, UNCHANGED <<rearmed, staged>>
  PROVE  SameInv'
<1> SUFFICES ASSUME ~ rearmed
             PROVE  /\ OfStaged(record)'
                    /\ pc' \in {"complete", "settle"} /\ busy' => OfStaged(g_staged_record)'
  BY DEF SameInv
<1>1. OfStaged(record)
  BY DEF SameInv
<1>2. CASE BeginComplete \/ BeginSettle
  <2>1. /\ g_staged_record' \in {Completed(record, swap_type), Confirmed(record)}
        /\ record' \in {record, NoRecord}
    BY <1>2 DEF BeginComplete, BeginSettle, BeginCommit
  <2>2. record \in Record \cup {NoRecord} /\ swap_type \in BootSwapTypes
    BY DEF HalInv, LooseInv, TypeOK
  <2>3. g_staged_record'.crc32_staged = IF record = NoRecord THEN BOOT_CRC32_UNSET ELSE record.crc32_staged
    BY <2>1, <2>2, SettledCrc
  <2> QED BY <1>1, <2>1, <2>3 DEF OfStaged
<1>3. CASE Complete \/ Settle
  <2>1. pc \in {"complete", "settle"} /\ busy /\ record' = g_staged_record /\ pc' = "idle"
    BY <1>3 DEF Complete, Settle, EndCommit, Return
  <2> QED BY <2>1 DEF SameInv, OfStaged
<1>4. CASE BeginArm
  <2>1. record' \in {record, NoRecord} /\ pc' = "arm"
    BY <1>4 DEF BeginArm, BeginCommit, Begin
  <2> QED BY <1>1, <2>1 DEF OfStaged
<1>5. CASE BeginEraseLog \/ EraseLog \/ Scan \/ BeginLeg \/ Leg \/ BeginLogWrite \/ LogWrite
  <2>1. record' = record
    BY <1>5 DEF BeginEraseLog, EraseLog, Scan, BeginLeg, Leg, BeginLogWrite, LogWrite, LogWriteThen, flash
  <2>2. pc' \in {"complete", "settle"} => ~ busy'
    BY <1>5 DEF BeginEraseLog, EraseLog, Scan, BeginLeg, Leg, BeginLogWrite, LogWrite, LogWriteThen,
                Begin, Return, HalInv, LooseInv, OpInv
  <2> QED BY <1>1, <2>1, <2>2 DEF OfStaged
<1>6. CASE Fail \/ Crash \/ LooseCall
  <2>1. record' = record /\ ~ busy'
    BY <1>6 DEF Fail, Crash, LooseCall, boot_swap_start, boot_swap_process, boot_record_set_image_ok,
                Return, Call, flash, HalInv, LooseInv, OpInv
  <2> QED BY <1>1, <2>1 DEF OfStaged
<1>7. CASE LooseStage \/ UNCHANGED swap_vars
  <2>1. UNCHANGED <<record, pc, busy, g_staged_record>>
    BY <1>7 DEF LooseStage, swap_vars, flash, locals
  <2> QED BY <2>1 DEF SameInv, OfStaged
<1> QED BY <1>2, <1>3, <1>4, <1>5, <1>6, <1>7 DEF LooseNext, SwapStep, FlashStep

LEMMA SameStep == HalInv /\ SameInv /\ [FaultNext]_fault_vars => SameInv'
<1> SUFFICES ASSUME HalInv, SameInv, [FaultNext]_fault_vars PROVE SameInv'
  OBVIOUS
<1>1. [BootNext]_boot_vars
  BY DEF FaultNext, fault_vars
<1>2. [LooseNext]_swap_vars
  BY <1>1, LooseMapping
<1>3. CASE FaultNext /\ Arm
  BY <1>3, ArmedSame DEF FaultNext
<1>4. CASE FaultNext /\ ~ Arm
  BY <1>2, <1>4, UnarmedSame DEF FaultNext, Follow
<1>5. CASE UNCHANGED fault_vars
  <2>1. UNCHANGED <<record, pc, busy, g_staged_record, rearmed, staged>>
    BY <1>5 DEF fault_vars, boot_vars, swap_vars, flash, locals
  <2> QED BY <2>1 DEF SameInv, OfStaged
<1> QED BY <1>3, <1>4, <1>5

(* SWAPPED and REVERTED are reported with no exchange left half done, and  *)
(* over a primary slot with the CRC32 of the image that was staged when    *)
(* the swap was armed, whatever fails, unless that swap was armed over one *)
(* that had moved sectors.  It takes a CRC32 that tells a bootable image   *)
(* from one that is not and is never the value that means "never measured" *)
(* (boot_mailbox.h, boot_status_t).                                        *)
THEOREM Truthful == ASSUME CrcTells PROVE FaultSpec => []AckTruthful
<1>1. FaultInit => FaultInv /\ SameInv
  <2>1. FaultInit => FaultInv
    BY NothingReported DEF FaultInit
  <2>2. FaultInit => SameInv
    BY DEF FaultInit, BootInit, Init, SameInv, OfStaged
  <2> QED BY <2>1, <2>2
<1>2. FaultInv /\ SameInv /\ [FaultNext]_fault_vars => (FaultInv /\ SameInv)'
  <2>1. [FaultNext]_fault_vars => [BootNext]_boot_vars
    BY DEF FaultNext, fault_vars
  <2>2. FaultInv => HalInv
    BY DEF FaultInv
  <2> QED BY <2>1, <2>2, FaultStep, SameStep
<1>3. FaultInv /\ SameInv => AckTruthful
  <2> SUFFICES ASSUME FaultInv, SameInv, phase = "running"
               PROVE  /\ ack.status \in {"SWAPPED", "REVERTED"} =>
                            ~ InFlight /\ (rearmed \/ boot_crc32(primary) = boot_crc32(staged))
                      /\ ack.status = "CONFIRMED" => ~ boot_record_revert_pending(record)
    BY DEF AckTruthful
  <2>1. ack.status = "CONFIRMED" => ~ boot_record_revert_pending(record)
    BY DEF FaultInv, FlowInv, AckMatches
  <2>2. ASSUME ack.status \in {"SWAPPED", "REVERTED"}, ~ rearmed
        PROVE  boot_crc32(primary) = boot_crc32(staged)
    <3>1. record # NoRecord /\ record.crc32_staged = boot_crc32(primary)
      BY <2>2 DEF FaultInv, FlowInv, AckMatches, Arrived
    <3>2. boot_crc32(primary) # BOOT_CRC32_UNSET
      BY DEF CrcTells, FaultInv, HalInv, LooseInv, TypeOK
    <3> QED BY <2>2, <3>1, <3>2 DEF SameInv, OfStaged
  <2>3. ack.status \in {"SWAPPED", "REVERTED"} => ~ InFlight
    BY DEF FaultInv, FlowInv, AckMatches, Arrived
  <2> QED BY <2>1, <2>2, <2>3
<1> QED BY <1>1, <1>2, <1>3, PTL DEF FaultSpec

===============================================================================
