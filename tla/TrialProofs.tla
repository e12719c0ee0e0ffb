------------------------------ MODULE TrialProofs ------------------------------
(***************************************************************************)
(* Proofs about trial boots, for every number of sectors, every content of *)
(* the slots and every CRC function, under any resets, when the driver     *)
(* reports no errors and copies that report success have copied.           *)
(***************************************************************************)
EXTENDS TrialBoot, BootloaderProofs

\* The application leaves the secondary slot and the mailbox to the trial.
TrialRules == TrialStaging = FALSE /\ TrialSwaps = FALSE

NoTears == RecordTears = FALSE

\* The type of a swap, from its arming to the record that ends it.
FlagInv ==
  /\ pc \in {"scan", "leg", "log"} \/ (pc = "complete" /\ ~ busy) => swap_type = record.swap_type
  /\ pc = "arm" /\ busy => g_staged_record.swap_type = swap_type
  /\ pc = "complete" /\ busy =>
        /\ g_staged_record.swap_type = IF swap_type = "TEST" THEN "REVERT" ELSE "NONE"
        /\ g_staged_record.swap_type = "REVERT" => ~ g_staged_record.image_ok
  /\ pc = "settle" /\ busy => g_staged_record.swap_type = "NONE"
  /\ Reverting /\ record.copy_done => ~ record.image_ok

\* The fingerprint of a swap in flight is that of the image it promises.
PrintInv ==
  /\ InFlight => record.crc32_staged = boot_crc32(Incoming)
  /\ pc = "complete" => crc_staged = boot_crc32(primary)

\* When the engine has returned: a trial that is pending has begun in this boot, and what has
\* arrived looks bootable.
FreshInv ==
  phase \in Settled \cup {"swapping", "recovering"} /\ pc = "idle" =>
    /\ boot_record_revert_pending(record) => result = "DONE"
    /\ result \in {"DONE", "REVERTED"} => boot_image_ok(primary)

\* What a revert is to put back is where the revert will look for it.
PreviousInv ==
  /\ InFlight /\ record.swap_type = "TEST" => Outgoing = previous
  /\ Reverting => Stored = previous
  /\ Reverting /\ request # NoRequest => request.command # "SWAP"
  /\ pc \in {"erase_log", "arm"} =>
        /\ fn = "start" => swap_type \in {"PERM", "TEST"} /\ ~ Reverting
        /\ fn = "process" => swap_type = "REVERT" /\ ~ InFlight /\ secondary = previous
  /\ pc = "complete" =>
        /\ swap_type = "TEST" => secondary = previous
        /\ swap_type = "REVERT" => primary = previous

\* What is reported as reverted has been.
RevertedInv ==
  /\ phase = "swapping" /\ pc = "idle" /\ result = "REVERTED" =>
        primary = previous /\ boot_image_ok(primary)
  /\ g_boot_status = "REVERTED" =>
        /\ phase \in Settled
        /\ primary = previous /\ boot_image_ok(primary)
  /\ PreviousRestored

\* Nobody runs or is put back that was not accepted, but for the image on trial.
GuardInv ==
  /\ ~ Reverting => Resident \notin unconfirmed
  /\ Reverting => Stored \notin unconfirmed
  /\ InFlight /\ record.swap_type = "PERM" => Incoming \notin unconfirmed
  /\ pc \in {"erase_log", "arm"} /\ fn = "process" => Reverting
  /\ pc = "complete" => InFlight /\ swap_type = record.swap_type
  /\ pc = "settle" /\ busy => primary \notin unconfirmed

-------------------------------------------------------------------------------
(* The records and the steps that write them.                              *)

\* What the three records that are committed say.
LEMMA WrittenRecords ==
  ASSUME NEW r \in Record \cup {NoRecord}, NEW type \in BootSwapTypes, NEW crc \in Crc32
  PROVE  /\ Requested(r, type, crc).swap_type = type
         /\ ~ Requested(r, type, crc).copy_done
         /\ Completed(r, type).swap_type = IF type = "TEST" THEN "REVERT" ELSE "NONE"
         /\ Completed(r, type).image_ok = (type # "TEST")
         /\ Confirmed(r).swap_type = "NONE"
<1>1. boot_record_load(r) \in Record
  BY CrcType DEF boot_record_load, boot_record_defaults, Record, BootSwapTypes
<1> QED BY <1>1 DEF Requested, Completed, Confirmed, Record

\* The record changes at the end of a commit, or is lost at its beginning.
LEMMA RecordSteps ==
  ASSUME [Next]_swap_vars
  PROVE  \/ record' \in {record, NoRecord} /\ (NoTears => record' = record)
         \/ Arm \/ Complete \/ Settle
<1>1. CASE BeginArm \/ BeginComplete \/ BeginSettle
  BY <1>1 DEF BeginArm, BeginComplete, BeginSettle, BeginCommit, NoTears
<1>2. CASE BeginEraseLog \/ EraseLog \/ BeginLeg \/ Leg \/ BeginLogWrite \/ LogWrite
  BY <1>2 DEF BeginEraseLog, EraseLog, BeginLeg, Leg, BeginLogWrite, LogWrite, LogWriteThen
<1>3. CASE Scan \/ Fail \/ Crash \/ Caller \/ Stage \/ UNCHANGED swap_vars
  BY <1>3 DEF Scan, Fail, Crash, Caller, boot_swap_start, boot_swap_process,
              boot_record_set_image_ok, Stage, swap_vars, flash
<1> QED BY <1>1, <1>2, <1>3 DEF Next, SwapStep, FlashStep

\* While the record stays as it is, only a download changes what the boots make of the slots.
LEMMA SlotsKept ==
  ASSUME BootInv, PromiseInv, Faithful, [BootNext]_boot_vars, record' = record
  PROVE  /\ InFlight' = InFlight
         /\ Resident' = Resident
         /\ Stored' = Stored \/ (AppStage /\ ~ InFlight)
<1>1. InFlight' = InFlight
  BY DEF InFlight
<1>2. [Next]_swap_vars /\ [Exchange!Next]_(Exchange!vars)
  BY BootMapping, StepMapping DEF BootInv, PromiseInv
<1>3. Resident' = Resident /\ (Stored' = Stored \/ ~ InFlight)
  <2>1. CASE Exchange!Stage
    BY <1>1, <2>1 DEF Exchange!Stage, Resident
  <2>2. CASE Exchange!Arm \/ Exchange!Forget \/ Exchange!Exchange
    BY <1>1, <2>2 DEF Exchange!Arm, Exchange!Forget, Exchange!Exchange
  <2>3. CASE UNCHANGED Exchange!vars
    BY <2>3 DEF Exchange!vars, Resident, Stored
  <2> QED BY <1>2, <2>1, <2>2, <2>3 DEF Exchange!Next
<1>4. ASSUME ~ InFlight PROVE secondary' = secondary \/ AppStage
  <2>1. ~ BeginLeg /\ ~ Leg
    BY <1>4 DEF BeginLeg, Leg, Begin, BootInv, EngineInv, ControlInv
  <2>2. CASE Engine
    BY <2>1, <2>2 DEF Engine, FlashStep, BeginEraseLog, EraseLog, BeginArm, Arm, Scan, BeginLogWrite,
         LogWrite, LogWriteThen, BeginComplete, Complete, BeginSettle, Settle, BeginCommit, EndCommit,
         Fail, flash
  <2>3. CASE \/ StartRequested \/ Confirm \/ ProcessSwap \/ Recover \/ RecoverArmed \/ Reset
    BY <2>3 DEF StartRequested, Confirm, ProcessSwap, Recover, RecoverArmed, Reset, Crash,
         boot_swap_start, boot_swap_process, boot_record_set_image_ok, flash
  <2>4. CASE \/ NothingRequested \/ StartReturned \/ ConfirmNothing \/ ConfirmReturned \/ RefuseRequest
             \/ boot_mailbox_clear \/ ProcessReturned \/ PrimaryUsable \/ RecoverRefused
             \/ RecoverReturned \/ boot_swap_log_count \/ boot_flash_close \/ boot_jump_to_primary
             \/ boot_fatal \/ AppRequest \/ UNCHANGED boot_vars
    BY <2>4 DEF NothingRequested, StartReturned, ConfirmNothing, ConfirmReturned, RefuseRequest,
         boot_mailbox_clear, ProcessReturned, PrimaryUsable, RecoverRefused, RecoverReturned,
         boot_swap_log_count, boot_flash_close, boot_jump_to_primary, boot_fatal, AppRequest,
         boot_vars, swap_vars, flash
  <2> QED BY <2>2, <2>3, <2>4 DEF BootNext, BootStep, RecoverStarted
<1> QED BY <1>1, <1>3, <1>4 DEF Stored

\* What a resume would make of the slots when a swap is armed, and when one is complete.
LEMMA ArmedSlots ==
  ASSUME EngineInv, Arm
  PROVE  /\ pc = "arm" /\ busy /\ fn \in {"start", "process"}
         /\ record' = g_staged_record /\ InFlight'
         /\ Resident = primary /\ Stored = secondary
         /\ Outgoing' = primary /\ Incoming' = secondary
         /\ Resident' = primary /\ Stored' = secondary
<1> USE DEF EngineInv
<1>1. /\ UNCHANGED <<primary, secondary, scratch, log>> /\ pc = "arm" /\ busy
      /\ record' = g_staged_record /\ Untouched /\ fn \in {"start", "process"}
  BY DEF Arm, EndCommit, ControlInv, LogInv
<1>2. InFlight'
  BY <1>1 DEF StagedRecordInv, InFlight
<1>3. Outgoing = primary /\ Incoming = secondary
  BY <1>1, UntouchedMapping
<1>4. Outgoing' = primary /\ Incoming' = secondary
  BY <1>1, <1>3 DEF Outgoing, Incoming, Logged
<1> QED BY <1>1, <1>2, <1>3, <1>4 DEF Resident, Stored

\* After the last leg the two images are where they are to be.
LEMMA CompleteSlots ==
  ASSUME EngineInv, pc = "complete"
  PROVE  Outgoing = secondary /\ Incoming = primary
  BY ExchangedMapping DEF EngineInv, LogInv

-------------------------------------------------------------------------------
(* The type of a swap.                                                     *)

\* A return leaves only the last part to be shown.
LEMMA ReturnFlags ==
  ASSUME NEW outcome, Return(outcome), (Reverting /\ record.copy_done => ~ record.image_ok)'
  PROVE  FlagInv'
  BY DEF Return, FlagInv

\* The beginning of a commit: what is staged says what the swap is.
LEMMA BeginFlags ==
  ASSUME EngineInv, FlagInv, BeginArm \/ BeginComplete \/ BeginSettle
  PROVE  FlagInv'
<1> USE DEF EngineInv, FlagInv
<1>1. record' \in {record, NoRecord} /\ UNCHANGED <<pc, swap_type>> /\ busy' /\ ~ busy
  BY DEF BeginArm, BeginComplete, BeginSettle, BeginCommit, Begin
<1>2. (Reverting /\ record.copy_done => ~ record.image_ok)'
  BY <1>1 DEF Reverting
<1>3. CASE BeginArm
  <2>1. pc = "arm" /\ g_staged_record' = Requested(record, swap_type, crc_staged)
    BY <1>3 DEF BeginArm, BeginCommit, Begin
  <2>2. g_staged_record'.swap_type = swap_type
    BY <2>1, WrittenRecords DEF TypeOK
  <2> QED BY <1>1, <1>2, <2>1, <2>2
<1>4. CASE BeginComplete
  <2>1. pc = "complete" /\ g_staged_record' = Completed(record, swap_type)
    BY <1>4 DEF BeginComplete, BeginCommit, Begin
  <2>2. /\ g_staged_record'.swap_type = IF swap_type = "TEST" THEN "REVERT" ELSE "NONE"
        /\ g_staged_record'.image_ok = (swap_type # "TEST")
    BY <2>1, WrittenRecords, CrcType DEF TypeOK
  <2> QED BY <1>1, <1>2, <2>1, <2>2
<1>5. CASE BeginSettle
  <2>1. pc = "settle" /\ g_staged_record' = Confirmed(record)
    BY <1>5 DEF BeginSettle, BeginCommit, Begin
  <2>2. g_staged_record'.swap_type = "NONE"
    BY <2>1, WrittenRecords, CrcType DEF TypeOK
  <2> QED BY <1>1, <1>2, <2>1, <2>2
<1> QED BY <1>3, <1>4, <1>5

\* Every step keeps the type of the swap.
LEMMA FlagStep == EngineInv /\ FlagInv /\ [Next]_swap_vars => FlagInv'
<1> SUFFICES ASSUME EngineInv, FlagInv, [Next]_swap_vars PROVE FlagInv'
  OBVIOUS
<1>1. CASE BeginArm \/ BeginComplete \/ BeginSettle
  BY <1>1, BeginFlags
<1>2. CASE Arm
  <2>1. /\ pc = "arm" /\ busy /\ record' = g_staged_record
        /\ Return("SUCCESS") \/ (pc' = "scan" /\ UNCHANGED swap_type)
    BY <1>2 DEF Arm, EndCommit
  <2>2. record'.swap_type = swap_type /\ boot_record_swap_in_progress(record')
    BY <2>1 DEF FlagInv, EngineInv, StagedRecordInv
  <2>3. (Reverting /\ record.copy_done => ~ record.image_ok)'
    BY <2>2 DEF Reverting, boot_record_swap_in_progress
  <2> QED BY <2>1, <2>2, <2>3, ReturnFlags DEF FlagInv
<1>3. CASE Complete \/ Settle
  <2>1. /\ pc \in {"complete", "settle"} /\ busy /\ record' = g_staged_record
        /\ \E outcome : Return(outcome)
    BY <1>3 DEF Complete, Settle, EndCommit
  <2>2. (Reverting /\ record.copy_done => ~ record.image_ok)'
    BY <2>1 DEF FlagInv, Reverting
  <2> QED BY <2>1, <2>2, ReturnFlags
<1>4. CASE BeginEraseLog \/ Scan \/ BeginLeg \/ Leg \/ BeginLogWrite \/ LogWrite
  <2>1. /\ UNCHANGED <<record, swap_type>>
        /\ pc \in {"erase_log", "scan", "leg", "log"} /\ pc' \in {"erase_log", "scan", "leg", "log", "complete"}
        /\ pc' = "erase_log" <=> pc = "erase_log"
        /\ pc' = "complete" => ~ busy'
    BY <1>4 DEF BeginEraseLog, Scan, BeginLeg, Leg, BeginLogWrite, LogWrite, LogWriteThen, Begin, OpOf,
                flash, EngineInv, ControlInv
  <2> QED BY <2>1 DEF FlagInv, Reverting
<1>5. CASE EraseLog
  <2>1. /\ record' = record
        /\ (\E outcome : Return(outcome)) \/ (pc' = "arm" /\ ~ busy')
    BY <1>5 DEF EraseLog
  <2> QED BY <2>1, ReturnFlags DEF FlagInv, Reverting
<1>6. CASE Fail \/ Crash
  <2>1. record' = record /\ \E outcome : Return(outcome)
    BY <1>6 DEF Fail, Crash, flash
  <2> QED BY <2>1, ReturnFlags DEF FlagInv, Reverting
<1>7. CASE Caller
  <2>1. record' = record /\ ~ busy
    BY <1>7 DEF Caller, boot_swap_start, boot_swap_process, boot_record_set_image_ok, flash, Call,
                EngineInv, ControlInv
  <2>2. (Reverting /\ record.copy_done => ~ record.image_ok)'
    BY <2>1 DEF FlagInv, Reverting
  <2>3. ASSUME NEW op, NEW f, NEW type, NEW crc, Call(op, f, type, crc),
               op \in {"erase_log", "settle"} \/ (op = "scan" /\ type = record.swap_type)
        PROVE  FlagInv'
    BY <2>1, <2>2, <2>3 DEF Call, FlagInv
  <2>4. \/ \E outcome : Return(outcome)
        \/ \E f, type, crc : Call("erase_log", f, type, crc) \/ Call("settle", f, type, crc)
        \/ \E f, crc : Call("scan", f, record.swap_type, crc)
    BY <1>7 DEF Caller, boot_swap_start, boot_swap_process, boot_record_set_image_ok
  <2> QED BY <2>2, <2>3, <2>4, ReturnFlags
<1>8. CASE Stage \/ UNCHANGED swap_vars
  <2>1. UNCHANGED <<record, pc, busy, swap_type, g_staged_record>>
    BY <1>8 DEF Stage, locals, swap_vars, flash
  <2> QED BY <2>1 DEF FlagInv, Reverting
<1> QED BY <1>1, <1>2, <1>3, <1>4, <1>5, <1>6, <1>7, <1>8 DEF Next, SwapStep, FlashStep

\* While the record that ends a swap is written, the slots and the locals stay as they were.
LEMMA CompleteBegun ==
  ASSUME EngineInv, [Next]_swap_vars, pc' = "complete", busy'
  PROVE  pc = "complete" /\ UNCHANGED <<primary, secondary, crc_staged, swap_type>>
<1>1. CASE BeginComplete
  BY <1>1 DEF BeginComplete, BeginCommit, Begin
<1>2. CASE UNCHANGED swap_vars
  BY <1>2 DEF swap_vars, flash, locals
<1>3. CASE Stage
  BY <1>3 DEF Stage, locals, EngineInv, ControlInv
<1>4. CASE \/ BeginEraseLog \/ EraseLog \/ BeginArm \/ Arm \/ Scan \/ BeginLeg \/ Leg
           \/ BeginLogWrite \/ LogWrite \/ Complete \/ BeginSettle \/ Settle \/ Fail \/ Crash
  BY <1>4
  DEF BeginEraseLog, EraseLog, BeginArm, Arm, Scan, BeginLeg, Leg, BeginLogWrite, LogWrite,
      LogWriteThen, Complete, BeginSettle, Settle, Fail, Crash, BeginCommit, EndCommit, Begin,
      Return, OpOf, EngineInv, ControlInv
<1>5. CASE Caller
  BY <1>5 DEF Caller, boot_swap_start, boot_swap_process, boot_record_set_image_ok, Call, Return
<1> QED BY <1>1, <1>2, <1>3, <1>4, <1>5 DEF Next, SwapStep, FlashStep

-------------------------------------------------------------------------------
(* The fingerprint of a swap in flight.                                    *)

\* An image that is promised keeps the fingerprint that was taken when it was staged.
LEMMA PrintStep ==
  EngineInv /\ ArmedCrcInv /\ VerifyInv /\ CopyInv /\ Faithful /\ PrintInv /\ [Next]_swap_vars
  /\ EngineInv' /\ VerifyInv' => PrintInv'
<1> SUFFICES ASSUME EngineInv, ArmedCrcInv, VerifyInv, CopyInv, Faithful, PrintInv, [Next]_swap_vars,
                    EngineInv', VerifyInv'
             PROVE  PrintInv'
  OBVIOUS
<1>1. ASSUME InFlight' PROVE record'.crc32_staged = boot_crc32(Incoming')
  <2>1. CASE Arm
    <3>1. record' = g_staged_record /\ Incoming' = secondary /\ pc = "arm" /\ busy
      BY <2>1, ArmedSlots
    <3> QED BY <3>1 DEF ArmedCrcInv
  <2>2. CASE Complete \/ Settle
    BY <1>1, <2>2 DEF Complete, Settle, EndCommit, EngineInv, StagedRecordInv, InFlight
  <2>3. CASE record' \in {record, NoRecord}
    <3>1. record' = record /\ InFlight /\ InFlight' = InFlight
      BY <1>1, <2>3, NothingInFlight DEF InFlight
    <3>2. [Exchange!Next]_(Exchange!vars)
      BY StepMapping
    <3>3. Incoming' = Incoming
      BY <3>1, <3>2 DEF Exchange!Next, Exchange!Stage, Exchange!Arm, Exchange!Forget, Exchange!Exchange,
                        Exchange!vars
    <3> QED BY <3>1, <3>3 DEF PrintInv
  <2> QED BY <2>1, <2>2, <2>3, RecordSteps
<1>2. ASSUME pc' = "complete" PROVE crc_staged' = boot_crc32(primary')
  <2>1. CASE busy'
    <3>1. pc = "complete" /\ UNCHANGED <<primary, crc_staged>>
      BY <1>2, <2>1, CompleteBegun
    <3> QED BY <3>1 DEF PrintInv
  <2>2. CASE ~ busy'
    <3>1. InFlight' /\ crc_staged' = record'.crc32_staged
      BY <1>2, <2>2 DEF EngineInv, ControlInv, VerifyInv
    <3>2. (EngineInv /\ pc = "complete")'
      BY <1>2
    <3>3. (Incoming = primary)'
      BY <3>2, CompleteSlots, PTL
    <3> QED BY <1>1, <3>1, <3>3
  <2> QED BY <2>1, <2>2
<1> QED BY <1>1, <1>2 DEF PrintInv

-------------------------------------------------------------------------------
(* A trial that is pending at a hand-off has begun in this boot.           *)

\* A step of the engine that returns from boot_swap_process() ends a swap or settles a trial.
LEMMA ProcessEnds ==
  ASSUME NoErrors, EngineInv, FlashStep, fn = "process", pc' = "idle"
  PROVE  Complete \/ Settle
<1>1. ~ EraseLog
  <2> SUFFICES ASSUME EraseLog PROVE FALSE
    OBVIOUS
  <2>1. log' = Erased(log)
    BY DEF EraseLog, NoErrors
  <2>2. boot_flash_df_blank(log')
    BY <2>1 DEF boot_flash_df_blank, Erased
  <2>3. pc' = "arm"
    BY <2>2 DEF EraseLog
  <2> QED BY <2>3
<1>2. ~ Arm
  BY DEF Arm, Return
<1> QED
  BY <1>1, <1>2 DEF FlashStep, BeginEraseLog, BeginArm, Scan, BeginLeg, Leg, BeginLogWrite, LogWrite,
                    LogWriteThen, BeginComplete, BeginSettle, BeginCommit, Begin, OpOf

\* A completed swap leaves a trial pending only if it is reported as done.
LEMMA CompleteFresh ==
  ASSUME EngineInv, FlagInv, PrintInv, Complete
  PROVE  /\ boot_record_revert_pending(record') => swap_type = "TEST" /\ result' = "DONE"
         /\ ~ boot_record_revert_pending(record') => swap_type # "TEST"
         /\ result' = "REVERTED" => swap_type = "REVERT"
<1>1. /\ pc = "complete" /\ busy /\ record' = g_staged_record
      /\ Return(CASE ~ CrcOk -> "CRC_FAIL"
                  [] CrcOk /\ swap_type = "REVERT" -> "REVERTED"
                  [] CrcOk /\ swap_type # "REVERT" -> "DONE")
  BY DEF Complete, EndCommit
<1>2. CrcOk
  BY <1>1 DEF CrcOk, PrintInv
<1>3. result' = IF swap_type = "REVERT" THEN "REVERTED" ELSE "DONE"
  BY <1>1, <1>2 DEF Return
<1>4. record' # NoRecord /\ ~ boot_record_swap_in_progress(record')
  BY <1>1 DEF EngineInv, StagedRecordInv
<1> QED BY <1>1, <1>3, <1>4 DEF FlagInv, boot_record_revert_pending, boot_record_swap_in_progress

\* Every step keeps it so.
LEMMA FreshStep ==
  ASSUME NoErrors, BootInv, TrapInv, FlagInv, PrintInv, FreshInv, [BootNext]_boot_vars
  PROVE  FreshInv'
<1> DEFINE Back == Settled \cup {"swapping", "recovering"}
<1> SUFFICES ASSUME phase' \in Back, pc' = "idle"
             PROVE  /\ boot_record_revert_pending(record') => result' = "DONE"
                    /\ result' \in {"DONE", "REVERTED"} => boot_image_ok(primary')
  BY DEF FreshInv, boot_image_ok, boot_record_revert_pending
<1>1. CASE Engine
  <2>1. FlashStep /\ phase' = phase
    BY <1>1 DEF Engine, Fail, NoErrors
  <2>2. pc # "idle"
    BY <2>1, EngineCall
  <2>3. fn = "process"
    BY <2>1, <2>2 DEF BootInv, PhaseInv, CallInv, Settled
  <2>4. CASE Complete
    <3>1. pc = "complete" /\ primary' = primary
      BY <2>4 DEF Complete, EndCommit
    <3> QED BY <2>4, <3>1, CompleteFresh DEF BootInv, TrapInv, boot_image_ok
  <2>5. CASE Settle
    <3>1. pc = "settle" /\ busy /\ record' = g_staged_record /\ result' \in {"NONE", "SUCCESS"}
      BY <2>5 DEF Settle, EndCommit, Return
    <3> QED BY <3>1 DEF FlagInv, boot_record_revert_pending
  <2> QED BY <2>1, <2>3, <2>4, <2>5, ProcessEnds DEF BootInv
<1>2. CASE ProcessSwap \/ RecoverArmed
  <2>1. boot_swap_process
    BY <1>2 DEF ProcessSwap, RecoverArmed
  <2> QED BY <2>1 DEF boot_swap_process, Call, Return, flash, InFlight, boot_record_swap_in_progress,
                      boot_record_revert_pending
<1>3. CASE \/ ProcessReturned \/ PrimaryUsable \/ RecoverRefused \/ RecoverReturned
           \/ boot_swap_log_count \/ boot_flash_close \/ boot_jump_to_primary \/ boot_fatal
  <2>1. /\ pc = "idle" /\ UNCHANGED swap_vars
        /\ phase \in {"swapping", "check", "recover", "recovering", "count", "close", "handoff"}
        /\ phase = "recover" => result # "SUCCESS"
    BY <1>3 DEF ProcessReturned, PrimaryUsable, RecoverRefused, RecoverReturned, boot_swap_log_count,
                boot_flash_close, boot_jump_to_primary, boot_fatal, Goto
  <2>2. phase \in Back
    BY <2>1 DEF BootInv, PhaseInv, SettledInv, Settled
  <2>3. UNCHANGED <<record, result, primary>>
    BY <2>1 DEF swap_vars, flash, locals
  <2> QED BY <2>1, <2>2, <2>3 DEF FreshInv
<1>4. CASE AppStage \/ AppRequest \/ UNCHANGED boot_vars
  <2>1. UNCHANGED <<pc, phase, record, result, primary>>
    BY <1>4, Zenon DEF AppStage, AppRequest, boot_vars, swap_vars, flash, locals
  <2> QED BY <2>1 DEF FreshInv
<1>5. CASE \/ NothingRequested \/ StartRequested \/ StartReturned \/ ConfirmNothing \/ Confirm
           \/ ConfirmReturned \/ RefuseRequest \/ boot_mailbox_clear \/ Recover \/ Reset
  <2>1. phase' \in {"mailbox", "requested", "confirming", "clear", "swap", "recover"}
    BY <1>5 DEF NothingRequested, StartRequested, StartReturned, ConfirmNothing, Confirm,
                ConfirmReturned, RefuseRequest, boot_mailbox_clear, Recover, Reset, Goto
  <2> QED BY <2>1 DEF Settled
<1> QED BY <1>1, <1>2, <1>3, <1>4, <1>5 DEF BootNext, BootStep, RecoverStarted

\* What the boots alone keep, whatever the application stages and requests.
FlowInv ==
  BootInv /\ PromiseInv /\ TrapInv /\ ArmedCrcInv /\ VerifyInv /\ FlagInv /\ PrintInv /\ FreshInv

\* It holds on a board fresh from the factory.
LEMMA FlowInit == BootInit => FlowInv
<1> SUFFICES ASSUME BootInit PROVE FlowInv
  OBVIOUS
<1>1. BootInv /\ ArmedCrcInv /\ VerifyInv
  BY BootInitInv, VerifyInit DEF BootInit
<1>2. ~ InFlight /\ ~ Reverting
  BY NothingInFlight DEF BootInit, Init, InFlight, Reverting
<1>3. PromiseInv /\ TrapInv /\ FlagInv /\ PrintInv /\ FreshInv
  BY <1>2 DEF BootInit, Init, PromiseInv, CopyInv, TrapInv, TrapsOnlyWhenEmpty, FlagInv, PrintInv,
              FreshInv, Settled
<1> QED BY <1>1, <1>3 DEF FlowInv

\* Every step keeps it.
LEMMA FlowStep == NoErrors /\ Faithful /\ FlowInv /\ [BootNext]_boot_vars => FlowInv'
<1> SUFFICES ASSUME NoErrors, Faithful, FlowInv, [BootNext]_boot_vars PROVE FlowInv'
  OBVIOUS
<1> USE DEF FlowInv
<1>1. BootInv' /\ EngineInv /\ EngineInv' /\ [Next]_swap_vars
  BY BootStepInv, BootMapping DEF BootInv
<1>2. PromiseInv'
  BY <1>1, PromiseStep
<1>3. TrapInv'
  BY <1>1, <1>2, TrapStep
<1>4. ArmedCrcInv' /\ VerifyInv' /\ FlagInv'
  BY <1>1, VerifyStep, FlagStep
<1>5. PrintInv'
  BY <1>1, <1>4, PrintStep DEF PromiseInv
<1>6. FreshInv'
  BY FreshStep
<1> QED BY <1>1, <1>2, <1>3, <1>4, <1>5, <1>6

\* The history variables change with the steps of the boots, and stutter with them.
LEMMA TrackStep == [BootNext /\ Track]_trial_vars => [BootNext]_boot_vars /\ Track
<1> SUFFICES ASSUME UNCHANGED trial_vars PROVE UNCHANGED boot_vars /\ Track
  OBVIOUS
<1>1. UNCHANGED boot_vars /\ UNCHANGED <<pc, busy, unconfirmed, previous>>
  BY DEF trial_vars, boot_vars, swap_vars, locals
<1>2. ~ Arm /\ ~ BeginSettle
  BY <1>1 DEF Arm, EndCommit, Return, BeginSettle, BeginCommit, Begin
<1> QED BY <1>1, <1>2 DEF Track

\* It holds in every behaviour with its history.
LEMMA FlowInvariant == ASSUME NoErrors, Faithful PROVE TrialSpec => []FlowInv
<1>1. FlowInv /\ [BootNext /\ Track]_trial_vars => FlowInv'
  BY FlowStep, TrackStep
<1> QED BY <1>1, FlowInit, PTL DEF TrialSpec

(* An image runs on trial only in the boot that installed it: when the     *)
(* flag is set at a hand-off, the exchange finished in this very boot, and *)
(* the next boot will revert it if it does not confirm (boot_swap.c,       *)
(* boot_swap_process).                                                     *)
THEOREM TrialFresh == ASSUME NoErrors, Faithful PROVE TrialSpec => []TrialIsFresh
<1>1. FlowInv => TrialIsFresh
  BY DEF FlowInv, BootInv, PhaseInv, CallInv, FreshInv, Settled, TrialIsFresh
<1> QED BY <1>1, FlowInvariant, PTL

-------------------------------------------------------------------------------
(* What a revert puts back.                                                *)

\* In the bootloader a trial is reverted by boot_swap_process(), with no request in the mailbox.
LEMMA ProcessPhase ==
  ASSUME BootInv, pc # "idle", fn = "process"
  PROVE  phase \in {"swapping", "recovering"} /\ request = NoRequest
  BY DEF BootInv, PhaseInv, CallInv, RequestInv

\* The engine is not entered again before it has returned.
LEMMA BusySteps ==
  ASSUME NoErrors, BootInv, [BootNext]_boot_vars, pc # "idle"
  PROVE  \/ FlashStep /\ UNCHANGED <<phase, request, ack, ram>>
         \/ Crash /\ request' \in {request, NoRequest} /\ phase' = "mailbox"
         \/ UNCHANGED boot_vars
<1>1. phase # "running"
  BY DEF BootInv, PhaseInv, CallInv
<1> QED
  BY <1>1
  DEF BootNext, BootStep, RecoverStarted, NothingRequested, StartRequested, StartReturned, ConfirmNothing, Confirm,
      ConfirmReturned, RefuseRequest, boot_mailbox_clear, ProcessSwap, ProcessReturned, PrimaryUsable,
      Recover, RecoverArmed, RecoverRefused, RecoverReturned, boot_swap_log_count, boot_flash_close,
      boot_jump_to_primary, boot_fatal, Engine, Fail, AppStage, AppRequest, Reset, Goto, NoErrors

\* A trial that is settled in the record, but not in this boot, is pending.
LEMMA TrialPending ==
  ASSUME FlagInv, Reverting, ~ InFlight
  PROVE  boot_record_revert_pending(record)
  BY DEF FlagInv, Reverting, InFlight, boot_record_swap_in_progress, boot_record_revert_pending

\* The engine is called to arm a swap by a request, by the recovery, or to revert a trial.
LEMMA ArmingCalls ==
  ASSUME BootInv, TrapInv, FlagInv, FreshInv, PreviousInv, [BootNext]_boot_vars,
         pc = "idle", pc' \in {"erase_log", "arm"}
  PROVE  /\ UNCHANGED flash
         /\ fn' = "start" => swap_type' \in {"PERM", "TEST"} /\ ~ Reverting
         /\ fn' = "process" => swap_type' = "REVERT" /\ boot_record_revert_pending(record)
<1>1. CASE StartRequested
  <2>1. /\ boot_swap_start(RequestedType) /\ RequestedType \in {"PERM", "TEST"}
        /\ request # NoRequest /\ request.command = "SWAP"
    BY <1>1 DEF StartRequested, RequestedType
  <2>2. ~ Reverting
    BY <2>1 DEF PreviousInv
  <2> QED BY <2>1, <2>2 DEF boot_swap_start, Call, Return
<1>2. CASE Recover
  <2>1. boot_swap_start("PERM") /\ phase = "check" /\ ~ boot_image_ok(primary)
    BY <1>2 DEF Recover, Goto
  <2>2. ~ InFlight
    BY <2>1 DEF BootInv, PhaseInv, SettledInv, Settled
  <2>3. ~ Reverting
    BY <2>1, <2>2, TrialPending DEF FreshInv, Settled
  <2> QED BY <2>1, <2>3 DEF boot_swap_start, Call, Return
<1>3. CASE ProcessSwap \/ RecoverArmed
  <2>1. boot_swap_process
    BY <1>3 DEF ProcessSwap, RecoverArmed
  <2> QED BY <2>1 DEF boot_swap_process, Call, Return
<1>4. CASE Confirm \/ Reset
  BY <1>4 DEF Confirm, Reset, Crash, boot_record_set_image_ok, Call, Return
<1>5. CASE Engine
  BY <1>5, EngineCall DEF Engine, Fail
<1>6. CASE \/ NothingRequested \/ StartReturned \/ ConfirmNothing \/ ConfirmReturned \/ RefuseRequest
           \/ boot_mailbox_clear \/ ProcessReturned \/ PrimaryUsable \/ RecoverRefused
           \/ RecoverReturned \/ boot_swap_log_count \/ boot_flash_close \/ boot_jump_to_primary
           \/ boot_fatal \/ AppStage \/ AppRequest \/ UNCHANGED boot_vars
  <2>1. pc' = pc
    BY <1>6, Zenon DEF NothingRequested, StartReturned, ConfirmNothing, ConfirmReturned, RefuseRequest,
         boot_mailbox_clear, ProcessReturned, PrimaryUsable, RecoverRefused, RecoverReturned,
         boot_swap_log_count, boot_flash_close, boot_jump_to_primary, boot_fatal, AppStage, AppRequest,
         boot_vars, swap_vars, locals
  <2> QED BY <2>1
<1> QED BY <1>1, <1>2, <1>3, <1>4, <1>5, <1>6 DEF BootNext, BootStep, RecoverStarted

\* A call that arms a swap keeps what it was called for until the swap is armed.
LEMMA ArmingSteps ==
  ASSUME EngineInv, FlashStep, pc' \in {"erase_log", "arm"}
  PROVE  /\ pc \in {"erase_log", "arm"} /\ UNCHANGED <<secondary, fn, swap_type>>
         /\ record' \in {record, NoRecord} /\ (NoTears => record' = record)
<1>1. CASE BeginEraseLog \/ BeginArm
  BY <1>1 DEF BeginEraseLog, BeginArm, BeginCommit, Begin, NoTears
<1>2. CASE EraseLog
  BY <1>2 DEF EraseLog, Return
<1>3. CASE \/ Arm \/ Scan \/ BeginLeg \/ Leg \/ BeginLogWrite \/ LogWrite \/ BeginComplete
           \/ Complete \/ BeginSettle \/ Settle
  BY <1>3 DEF Arm, Scan, BeginLeg, Leg, BeginLogWrite, LogWrite, LogWriteThen, BeginComplete,
              Complete, BeginSettle, Settle, BeginCommit, EndCommit, Begin, Return, OpOf
<1> QED BY <1>1, <1>2, <1>3 DEF FlashStep

\* A request is in the mailbox because it was, or because the application has just made it.
LEMMA RequestSteps ==
  ASSUME [BootNext]_boot_vars
  PROVE  \/ request' \in {request, NoRequest}
         \/ AppRequest /\ UNCHANGED record
  BY DEF BootNext, BootStep, RecoverStarted, NothingRequested, StartRequested, StartReturned, ConfirmNothing, Confirm,
         ConfirmReturned, RefuseRequest, boot_mailbox_clear, ProcessSwap, ProcessReturned,
         PrimaryUsable, Recover, RecoverArmed, RecoverRefused, RecoverReturned, boot_swap_log_count,
         boot_flash_close, boot_jump_to_primary, boot_fatal, Engine, AppStage, AppRequest, Reset,
         boot_vars, swap_vars, flash

\* Every step keeps what a revert needs where the revert will look for it.
LEMMA PreviousStep ==
  ASSUME NoErrors, Faithful, TrialRules, FlowInv, FlowInv', PreviousInv, [BootNext]_boot_vars, Track
  PROVE  PreviousInv'
<1> USE DEF FlowInv
<1>1. EngineInv /\ [Next]_swap_vars
  BY BootMapping DEF BootInv
<1>2. CASE Arm
  <2>1. /\ pc = "arm" /\ busy /\ fn \in {"start", "process"} /\ record' = g_staged_record /\ InFlight'
        /\ Outgoing' = primary /\ Stored' = secondary
    BY <1>1, <1>2, ArmedSlots
  <2>2. pc' \in {"idle", "scan"}
    BY <1>2 DEF Arm, Return
  <2>3. record'.swap_type = swap_type /\ previous' = IF swap_type = "TEST" THEN primary ELSE previous
    BY <1>2, <2>1 DEF FlagInv, Track
  <2>4. swap_type = "REVERT" => fn = "process" /\ secondary = previous
    BY <2>1 DEF PreviousInv
  <2>5. fn = "process" => request' = NoRequest
    BY <2>1, ProcessPhase, BusySteps DEF boot_vars
  <2> QED BY <2>1, <2>2, <2>3, <2>4, <2>5 DEF PreviousInv, Reverting
<1>3. CASE ~ Arm
  <2>1. previous' = previous
    BY <1>3 DEF Track
  <2>2. /\ (InFlight /\ record.swap_type = "TEST" => Outgoing = previous)'
        /\ (Reverting => Stored = previous)'
        /\ (Reverting /\ request # NoRequest => request.command # "SWAP")'
    <3>1. CASE Complete
      <4>1. /\ pc = "complete" /\ busy /\ fn = "process" /\ record' = g_staged_record
            /\ secondary' = secondary /\ ~ InFlight'
        BY <1>1, <3>1 DEF Complete, EndCommit, EngineInv, ControlInv, StagedRecordInv, InFlight
      <4>2. Reverting' => swap_type = "TEST"
        BY <4>1 DEF FlagInv, Reverting
      <4>3. Stored' = secondary /\ (swap_type = "TEST" => secondary = previous)
        BY <4>1 DEF Stored, PreviousInv
      <4>4. request' = NoRequest
        BY <4>1, ProcessPhase, BusySteps DEF boot_vars
      <4> QED BY <2>1, <4>1, <4>2, <4>3, <4>4
    <3>2. CASE Settle
      <4>1. ~ Reverting' /\ ~ InFlight'
        BY <1>1, <3>2 DEF Settle, EndCommit, EngineInv, StagedRecordInv, InFlight, FlagInv, Reverting
      <4> QED BY <4>1
    <3>3. CASE record' = NoRecord
      BY <3>3, NothingInFlight DEF InFlight, Reverting
    <3>4. CASE record' = record
      <4>1. InFlight' = InFlight /\ Resident' = Resident /\ (Stored' = Stored \/ (AppStage /\ ~ InFlight))
        BY <3>4, SlotsKept
      <4>2. Reverting' = Reverting
        BY <3>4 DEF Reverting
      <4>3. Reverting => Stored' = Stored
        BY <4>1, TrialPending DEF AppStage, OnTrial, TrialRules
      <4>4. AppRequest /\ Reverting => (request' # NoRequest => request'.command # "SWAP")
        <5>1. AppRequest => ~ InFlight
          BY DEF AppRequest, BootInv, PhaseInv, SettledInv, Settled
        <5> QED BY <5>1, TrialPending DEF AppRequest, OnTrial, TrialRules
      <4>5. InFlight => Outgoing' = Outgoing
        BY <4>1 DEF Resident
      <4> QED BY <2>1, <3>4, <4>1, <4>2, <4>3, <4>4, <4>5, RequestSteps DEF PreviousInv
    <3> QED BY <1>1, <1>3, <3>1, <3>2, <3>3, <3>4, RecordSteps
  <2>3. (pc \in {"erase_log", "arm"} =>
           /\ fn = "start" => swap_type \in {"PERM", "TEST"} /\ ~ Reverting
           /\ fn = "process" => swap_type = "REVERT" /\ ~ InFlight /\ secondary = previous)'
    <3>1. SUFFICES ASSUME pc' \in {"erase_log", "arm"}
                   PROVE  /\ fn' = "start" => swap_type' \in {"PERM", "TEST"} /\ ~ Reverting'
                          /\ fn' = "process" => swap_type' = "REVERT" /\ ~ InFlight' /\ secondary' = previous'
      OBVIOUS
    <3>2. CASE pc = "idle"
      <4>1. /\ UNCHANGED flash
            /\ fn' = "start" => swap_type' \in {"PERM", "TEST"} /\ ~ Reverting
            /\ fn' = "process" => swap_type' = "REVERT" /\ boot_record_revert_pending(record)
        BY <3>1, <3>2, ArmingCalls
      <4>2. boot_record_revert_pending(record) => Reverting /\ ~ InFlight /\ secondary = previous
        BY DEF boot_record_revert_pending, Reverting, InFlight, boot_record_swap_in_progress,
               PreviousInv, Stored
      <4> QED BY <2>1, <4>1, <4>2 DEF flash, InFlight, Reverting
    <3>3. CASE pc # "idle"
      <4>1. CASE FlashStep
        BY <1>1, <2>1, <3>1, <4>1, ArmingSteps, NothingInFlight DEF PreviousInv, InFlight, Reverting
      <4>2. CASE Crash
        BY <3>1, <4>2 DEF Crash, Return
      <4>3. CASE UNCHANGED boot_vars
        BY <2>1, <3>1, <4>3 DEF boot_vars, swap_vars, flash, locals, PreviousInv, InFlight, Reverting
      <4> QED BY <3>3, <4>1, <4>2, <4>3, BusySteps
    <3> QED BY <3>2, <3>3
  <2>4. (pc = "complete" =>
           /\ swap_type = "TEST" => secondary = previous
           /\ swap_type = "REVERT" => primary = previous)'
    <3>1. SUFFICES ASSUME pc' = "complete"
                   PROVE  /\ swap_type' = "TEST" => secondary' = previous'
                          /\ swap_type' = "REVERT" => primary' = previous'
      OBVIOUS
    <3>2. CASE busy'
      BY <1>1, <2>1, <3>1, <3>2, CompleteBegun DEF PreviousInv
    <3>3. CASE ~ busy'
      <4>1. (EngineInv /\ pc = "complete")'
        BY <3>1 DEF BootInv
      <4>2. (Outgoing = secondary /\ Incoming = primary)'
        BY <4>1, CompleteSlots, PTL
      <4>3. InFlight' /\ swap_type' = record'.swap_type
        BY <3>1, <3>3, <4>1 DEF EngineInv, ControlInv, FlagInv
      <4>4. swap_type' = "REVERT" => Reverting'
        BY <4>3, NothingInFlight DEF Reverting, InFlight
      <4> QED BY <2>2, <4>2, <4>3, <4>4 DEF Stored
    <3> QED BY <3>2, <3>3
  <2> QED BY <2>2, <2>3, <2>4 DEF PreviousInv
<1> QED BY <1>2, <1>3

\* Between the boots' own calls, and while the application runs, primary and its history stay.
LEMMA ReportedKept ==
  ASSUME BootInv, [BootNext]_boot_vars, Track, pc = "idle", phase \in Settled \cup {"swapping"}
  PROVE  UNCHANGED <<primary, previous>>
<1>1. ~ Arm
  BY DEF Arm, EndCommit
<1>2. primary' = primary
  <2>1. CASE Engine
    BY <2>1, EngineCall DEF Engine, Fail
  <2>2. CASE \/ StartRequested \/ Confirm \/ ProcessSwap \/ Recover \/ RecoverArmed \/ Reset
    BY <2>2 DEF StartRequested, Confirm, ProcessSwap, Recover, RecoverArmed, Reset, Crash,
         boot_swap_start, boot_swap_process, boot_record_set_image_ok, flash
  <2>3. CASE \/ NothingRequested \/ StartReturned \/ ConfirmNothing \/ ConfirmReturned \/ RefuseRequest
             \/ boot_mailbox_clear \/ ProcessReturned \/ PrimaryUsable \/ RecoverRefused
             \/ RecoverReturned \/ boot_swap_log_count \/ boot_flash_close \/ boot_jump_to_primary
             \/ boot_fatal \/ AppRequest \/ AppStage \/ UNCHANGED boot_vars
    BY <2>3, Zenon DEF NothingRequested, StartReturned, ConfirmNothing, ConfirmReturned, RefuseRequest,
         boot_mailbox_clear, ProcessReturned, PrimaryUsable, RecoverRefused, RecoverReturned,
         boot_swap_log_count, boot_flash_close, boot_jump_to_primary, boot_fatal, AppRequest, AppStage,
         boot_vars, swap_vars, flash
  <2> QED BY <2>1, <2>2, <2>3 DEF BootNext, BootStep, RecoverStarted
<1> QED BY <1>1, <1>2 DEF Track

\* Every step keeps what is reported as reverted where it was put.
LEMMA RevertedStep ==
  ASSUME NoErrors, FlowInv, FlowInv', PreviousInv, RevertedInv, [BootNext]_boot_vars, Track
  PROVE  RevertedInv'
<1> USE DEF FlowInv
<1>1. ASSUME phase' = "swapping", pc' = "idle", result' = "REVERTED"
      PROVE  primary' = previous' /\ boot_image_ok(primary')
  <2>1. boot_image_ok(primary')
    BY <1>1 DEF FreshInv, Settled, boot_image_ok
  <2>2. CASE pc # "idle"
    <3>1. CASE FlashStep
      <4>1. phase = "swapping" /\ fn = "process"
        BY <1>1, <2>2, <3>1, BusySteps DEF Crash, boot_vars, BootInv, PhaseInv, CallInv
      <4>2. CASE Complete
        <5>1. pc = "complete" /\ primary' = primary /\ pc' = "idle"
          BY <4>2 DEF Complete, EndCommit, Return
        <5>2. previous' = previous
          BY <5>1 DEF Track, Arm, EndCommit
        <5>3. swap_type = "REVERT"
          BY <1>1, <4>2, CompleteFresh DEF BootInv
        <5> QED BY <2>1, <5>1, <5>2, <5>3 DEF PreviousInv
      <4>3. CASE Settle
        BY <1>1, <4>3 DEF Settle, Return
      <4> QED BY <1>1, <3>1, <4>1, <4>2, <4>3, ProcessEnds DEF BootInv
    <3>2. CASE Crash
      BY <1>1, <3>2 DEF Crash, Return
    <3>3. CASE UNCHANGED boot_vars
      BY <1>1, <2>2, <3>3 DEF boot_vars, swap_vars, locals
    <3> QED BY <2>2, <3>1, <3>2, <3>3, BusySteps
  <2>3. CASE pc = "idle" /\ phase = "swapping"
    <3>1. result' = result
      <4>1. ~ Engine /\ ~ Reset
        BY <1>1, <2>3, EngineCall DEF Engine, Fail, Reset
      <4>2. UNCHANGED boot_vars
        BY <1>1, <2>3, <4>1
        DEF BootNext, BootStep, RecoverStarted, NothingRequested, StartRequested, StartReturned, ConfirmNothing,
            Confirm, ConfirmReturned, RefuseRequest, boot_mailbox_clear, ProcessSwap, ProcessReturned,
            PrimaryUsable, Recover, RecoverArmed, RecoverRefused, RecoverReturned, boot_swap_log_count,
            boot_flash_close, boot_jump_to_primary, boot_fatal, AppStage, AppRequest, Goto
      <4> QED BY <4>2 DEF boot_vars, swap_vars, locals
    <3> QED BY <1>1, <2>1, <2>3, <3>1, ReportedKept DEF RevertedInv
  <2>4. CASE pc = "idle" /\ phase # "swapping"
    <3>1. ProcessSwap
      BY <1>1, <2>4, EngineCall
      DEF BootNext, BootStep, RecoverStarted, NothingRequested, StartRequested, StartReturned, ConfirmNothing,
          Confirm, ConfirmReturned, RefuseRequest, boot_mailbox_clear, ProcessReturned,
          PrimaryUsable, Recover, RecoverArmed, RecoverRefused, RecoverReturned, boot_swap_log_count,
          boot_flash_close, boot_jump_to_primary, boot_fatal, Engine, Fail, AppStage, AppRequest,
          Reset, boot_vars, Goto
    <3> QED BY <1>1, <3>1 DEF ProcessSwap, boot_swap_process, Call, Return
  <2> QED BY <2>2, <2>3, <2>4
<1>2. ASSUME g_boot_status' = "REVERTED"
      PROVE  phase' \in Settled /\ primary' = previous' /\ boot_image_ok(primary')
  <2>1. CASE ProcessReturned
    <3>1. /\ pc = "idle" /\ phase = "swapping" /\ phase' = "check"
          /\ g_boot_status' = StatusAfter(result, g_boot_status)
      BY <2>1 DEF ProcessReturned, Goto, SetStatus
    <3>2. g_boot_status # "REVERTED"
      BY <3>1 DEF RevertedInv, Settled
    <3>3. result = "REVERTED"
      BY <1>2, <3>1, <3>2 DEF StatusAfter
    <3> QED BY <3>1, <3>3, ReportedKept DEF RevertedInv, Settled, boot_image_ok
  <2>2. CASE ~ ProcessReturned
    <3>1. g_boot_status = "REVERTED"
      BY <1>2, <2>2
      DEF BootNext, BootStep, RecoverStarted, NothingRequested, StartRequested, StartReturned, ConfirmNothing,
          Confirm, ConfirmReturned, RefuseRequest, boot_mailbox_clear, ProcessSwap,
          PrimaryUsable, Recover, RecoverArmed, RecoverRefused, RecoverReturned, boot_swap_log_count,
          boot_flash_close, boot_jump_to_primary, boot_fatal, Engine, AppStage, AppRequest,
          Reset, boot_vars, SetStatus, ram
    <3>2. phase \in Settled /\ pc = "idle" /\ boot_image_ok(primary) /\ primary = previous
      BY <3>1 DEF RevertedInv, BootInv, PhaseInv, CallInv, Settled
    <3>3. UNCHANGED <<primary, previous>>
      BY <3>2, ReportedKept
    <3>4. ~ Reset
      BY <1>2 DEF Reset
    <3>5. phase' \in Settled
      BY <3>2, <3>4, EngineCall
      DEF BootNext, BootStep, RecoverStarted, NothingRequested, StartRequested, StartReturned, ConfirmNothing,
          Confirm, ConfirmReturned, RefuseRequest, boot_mailbox_clear, ProcessSwap, ProcessReturned,
          PrimaryUsable, Recover, RecoverArmed, RecoverRefused, RecoverReturned, boot_swap_log_count,
          boot_flash_close, boot_jump_to_primary, boot_fatal, Engine, Fail, AppStage, AppRequest,
          boot_vars, Goto, Settled
    <3> QED BY <3>2, <3>3, <3>5 DEF boot_image_ok
  <2> QED BY <2>1, <2>2
<1>3. PreviousRestored'
  <2>1. SUFFICES ASSUME phase' = "running", ack'.status = "REVERTED" PROVE primary' = previous'
    BY DEF PreviousRestored
  <2>2. CASE boot_jump_to_primary
    <3>1. g_boot_status = "REVERTED" /\ pc = "idle" /\ phase = "handoff"
      BY <2>1, <2>2 DEF boot_jump_to_primary, boot_mailbox_set_ack
    <3> QED BY <3>1, ReportedKept DEF RevertedInv, Settled
  <2>3. CASE phase = "running" /\ ack' = ack
    <3>1. pc = "idle"
      BY <2>3 DEF BootInv, PhaseInv, CallInv
    <3> QED BY <2>1, <2>3, <3>1, ReportedKept DEF RevertedInv, PreviousRestored, Settled
  <2>4. boot_jump_to_primary \/ (phase = "running" /\ ack' = ack)
    BY <2>1
    DEF BootNext, BootStep, RecoverStarted, NothingRequested, StartRequested, StartReturned, ConfirmNothing,
        Confirm, ConfirmReturned, RefuseRequest, boot_mailbox_clear, ProcessSwap, ProcessReturned,
        PrimaryUsable, Recover, RecoverArmed, RecoverRefused, RecoverReturned, boot_swap_log_count,
        boot_flash_close, boot_fatal, Engine, AppStage, AppRequest, Reset, boot_vars, Goto
  <2> QED BY <2>2, <2>3, <2>4
<1> QED BY <1>1, <1>2, <1>3 DEF RevertedInv, boot_image_ok

\* Both hold from the first boot on.
LEMMA RevertedInvariant ==
  ASSUME NoErrors, Faithful, TrialRules
  PROVE  TrialSpec => [](FlowInv /\ PreviousInv /\ RevertedInv)
<1>1. BootInit /\ previous = primary => PreviousInv /\ RevertedInv
  BY NothingInFlight, NoRecordAssumption
  DEF BootInit, Init, PreviousInv, RevertedInv, PreviousRestored, InFlight, Reverting
<1>2. FlowInv /\ PreviousInv /\ RevertedInv /\ FlowInv' /\ [BootNext /\ Track]_trial_vars
        => PreviousInv' /\ RevertedInv'
  BY PreviousStep, RevertedStep, TrackStep
<1> QED BY <1>1, <1>2, FlowInvariant, PTL DEF TrialSpec

(* A reported revert has put back the very image that was primary when the *)
(* trial was armed, through any resets and record writes that were cut     *)
(* short (boot_swap.c, boot_swap_process; boot_swap.h).                    *)
THEOREM TrialReverts == ASSUME NoErrors, Faithful, TrialRules PROVE TrialSpec => []PreviousRestored
<1>1. RevertedInv => PreviousRestored
  BY DEF RevertedInv
<1> QED BY <1>1, RevertedInvariant, PTL

-------------------------------------------------------------------------------
(* Nobody runs who was not accepted, but for the image on trial, when the  *)
(* record is not torn.                                                     *)

\* What the end of a commit does to the two slots and to the trial, when no record is lost.
LEMMA CommitSteps ==
  ASSUME FlowInv, FlowInv', PreviousInv, GuardInv
  PROVE  /\ Arm /\ fn = "start" =>
              /\ ~ Reverting /\ ~ Reverting' /\ swap_type \in {"PERM", "TEST"}
         /\ Arm /\ fn = "process" =>
              /\ Reverting /\ Reverting' /\ ~ InFlight /\ swap_type = "REVERT"
         /\ Arm => InFlight' /\ record'.swap_type = swap_type
         /\ Complete =>
              /\ InFlight /\ ~ InFlight' /\ swap_type = record.swap_type
              /\ UNCHANGED <<primary, secondary>>
              /\ Resident = secondary /\ Stored = primary /\ Resident' = primary /\ Stored' = secondary
              /\ swap_type \in {"PERM", "TEST", "REVERT"}
              /\ Reverting <=> swap_type = "REVERT"
              /\ Reverting' <=> swap_type = "TEST"
         /\ Settle =>
              /\ ~ InFlight /\ ~ InFlight' /\ ~ Reverting'
              /\ UNCHANGED <<primary, secondary>>
<1> USE DEF FlowInv
<1>1. EngineInv
  BY DEF BootInv
<1>2. ASSUME Arm
      PROVE  /\ fn = "start" => ~ Reverting /\ ~ Reverting' /\ swap_type \in {"PERM", "TEST"}
             /\ fn = "process" => Reverting /\ Reverting' /\ ~ InFlight /\ swap_type = "REVERT"
             /\ InFlight' /\ record'.swap_type = swap_type
  <2>1. pc = "arm" /\ busy /\ record' = g_staged_record /\ InFlight'
    BY <1>1, <1>2, ArmedSlots
  <2>2. record'.swap_type = swap_type /\ record' # NoRecord
    BY <2>1, NothingInFlight DEF FlagInv, InFlight
  <2> QED BY <2>1, <2>2 DEF PreviousInv, GuardInv, Reverting
<1>3. ASSUME Complete
      PROVE  /\ InFlight /\ ~ InFlight' /\ swap_type = record.swap_type
             /\ UNCHANGED <<primary, secondary>>
             /\ Resident = secondary /\ Stored = primary /\ Resident' = primary /\ Stored' = secondary
             /\ swap_type \in {"PERM", "TEST", "REVERT"}
             /\ Reverting <=> swap_type = "REVERT"
             /\ Reverting' <=> swap_type = "TEST"
  <2>1. /\ pc = "complete" /\ busy /\ record' = g_staged_record /\ record' # NoRecord
        /\ UNCHANGED <<primary, secondary>> /\ ~ InFlight'
    BY <1>1, <1>3 DEF Complete, EndCommit, EngineInv, StagedRecordInv, InFlight
  <2>2. InFlight /\ swap_type = record.swap_type
    BY <2>1 DEF GuardInv
  <2>3. swap_type \in {"PERM", "TEST", "REVERT"} /\ record # NoRecord
    BY <1>1, <2>2 DEF EngineInv, TypeOK, BootSwapTypes, InFlight, boot_record_swap_in_progress
  <2>4. Resident = secondary /\ Stored = primary
    BY <1>1, <2>1, <2>2, CompleteSlots DEF Resident, Stored
  <2>5. Resident' = primary /\ Stored' = secondary
    BY <2>1 DEF Resident, Stored
  <2>6. record'.swap_type = IF swap_type = "TEST" THEN "REVERT" ELSE "NONE"
    BY <2>1 DEF FlagInv
  <2> QED BY <2>1, <2>2, <2>3, <2>4, <2>5, <2>6 DEF Reverting
<1>4. ASSUME Settle
      PROVE  ~ InFlight /\ ~ InFlight' /\ ~ Reverting' /\ UNCHANGED <<primary, secondary>>
  BY <1>1, <1>4 DEF Settle, EndCommit, EngineInv, ControlInv, StagedRecordInv, InFlight, FlagInv, Reverting
<1> QED BY <1>2, <1>3, <1>4

\* While the record stays, so do the images that run and that are kept.
LEMMA TrialKept ==
  ASSUME NoErrors, Faithful, TrialRules, FlowInv, [BootNext]_boot_vars, record' = record
  PROVE  /\ InFlight' = InFlight /\ Reverting' = Reverting
         /\ Resident' = Resident
         /\ Stored' = Stored \/ (AppStage /\ ~ InFlight /\ ~ Reverting)
<1>1. /\ InFlight' = InFlight /\ Resident' = Resident
      /\ Stored' = Stored \/ (AppStage /\ ~ InFlight)
  BY SlotsKept DEF FlowInv
<1>2. Reverting' = Reverting
  BY DEF Reverting
<1>3. AppStage /\ ~ InFlight => ~ Reverting
  BY TrialPending DEF AppStage, OnTrial, TrialRules, FlowInv
<1> QED BY <1>1, <1>2, <1>3

\* Every step keeps those who were not accepted from running on.
LEMMA GuardStep ==
  ASSUME NoErrors, NoTears, Faithful, TrialRules, FlowInv, FlowInv', PreviousInv, GuardInv,
         [BootNext]_boot_vars, Track
  PROVE  GuardInv'
<1> USE DEF FlowInv
<1>1. EngineInv /\ [Next]_swap_vars
  BY BootMapping DEF BootInv
<1>2. CASE Arm
  <2>1. /\ fn \in {"start", "process"} /\ InFlight' /\ pc = "arm"
        /\ Resident = primary /\ Stored = secondary
        /\ Resident' = primary /\ Stored' = secondary /\ Incoming' = secondary
    BY <1>1, <1>2, ArmedSlots
  <2>2. pc' \in {"idle", "scan"}
    BY <1>2 DEF Arm, Return
  <2>3. /\ fn = "start" => ~ Reverting /\ ~ Reverting' /\ swap_type \in {"PERM", "TEST"}
        /\ fn = "process" => Reverting /\ Reverting' /\ swap_type = "REVERT"
        /\ record'.swap_type = swap_type
    BY <1>2, CommitSteps
  <2>4. /\ swap_type = "TEST" => unconfirmed' \in {unconfirmed \cup {secondary}, unconfirmed}
                              /\ (secondary = primary => unconfirmed' = unconfirmed)
        /\ swap_type = "PERM" => unconfirmed' = unconfirmed \ {secondary}
        /\ swap_type = "REVERT" => unconfirmed' = unconfirmed
    BY <1>2, <2>1 DEF Track, BeginSettle, BeginCommit, Begin
  <2> QED BY <2>1, <2>2, <2>3, <2>4 DEF GuardInv
<1>3. CASE ~ Arm
  <2>1. unconfirmed' = IF BeginSettle THEN unconfirmed \ {primary} ELSE unconfirmed
    BY <1>3 DEF Track
  <2>2. /\ (~ Reverting => Resident \notin unconfirmed)'
        /\ (Reverting => Stored \notin unconfirmed)'
        /\ (InFlight /\ record.swap_type = "PERM" => Incoming \notin unconfirmed)'
    <3>1. CASE Complete
      <4>1. unconfirmed' = unconfirmed
        BY <2>1, <3>1 DEF Complete, EndCommit, BeginSettle, BeginCommit, Begin
      <4>2. InFlight => Stored = Incoming
        BY DEF Stored
      <4> QED BY <3>1, <4>1, <4>2, CommitSteps DEF GuardInv
    <3>2. CASE Settle
      <4>1. unconfirmed' = unconfirmed /\ pc = "settle" /\ busy
        BY <2>1, <3>2 DEF Settle, EndCommit, BeginSettle, BeginCommit, Begin
      <4>2. Resident' = primary
        BY <3>2, CommitSteps DEF Resident
      <4> QED BY <3>2, <4>1, <4>2, CommitSteps DEF GuardInv
    <3>3. CASE record' = record
      <4>1. /\ InFlight' = InFlight /\ Reverting' = Reverting /\ Resident' = Resident
            /\ Stored' = Stored \/ (~ InFlight /\ ~ Reverting)
        BY <3>3, TrialKept
      <4>2. InFlight => Stored = Incoming /\ Stored' = Incoming'
        BY <4>1 DEF Stored
      <4>3. unconfirmed' \subseteq unconfirmed
        BY <2>1
      <4> QED BY <3>3, <4>1, <4>2, <4>3 DEF GuardInv
    <3> QED BY <1>1, <1>3, <3>1, <3>2, <3>3, RecordSteps
  <2>3. (pc \in {"erase_log", "arm"} /\ fn = "process" => Reverting)'
    <3>1. SUFFICES ASSUME pc' \in {"erase_log", "arm"}, fn' = "process" PROVE Reverting'
      OBVIOUS
    <3>2. CASE pc = "idle"
      BY <3>1, <3>2, ArmingCalls DEF boot_record_revert_pending, Reverting, flash
    <3>3. CASE pc # "idle"
      <4>1. CASE FlashStep
        BY <1>1, <3>1, <4>1, ArmingSteps DEF GuardInv, Reverting
      <4>2. CASE Crash
        BY <3>1, <4>2 DEF Crash, Return
      <4>3. CASE UNCHANGED boot_vars
        BY <3>1, <4>3 DEF boot_vars, swap_vars, flash, locals, GuardInv, Reverting
      <4> QED BY <3>3, <4>1, <4>2, <4>3, BusySteps
    <3> QED BY <3>2, <3>3
  <2>4. (pc = "complete" => InFlight /\ swap_type = record.swap_type)'
    <3>1. SUFFICES ASSUME pc' = "complete" PROVE InFlight' /\ swap_type' = record'.swap_type
      OBVIOUS
    <3>2. CASE busy'
      <4>1. pc = "complete" /\ swap_type' = swap_type
        BY <1>1, <3>1, <3>2, CompleteBegun
      <4>2. ~ Complete /\ ~ Settle
        BY <3>1 DEF Complete, Settle, Return
      <4>3. record' = record
        BY <1>1, <1>3, <4>2, RecordSteps
      <4> QED BY <4>1, <4>3 DEF GuardInv, InFlight
    <3>3. CASE ~ busy'
      BY <3>1, <3>3 DEF BootInv, EngineInv, ControlInv, FlagInv
    <3> QED BY <3>2, <3>3
  <2>5. (pc = "settle" /\ busy => primary \notin unconfirmed)'
    <3>1. SUFFICES ASSUME pc' = "settle", busy' PROVE primary' \notin unconfirmed'
      OBVIOUS
    <3>2. CASE BeginSettle
      BY <2>1, <3>2 DEF BeginSettle, BeginCommit
    <3>3. CASE ~ BeginSettle
      <4>1. pc = "settle" /\ busy /\ primary' = primary
        <5>1. CASE pc = "idle"
          <6>1. ~ busy
            BY <1>1, <5>1 DEF EngineInv, ControlInv
          <6>2. CASE Caller
            BY <3>1, <6>1, <6>2 DEF Caller, boot_swap_start, boot_swap_process,
                                    boot_record_set_image_ok, Call, Return
          <6>3. CASE Stage \/ UNCHANGED swap_vars
            BY <3>1, <6>1, <6>3 DEF Stage, locals, swap_vars
          <6>4. CASE Crash
            BY <3>1, <6>4 DEF Crash, Return
          <6>5. CASE SwapStep
            BY <5>1, <6>5, EngineCall DEF SwapStep, Fail
          <6> QED BY <1>1, <6>2, <6>3, <6>4, <6>5 DEF Next
        <5>2. CASE pc # "idle"
          <6>1. CASE FlashStep
            BY <3>1, <3>3, <6>1
            DEF FlashStep, BeginEraseLog, EraseLog, BeginArm, Arm, Scan, BeginLeg, Leg, BeginLogWrite,
                LogWrite, LogWriteThen, BeginComplete, Complete, Settle, BeginCommit, EndCommit, Begin,
                Return, OpOf
          <6>2. CASE Crash
            BY <3>1, <6>2 DEF Crash, Return
          <6>3. CASE UNCHANGED boot_vars
            BY <3>1, <6>3 DEF boot_vars, swap_vars, flash, locals
          <6> QED BY <5>2, <6>1, <6>2, <6>3, BusySteps
        <5> QED BY <5>1, <5>2
      <4> QED BY <2>1, <3>3, <4>1 DEF GuardInv
    <3> QED BY <3>2, <3>3
  <2> QED BY <2>2, <2>3, <2>4, <2>5 DEF GuardInv
<1> QED BY <1>2, <1>3

\* All of it holds from the first boot on.
LEMMA GuardInvariant ==
  ASSUME NoErrors, NoTears, Faithful, TrialRules
  PROVE  TrialSpec => [](FlowInv /\ PreviousInv /\ GuardInv)
<1>1. BootInit /\ unconfirmed = {} => GuardInv
  BY NothingInFlight DEF BootInit, Init, GuardInv, InFlight
<1>2. FlowInv /\ PreviousInv /\ GuardInv /\ FlowInv' /\ [BootNext /\ Track]_trial_vars => GuardInv'
  BY GuardStep, TrackStep
<1> QED BY <1>1, <1>2, RevertedInvariant, PTL DEF TrialSpec

(* An image that nobody has accepted runs only while the record says that  *)
(* it is to be reverted (README.md, "lands on the next boot with the flag  *)
(* still set"), if no reset tears the record: a torn record of a TEST swap *)
(* is a way past the trial (the run trial_record_torn shows it).           *)
THEOREM TrialGuards ==
  ASSUME NoErrors, NoTears, Faithful, TrialRules PROVE TrialSpec => []TrialGuarded
<1>1. FlowInv /\ GuardInv => TrialGuarded
  <2> SUFFICES ASSUME FlowInv, GuardInv, phase = "running", primary \in unconfirmed
               PROVE  boot_record_revert_pending(record)
    BY DEF TrialGuarded
  <2>1. ~ InFlight
    BY DEF FlowInv, BootInv, PhaseInv, SettledInv, Settled
  <2> QED BY <2>1, TrialPending DEF FlowInv, GuardInv, Resident
<1> QED BY <1>1, GuardInvariant, PTL

-------------------------------------------------------------------------------
(* The refinement of ImageTrial.                                           *)

TrialStage == IF InFlight THEN record.swap_type ELSE IF Reverting THEN "TRIAL" ELSE "settled"

\* The end of a commit requests, rejects, installs, restores or accepts.
LEMMA CommitMapping ==
  ASSUME NoErrors, Faithful, FlowInv, FlowInv', PreviousInv, GuardInv, Arm \/ Complete \/ Settle
  PROVE  [Trial!Next]_(Trial!trial_spec_vars)
<1> USE DEF FlowInv
<1>1. EngineInv
  BY DEF BootInv
<1>2. CASE Arm
  <2>1. /\ fn \in {"start", "process"} /\ pc = "arm" /\ busy
        /\ Resident = primary /\ Stored = secondary
        /\ Resident' = primary /\ Stored' = secondary
    BY <1>1, <1>2, ArmedSlots
  <2>2. Stored \in {slot \in Slot : boot_image_ok(slot)}
    BY <1>1, <2>1 DEF EngineInv, TypeOK, ControlInv
  <2>3. InFlight' /\ TrialStage' = swap_type
    BY <1>2, CommitSteps DEF TrialStage
  <2>4. CASE fn = "start"
    <3>1. ~ Reverting /\ swap_type \in {"PERM", "TEST"}
      BY <1>2, <2>4, CommitSteps
    <3>2. TrialStage \in {"settled", "PERM", "TEST"}
      BY <1>1, <3>1 DEF TrialStage, Reverting, InFlight, boot_record_swap_in_progress, EngineInv, TypeOK,
                        Record, BootSwapTypes
    <3>3. Trial!Request
      BY <2>1, <2>2, <2>3, <3>1, <3>2 DEF Trial!Request, TrialStage
    <3> QED BY <3>3 DEF Trial!Next
  <2>5. CASE fn = "process"
    <3>1. Reverting /\ ~ InFlight /\ swap_type = "REVERT"
      BY <1>2, <2>5, CommitSteps
    <3>2. Trial!Reject
      BY <2>1, <2>2, <2>3, <3>1 DEF Trial!Reject, TrialStage
    <3> QED BY <3>2 DEF Trial!Next
  <2> QED BY <2>1, <2>4, <2>5
<1>3. CASE Complete
  <2>1. /\ InFlight /\ ~ InFlight' /\ swap_type = record.swap_type
        /\ Resident' = Stored /\ Stored' = Resident
        /\ swap_type \in {"PERM", "TEST", "REVERT"}
        /\ Reverting' <=> swap_type = "TEST"
    BY <1>3, CommitSteps
  <2>2. TrialStage = swap_type /\ TrialStage' = IF swap_type = "TEST" THEN "TRIAL" ELSE "settled"
    BY <2>1 DEF TrialStage
  <2>3. Trial!Install \/ Trial!Restore
    BY <2>1, <2>2 DEF Trial!Install, Trial!Restore, Trial!Exchanged, TrialStage
  <2> QED BY <2>3 DEF Trial!Next
<1>4. CASE Settle
  <2>1. ~ InFlight /\ ~ InFlight' /\ ~ Reverting' /\ UNCHANGED <<primary, secondary>>
    BY <1>4, CommitSteps
  <2>2. Resident' = Resident /\ Stored' = Stored /\ TrialStage' = "settled"
    BY <2>1 DEF Resident, Stored, TrialStage
  <2>3. TrialStage \in {"TRIAL", "settled"}
    BY <2>1 DEF TrialStage
  <2>4. Trial!Accept \/ UNCHANGED Trial!trial_spec_vars
    BY <2>2, <2>3 DEF Trial!Accept, Trial!trial_spec_vars, TrialStage
  <2> QED BY <2>4 DEF Trial!Next
<1> QED BY <1>2, <1>3, <1>4

(* The boots implement ImageTrial: an image installed on trial is accepted *)
(* or the one before it is put back, through any number of resets, and     *)
(* nothing is downloaded, requested or installed in between (README.md,    *)
(* "exactly one of two things happens").                                   *)
THEOREM ImplementsTrial ==
  ASSUME NoErrors, NoTears, Faithful, TrialRules PROVE TrialSpec => ImageTrialSpec
<1>1. BootInit => Trial!Init
  <2> SUFFICES ASSUME BootInit PROVE Trial!Init
    OBVIOUS
  <2>1. ~ InFlight /\ ~ Reverting /\ primary \in Slot /\ secondary \in Slot
    BY NothingInFlight, ContentsAssumption DEF BootInit, Init, InFlight, Reverting
  <2> QED BY <2>1 DEF Trial!Init, Resident, Stored
<1>2. FlowInv /\ FlowInv' /\ PreviousInv /\ GuardInv /\ [BootNext]_boot_vars
        => [Trial!Next]_(Trial!trial_spec_vars)
  <2> SUFFICES ASSUME FlowInv, FlowInv', PreviousInv, GuardInv, [BootNext]_boot_vars
               PROVE  [Trial!Next]_(Trial!trial_spec_vars)
    OBVIOUS
  <2>1. CASE Arm \/ Complete \/ Settle
    BY <2>1, CommitMapping
  <2>2. CASE record' = record
    <3>1. /\ InFlight' = InFlight /\ Reverting' = Reverting /\ Resident' = Resident
          /\ Stored' = Stored \/ (AppStage /\ ~ InFlight /\ ~ Reverting)
      BY <2>2, TrialKept
    <3>2. TrialStage' = TrialStage
      BY <2>2, <3>1 DEF TrialStage
    <3>3. CASE Stored' = Stored
      BY <3>1, <3>2, <3>3 DEF Trial!trial_spec_vars, TrialStage
    <3>4. CASE AppStage /\ ~ InFlight /\ ~ Reverting
      <4>1. Stored' \in Slot
        BY <3>1, <3>4, ContentsAssumption DEF AppStage, Stored
      <4>2. Trial!Download
        BY <3>1, <3>2, <3>4, <4>1 DEF Trial!Download, TrialStage
      <4> QED BY <4>2 DEF Trial!Next
    <3> QED BY <3>1, <3>3, <3>4
  <2>3. [Next]_swap_vars
    BY BootMapping DEF FlowInv
  <2> QED BY <2>1, <2>2, <2>3, RecordSteps
<1> QED BY <1>1, <1>2, GuardInvariant, TrackStep, PTL DEF TrialSpec, ImageTrialSpec, Trial!Spec

===============================================================================
