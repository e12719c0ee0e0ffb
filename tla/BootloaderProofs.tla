--------------------------- MODULE BootloaderProofs ---------------------------
(***************************************************************************)
(* Proofs about the boot sequence, for every number of sectors and every   *)
(* content of the slots, under any resets and torn record writes, when the *)
(* flash driver reports no errors.                                         *)
(***************************************************************************)
EXTENDS Bootloader, BootSwapProofs

Settled == {"check", "count", "close", "handoff", "running", "fatal"}

\* Which call of the engine is on the stack in which phase.
CallInv ==
  /\ pc # "idle" =>
        \/ phase \in {"requested", "recover"} /\ fn = "start"
        \/ phase = "confirming" /\ fn = "confirm"
        \/ phase \in {"swapping", "recovering"} /\ fn = "process"
  /\ phase \in {"requested", "recover"} => pc \in {"idle", "erase_log", "arm"}
  /\ phase = "confirming" => pc \in {"idle", "settle"}

\* When a call of the engine has returned, its swap is over.
SettledInv ==
  /\ phase \in Settled => ~ InFlight
  /\ phase \in {"swapping", "recovering"} /\ pc = "idle" => ~ InFlight
  /\ phase = "recover" /\ pc = "idle" => result = "SUCCESS"

\* A request is there until the mailbox is cleared, and its swap has not begun.
RequestInv ==
  /\ request # NoRequest => phase \in {"mailbox", "requested", "confirming", "clear", "running"}
  /\ RequestedOnce

\* The hand-off is prepared.
HandoffInv ==
  /\ phase \in {"handoff", "running", "fatal"} => ~ g_flash_open
  /\ phase = "running" => boot_image_ok(primary)

PhaseInv == CallInv /\ SettledInv /\ RequestInv /\ HandoffInv

BootInv == BootTypeOK /\ EngineInv /\ PhaseInv

NoErrors == FlashFaults = FALSE

-------------------------------------------------------------------------------

\* A board fresh from the factory is in step: nothing is called, staged or armed.
LEMMA BootInitInv == BootInit => BootInv
<1> SUFFICES ASSUME BootInit PROVE BootInv
  OBVIOUS
<1>1. EngineInv
  BY InitEngine DEF BootInit
<1>2. BootTypeOK
  <2>1. legs \in 0 .. BOOT_SWAP_STEP_COUNT
    BY StepCountNat DEF BootInit
  <2> QED BY <1>1, <2>1, Zenon DEF EngineInv, BootInit, BootTypeOK, Phases, Statuses, Commands
<1>3. PhaseInv
  BY NothingInFlight DEF BootInit, Init, PhaseInv, CallInv, SettledInv, Settled, RequestInv,
                         RequestedOnce, HandoffInv, InFlight
<1> QED BY <1>1, <1>2, <1>3 DEF BootInv

\* The boot sequence calls the engine by its rule, and stages only when nothing is in flight.
LEMMA BootMapping == BootInv /\ [BootNext]_boot_vars => [Next]_swap_vars
<1> SUFFICES ASSUME BootInv, [BootNext]_boot_vars PROVE [Next]_swap_vars
  OBVIOUS
<1>1. CASE StartRequested
  <2>1. RequestedType \in {"PERM", "TEST"} /\ boot_swap_start(RequestedType)
    BY <1>1 DEF StartRequested, RequestedType
  <2>2. InFlight => Untouched
    BY <1>1 DEF StartRequested, BootInv, PhaseInv, RequestInv, RequestedOnce
  <2> QED BY <2>1, <2>2 DEF Next, Caller
<1>2. CASE Recover
  <2>1. ~ InFlight /\ boot_swap_start("PERM")
    BY <1>2 DEF Recover, Goto, BootInv, PhaseInv, SettledInv, Settled
  <2> QED BY <2>1 DEF Next, Caller
<1>3. CASE Confirm
  BY <1>3 DEF Confirm, Next, Caller
<1>4. CASE ProcessSwap \/ RecoverArmed
  BY <1>4 DEF ProcessSwap, RecoverArmed, Next, Caller
<1>5. CASE Engine
  BY <1>5 DEF Engine, Next, SwapStep
<1>6. CASE AppStage
  <2>1. pc = "idle" /\ ~ InFlight
    BY <1>6 DEF AppStage, BootInv, PhaseInv, CallInv, SettledInv, Settled
  <2> QED BY <1>6, <2>1 DEF AppStage, Stage, Next
<1>7. CASE Reset
  BY <1>7 DEF Reset, Next
<1>8. CASE \/ NothingRequested \/ StartReturned \/ ConfirmNothing \/ ConfirmReturned \/ RefuseRequest
           \/ boot_mailbox_clear \/ ProcessReturned \/ PrimaryUsable \/ RecoverRefused
           \/ RecoverReturned \/ boot_swap_log_count \/ boot_flash_close \/ boot_jump_to_primary
           \/ boot_fatal \/ AppRequest \/ UNCHANGED boot_vars
  <2>1. UNCHANGED swap_vars
    BY <1>8 DEF NothingRequested, StartReturned, ConfirmNothing, ConfirmReturned, RefuseRequest,
                boot_mailbox_clear, ProcessReturned, PrimaryUsable, RecoverRefused, RecoverReturned,
                boot_swap_log_count, boot_flash_close, boot_jump_to_primary, boot_fatal, AppRequest,
                boot_vars
  <2> QED BY <2>1
<1> QED
  BY <1>1, <1>2, <1>3, <1>4, <1>5, <1>6, <1>7, <1>8 DEF BootNext, BootStep, RecoverStarted

\* The result of a swap that was processed is one of boot_swap_result_t.
LEMMA StatusAfterType ==
  ASSUME NEW status \in Statuses, NEW outcome
  PROVE  StatusAfter(outcome, status) \in Statuses
  BY DEF StatusAfter, Statuses

\* Every step keeps the types of the boot sequence.
LEMMA BootTypeStep ==
  ASSUME BootTypeOK, TypeOK', [BootNext]_boot_vars
  PROVE  BootTypeOK'
<1> USE DEF BootTypeOK
<1>1. TypeOK'
  OBVIOUS
<1>2. phase' \in Phases
  BY DEF BootNext, BootStep, RecoverStarted, NothingRequested, StartRequested, StartReturned, ConfirmNothing, Confirm,
         ConfirmReturned, RefuseRequest, boot_mailbox_clear, ProcessSwap, ProcessReturned,
         PrimaryUsable, Recover, RecoverArmed, RecoverRefused, RecoverReturned, boot_swap_log_count,
         boot_flash_close, boot_jump_to_primary, boot_fatal, Engine, AppStage, AppRequest, Reset,
         boot_vars, Goto, Phases
<1>3. request' \in Requests \cup {NoRequest}
  BY DEF BootNext, BootStep, RecoverStarted, NothingRequested, StartRequested, StartReturned, ConfirmNothing, Confirm,
         ConfirmReturned, RefuseRequest, boot_mailbox_clear, ProcessSwap, ProcessReturned,
         PrimaryUsable, Recover, RecoverArmed, RecoverRefused, RecoverReturned, boot_swap_log_count,
         boot_flash_close, boot_jump_to_primary, boot_fatal, Engine, AppStage, AppRequest, Reset,
         boot_vars
<1>4. ack' \in Acks \cup {NoAck}
  <2>1. ASSUME NEW s \in Statuses, NEW d \in 0 .. BOOT_SWAP_STEP_COUNT, boot_mailbox_set_ack(s, d)
        PROVE  ack' \in Acks
    BY <2>1 DEF boot_mailbox_set_ack, Acks
  <2>2. CASE boot_jump_to_primary
    BY <2>1, <2>2 DEF boot_jump_to_primary
  <2>3. CASE boot_fatal
    BY <2>1, <2>3, StepCountNat DEF boot_fatal, Statuses
  <2>4. CASE ack' = ack \/ ack' = NoAck
    BY <2>4
  <2>5. boot_jump_to_primary \/ boot_fatal \/ ack' = ack \/ ack' = NoAck
    BY DEF BootNext, BootStep, RecoverStarted, NothingRequested, StartRequested, StartReturned, ConfirmNothing, Confirm,
         ConfirmReturned, RefuseRequest, boot_mailbox_clear, ProcessSwap, ProcessReturned,
         PrimaryUsable, Recover, RecoverArmed, RecoverRefused, RecoverReturned, boot_swap_log_count,
         boot_flash_close, Engine, AppStage, AppRequest, Reset, boot_vars, Goto
  <2> QED BY <2>2, <2>3, <2>4, <2>5
<1>5. g_boot_status' \in Statuses /\ g_boot_req' \in Commands
  <2>1. CASE ProcessReturned
    BY <2>1, StatusAfterType DEF ProcessReturned, SetStatus
  <2>2. CASE StartReturned \/ ConfirmReturned \/ RefuseRequest \/ RecoverReturned
    BY <2>2 DEF StartReturned, ConfirmReturned, RefuseRequest, RecoverReturned, SetStatus, Statuses
  <2>3. CASE StartRequested \/ ConfirmNothing \/ Confirm
    BY <2>3 DEF StartRequested, ConfirmNothing, Confirm, Statuses, Commands
  <2>4. CASE Reset
    BY <2>4 DEF Reset, Statuses, Commands
  <2>5. CASE UNCHANGED <<g_boot_status, g_boot_req>>
    BY <2>5
  <2>6. ProcessReturned \/ StartReturned \/ ConfirmReturned \/ RefuseRequest \/ RecoverReturned
        \/ StartRequested \/ ConfirmNothing \/ Confirm \/ Reset \/ UNCHANGED <<g_boot_status, g_boot_req>>
    BY DEF BootNext, BootStep, RecoverStarted, NothingRequested, boot_mailbox_clear, ProcessSwap,
         PrimaryUsable, Recover, RecoverArmed, RecoverRefused, boot_swap_log_count,
         boot_flash_close, boot_jump_to_primary, boot_fatal, Engine, AppStage, AppRequest,
         boot_vars, ram
  <2> QED BY <2>1, <2>2, <2>3, <2>4, <2>5, <2>6
<1>6. g_flash_open' \in BOOLEAN
  BY DEF BootNext, BootStep, RecoverStarted, NothingRequested, StartRequested, StartReturned, ConfirmNothing, Confirm,
         ConfirmReturned, RefuseRequest, boot_mailbox_clear, ProcessSwap, ProcessReturned,
         PrimaryUsable, Recover, RecoverArmed, RecoverRefused, RecoverReturned, boot_swap_log_count,
         boot_flash_close, boot_jump_to_primary, boot_fatal, Engine, AppStage, AppRequest, Reset,
         boot_vars
<1>7. legs' \in 0 .. BOOT_SWAP_STEP_COUNT
  <2>1. CASE boot_swap_log_count
    <3>1. legs' = 0 \/ legs' \in 0 .. BOOT_SWAP_STEP_COUNT
      BY <2>1, Zenon DEF boot_swap_log_count
    <3> QED BY <3>1, StepCountNat
  <2>2. CASE Reset
    BY <2>2, StepCountNat DEF Reset
  <2>3. CASE legs' = legs
    BY <2>3
  <2>4. boot_swap_log_count \/ Reset \/ legs' = legs
    BY DEF BootNext, BootStep, RecoverStarted, NothingRequested, StartRequested, StartReturned, ConfirmNothing, Confirm,
           ConfirmReturned, RefuseRequest, boot_mailbox_clear, ProcessSwap, ProcessReturned,
           PrimaryUsable, Recover, RecoverArmed, RecoverRefused, RecoverReturned, boot_flash_close,
           boot_jump_to_primary, boot_fatal, Engine, AppStage, AppRequest, boot_vars, ram, SetStatus
  <2> QED BY <2>1, <2>2, <2>3, <2>4
<1> QED BY <1>1, <1>2, <1>3, <1>4, <1>5, <1>6, <1>7

\* A step of the engine below one of its calls keeps the call on the stack, or returns.
LEMMA EngineCall ==
  ASSUME FlashStep
  PROVE  /\ pc # "idle"
         /\ pc' # "idle" => fn' = fn
         /\ fn = "start" /\ pc \in {"erase_log", "arm"} => pc' \in {"idle", "erase_log", "arm"}
         /\ pc = "settle" => pc' \in {"idle", "settle"}
<1>1. CASE BeginEraseLog \/ BeginArm \/ BeginLeg \/ BeginLogWrite \/ BeginComplete \/ BeginSettle
  BY <1>1 DEF BeginEraseLog, BeginArm, BeginLeg, BeginLogWrite, BeginComplete, BeginSettle,
              BeginCommit, Begin
<1>2. CASE EraseLog
  BY <1>2 DEF EraseLog, Return
<1>3. CASE Arm
  BY <1>3 DEF Arm, EndCommit, Return
<1>4. CASE Scan \/ Leg \/ LogWrite
  BY <1>4 DEF Scan, Leg, LogWrite, LogWriteThen, OpOf
<1>5. CASE Complete \/ Settle
  BY <1>5 DEF Complete, Settle, EndCommit, Return
<1> QED BY <1>1, <1>2, <1>3, <1>4, <1>5 DEF FlashStep

\* Without driver errors the log is always erased, and a call returns when its swap is over.
LEMMA EngineReturn ==
  ASSUME EngineInv, FlashStep, NoErrors, pc' = "idle"
  PROVE  /\ fn = "process" => ~ InFlight'
         /\ fn = "start" /\ pc \in {"erase_log", "arm"} => result' = "SUCCESS"
<1>1. CASE EraseLog
  <2>1. log' = Erased(log)
    BY <1>1 DEF EraseLog, NoErrors
  <2>2. boot_flash_df_blank(log')
    BY <2>1 DEF boot_flash_df_blank, Erased
  <2> QED BY <1>1, <2>2 DEF EraseLog
<1>2. CASE Arm
  BY <1>2 DEF Arm, Return
<1>3. CASE Complete \/ Settle
  <2>1. record' = g_staged_record /\ busy /\ pc \in {"complete", "settle"}
    BY <1>3 DEF Complete, Settle, EndCommit
  <2>2. ~ InFlight'
    BY <2>1 DEF EngineInv, StagedRecordInv, InFlight
  <2> QED BY <2>1, <2>2
<1>4. CASE BeginEraseLog \/ BeginArm \/ BeginLeg \/ BeginLogWrite \/ BeginComplete \/ BeginSettle
  BY <1>4 DEF BeginEraseLog, BeginArm, BeginLeg, BeginLogWrite, BeginComplete, BeginSettle,
              BeginCommit, Begin
<1>5. CASE Scan \/ Leg \/ LogWrite
  BY <1>5 DEF Scan, Leg, LogWrite, LogWriteThen, OpOf
<1> QED BY <1>1, <1>2, <1>3, <1>4, <1>5 DEF FlashStep

\* A call of boot_swap_process() runs, or has nothing to do.
LEMMA ProcessCall ==
  ASSUME boot_swap_process
  PROVE  /\ InFlight' = InFlight /\ log' = log
         /\ pc' = "idle" => ~ InFlight
         /\ pc' # "idle" => fn' = "process"
<1>1. InFlight' = InFlight /\ log' = log
  BY DEF boot_swap_process, flash, InFlight
<1> QED BY <1>1 DEF boot_swap_process, Call, Return

\* A call of boot_swap_start() with something bootable begins to erase the log.
LEMMA StartCall ==
  ASSUME NEW type, boot_swap_start(type)
  PROVE  /\ InFlight' = InFlight /\ log' = log
         /\ pc' # "idle" => pc' = "erase_log" /\ fn' = "start"
         /\ boot_image_ok(secondary) => pc' = "erase_log"
<1>1. InFlight' = InFlight /\ log' = log
  BY DEF boot_swap_start, flash, InFlight
<1> QED BY <1>1 DEF boot_swap_start, Call, Return

\* Every step keeps the phases of hal_entry() in step with the engine.
LEMMA PhaseStep ==
  ASSUME BootInv, NoErrors, [BootNext]_boot_vars
  PROVE  PhaseInv'
<1> USE DEF BootInv, PhaseInv
<1>1. EngineInv'
  BY BootMapping, EngineStep
<1>2. CASE Engine
  <2>1. FlashStep /\ UNCHANGED <<phase, request>>
    BY <1>2 DEF Engine, Fail, NoErrors
  <2>2. /\ pc # "idle" /\ phase \in {"requested", "recover", "confirming", "swapping", "recovering"}
        /\ phase \in {"requested", "recover"} => fn = "start" /\ pc \in {"erase_log", "arm"}
        /\ phase = "confirming" => fn = "confirm" /\ pc = "settle"
        /\ phase \in {"swapping", "recovering"} => fn = "process"
    BY <2>1, EngineCall DEF CallInv
  <2>3. CallInv'
    BY <2>1, <2>2, EngineCall DEF CallInv
  <2>4. SettledInv'
    BY <2>1, <2>2, EngineReturn DEF SettledInv, Settled
  <2>5. RequestInv'
    <3>1. SUFFICES ASSUME request # NoRequest, InFlight' PROVE Untouched'
      BY <2>1 DEF RequestInv, RequestedOnce
    <3>2. phase \in {"requested", "confirming"}
      BY <2>2, <3>1 DEF RequestInv
    <3>3. CASE pc' \in {"erase_log", "arm"}
      BY <1>1, <3>1, <3>3 DEF EngineInv, ControlInv
    <3>4. CASE pc' = "settle"
      BY <1>1, <3>1, <3>4 DEF EngineInv, ControlInv
    <3>5. CASE pc' = "idle" /\ phase = "confirming"
      <4>1. Settle
        BY <2>1, <2>2, <3>5 DEF FlashStep, BeginEraseLog, EraseLog, BeginArm, Arm, Scan, BeginLeg, Leg,
               BeginLogWrite, LogWrite, LogWriteThen, BeginComplete, Complete, BeginSettle, EndCommit,
               BeginCommit, Begin
      <4> QED BY <3>1, <4>1 DEF Settle, EndCommit, EngineInv, StagedRecordInv, InFlight
    <3>6. CASE pc' = "idle" /\ phase = "requested"
      <4>1. EraseLog \/ Arm
        BY <2>1, <2>2, <3>6 DEF FlashStep, BeginEraseLog, BeginArm, Scan, BeginLeg, Leg,
               BeginLogWrite, LogWrite, LogWriteThen, BeginComplete, Complete, BeginSettle, Settle,
               EndCommit, BeginCommit, Begin
      <4>2. Arm
        BY <2>2, <3>6, <4>1, EngineReturn, <2>1 DEF EraseLog, Return, ErrorOf
      <4>3. Untouched /\ log' = log
        BY <4>2 DEF Arm, EndCommit, EngineInv, LogInv
      <4> QED BY <4>3 DEF Untouched, Logged
    <3> QED BY <2>3, <2>1, <3>2, <3>3, <3>4, <3>5, <3>6 DEF CallInv
  <2>6. HandoffInv'
    BY <2>1, <2>2 DEF HandoffInv
  <2> QED BY <2>3, <2>4, <2>5, <2>6
<1>3. CASE StartRequested
  <2>1. /\ pc = "idle" /\ phase = "mailbox" /\ phase' = "requested" /\ request' = request
        /\ boot_swap_start(RequestedType)
    BY <1>3 DEF StartRequested, Goto
  <2>2. /\ InFlight' = InFlight /\ log' = log
        /\ pc' # "idle" => pc' = "erase_log" /\ fn' = "start"
    BY <2>1, StartCall
  <2>3. CallInv' /\ SettledInv' /\ HandoffInv'
    BY <2>1, <2>2 DEF CallInv, SettledInv, Settled, HandoffInv
  <2>4. RequestInv'
    BY <2>1, <2>2 DEF RequestInv, RequestedOnce, Untouched, Logged
  <2> QED BY <2>3, <2>4
<1>4. CASE Recover
  <2>1. /\ pc = "idle" /\ phase = "check" /\ phase' = "recover" /\ request' = request
        /\ boot_swap_start("PERM") /\ boot_image_ok(secondary)
    BY <1>4 DEF Recover, Goto
  <2>2. InFlight' = InFlight /\ log' = log /\ pc' = "erase_log" /\ fn' = "start"
    BY <2>1, StartCall DEF Call, boot_swap_start
  <2>3. CallInv' /\ SettledInv' /\ HandoffInv'
    BY <2>1, <2>2 DEF CallInv, SettledInv, Settled, HandoffInv
  <2>4. RequestInv'
    BY <2>1, <2>2 DEF RequestInv, RequestedOnce, Untouched, Logged
  <2> QED BY <2>3, <2>4
<1>5. CASE ProcessSwap \/ RecoverArmed
  <2>1. /\ phase \in {"swap", "recover"} /\ phase' \in {"swapping", "recovering"} /\ request' = request
        /\ boot_swap_process
    BY <1>5 DEF ProcessSwap, RecoverArmed, Goto
  <2>2. /\ InFlight' = InFlight /\ log' = log
        /\ pc' = "idle" => ~ InFlight
        /\ pc' # "idle" => fn' = "process"
    BY <2>1, ProcessCall
  <2>3. CallInv' /\ SettledInv' /\ HandoffInv'
    BY <2>1, <2>2 DEF CallInv, SettledInv, Settled, HandoffInv
  <2>4. RequestInv'
    BY <2>1, <2>2 DEF RequestInv, RequestedOnce, Untouched, Logged
  <2> QED BY <2>3, <2>4
<1>6. CASE Confirm
  <2>1. /\ pc' = "settle" /\ fn' = "confirm" /\ phase = "mailbox" /\ phase' = "confirming"
        /\ UNCHANGED <<request, log, record>>
    BY <1>6 DEF Confirm, Goto, boot_record_set_image_ok, Call, flash
  <2>2. CallInv' /\ SettledInv' /\ HandoffInv'
    BY <2>1 DEF CallInv, SettledInv, Settled, HandoffInv
  <2>3. RequestInv'
    BY <2>1 DEF RequestInv, RequestedOnce, InFlight, Untouched, Logged
  <2> QED BY <2>2, <2>3
<1>7. CASE \/ NothingRequested \/ StartReturned \/ ConfirmNothing \/ ConfirmReturned \/ RefuseRequest
           \/ boot_mailbox_clear
  <2>1. /\ pc = "idle" /\ phase' \in {"swap", "clear"} /\ UNCHANGED swap_vars
        /\ phase \in {"mailbox", "requested", "confirming", "clear"}
        /\ phase' = "swap" => request' = NoRequest
        /\ request' = request \/ request' = NoRequest
    BY <1>7 DEF NothingRequested, StartReturned, ConfirmNothing, ConfirmReturned, RefuseRequest,
                boot_mailbox_clear, Goto
  <2>2. UNCHANGED <<pc, log, record>>
    BY <2>1 DEF swap_vars, flash, locals
  <2>3. CallInv' /\ SettledInv' /\ HandoffInv'
    BY <2>1, <2>2 DEF CallInv, SettledInv, Settled, HandoffInv
  <2>4. RequestInv'
    BY <2>1, <2>2 DEF RequestInv, RequestedOnce, InFlight, Untouched, Logged
  <2> QED BY <2>3, <2>4
<1>8. CASE \/ ProcessReturned \/ PrimaryUsable \/ RecoverRefused \/ RecoverReturned
           \/ boot_swap_log_count \/ boot_flash_close \/ boot_jump_to_primary \/ boot_fatal
  <2>1. /\ pc = "idle" /\ UNCHANGED swap_vars /\ UNCHANGED request
        /\ phase \in {"swapping", "check", "recover", "recovering", "count", "close", "handoff"}
        /\ phase' \in Settled
        /\ phase = "recover" => result # "SUCCESS"
    BY <1>8 DEF ProcessReturned, PrimaryUsable, RecoverRefused, RecoverReturned, boot_swap_log_count,
                boot_flash_close, boot_jump_to_primary, boot_fatal, Goto, Settled
  <2>2. UNCHANGED <<pc, log, record, primary>> /\ ~ InFlight
    BY <2>1 DEF swap_vars, flash, locals, SettledInv, Settled
  <2>3. CallInv' /\ SettledInv'
    BY <2>1, <2>2 DEF CallInv, SettledInv, Settled, InFlight
  <2>4. RequestInv'
    BY <2>1, <2>2 DEF RequestInv, RequestedOnce, InFlight
  <2>5. HandoffInv'
    <3>1. CASE boot_jump_to_primary \/ boot_fatal
      BY <2>2, <3>1 DEF boot_jump_to_primary, boot_fatal, Goto, HandoffInv, boot_image_ok
    <3>2. CASE boot_flash_close
      BY <3>2 DEF boot_flash_close, Goto, HandoffInv
    <3>3. CASE \/ ProcessReturned \/ PrimaryUsable \/ RecoverRefused \/ RecoverReturned
               \/ boot_swap_log_count
      BY <3>3 DEF ProcessReturned, PrimaryUsable, RecoverRefused, RecoverReturned,
                  boot_swap_log_count, Goto, HandoffInv
    <3> QED BY <1>8, <3>1, <3>2, <3>3
  <2> QED BY <2>3, <2>4, <2>5
<1>9. CASE AppStage \/ AppRequest \/ UNCHANGED boot_vars
  <2>1. UNCHANGED <<pc, fn, result, log, record, primary, phase, g_flash_open>>
    BY <1>9 DEF AppStage, AppRequest, boot_vars, swap_vars, flash, locals
  <2>2. phase = "running" \/ request' = request
    BY <1>9 DEF AppRequest, boot_vars, AppStage
  <2>3. CallInv' /\ SettledInv' /\ HandoffInv'
    BY <2>1 DEF CallInv, SettledInv, Settled, InFlight, HandoffInv, boot_image_ok
  <2>4. RequestInv'
    BY <2>1, <2>2 DEF RequestInv, RequestedOnce, SettledInv, Settled, InFlight, Untouched, Logged
  <2> QED BY <2>3, <2>4
<1>10. CASE Reset
  <2>1. /\ phase' = "mailbox" /\ pc' = "idle" /\ UNCHANGED <<log, record>>
        /\ request' = request \/ request' = NoRequest
    BY <1>10 DEF Reset, Crash, Return, flash
  <2> QED BY <2>1 DEF CallInv, SettledInv, Settled, HandoffInv, RequestInv, RequestedOnce, InFlight,
                      Untouched, Logged
<1> QED
  BY <1>2, <1>3, <1>4, <1>5, <1>6, <1>7, <1>8, <1>9, <1>10 DEF BootNext, BootStep, RecoverStarted

\* The invariant of the boot sequence.
LEMMA BootStepInv == NoErrors /\ BootInv /\ [BootNext]_boot_vars => BootInv'
<1> SUFFICES ASSUME NoErrors, BootInv, [BootNext]_boot_vars PROVE BootInv'
  OBVIOUS
<1>1. EngineInv'
  BY BootMapping, EngineStep DEF BootInv
<1>2. BootTypeOK'
  BY <1>1, BootTypeStep DEF BootInv, EngineInv
<1> QED BY <1>1, <1>2, PhaseStep DEF BootInv

-------------------------------------------------------------------------------

(* The boot sequence, the mailbox and the resets together never re-arm a   *)
(* swap that has moved a sector, and never let the application stage into  *)
(* one: all that is proved of the engine holds of the whole program        *)
(* (hal_entry.c, boot_process_mailbox and boot_recover_primary).           *)
THEOREM CallsByTheRule == ASSUME NoErrors PROVE BootSpec => EngineSpec
<1>1. BootInit => Init
  BY DEF BootInit
<1> QED BY <1>1, BootInitInv, BootStepInv, BootMapping, PTL DEF BootSpec, EngineSpec, Spec

(* At every hand-off no exchange is half done, the image about to run      *)
(* looks bootable and the flash driver is closed (hal_entry.c).            *)
THEOREM HandsOverSettled == ASSUME NoErrors PROVE BootSpec => []HandoffSettled
<1>1. BootInv => HandoffSettled
  BY DEF BootInv, PhaseInv, SettledInv, Settled, HandoffInv, HandoffSettled
<1> QED BY <1>1, BootInitInv, BootStepInv, PTL DEF BootSpec

(* A request that a reset has left in SRAM is processed again only while   *)
(* no sector of its swap has moved (hal_entry.c, boot_process_mailbox).    *)
THEOREM RunsOnce == ASSUME NoErrors PROVE BootSpec => []RequestedOnce
<1>1. BootInv => RequestedOnce
  BY DEF BootInv, PhaseInv, RequestInv
<1> QED BY <1>1, BootInitInv, BootStepInv, PTL DEF BootSpec

-------------------------------------------------------------------------------
(* What the refinement of SlotExchange says of the boot sequence: when     *)
(* copies that report success have copied, a swap ends with a bootable     *)
(* primary slot.                                                           *)

PromiseInv == CopyInv /\ (InFlight => boot_image_ok(Incoming))

\* What is promised was bootable when it was armed, and nobody touches it.
LEMMA PromiseStep ==
  EngineInv /\ PromiseInv /\ Faithful /\ [Next]_swap_vars => PromiseInv'
<1> SUFFICES ASSUME EngineInv, PromiseInv, Faithful, [Next]_swap_vars PROVE PromiseInv'
  OBVIOUS
<1>1. CopyInv'
  BY CopyStep DEF PromiseInv
<1>2. [Exchange!Next]_(Exchange!vars)
  BY StepMapping DEF PromiseInv
<1>3. InFlight' => boot_image_ok(Incoming')
  <2>1. CASE Exchange!Arm
    BY <2>1 DEF Exchange!Arm, boot_image_ok
  <2>2. CASE Exchange!Stage \/ Exchange!Forget \/ Exchange!Exchange
    BY <2>2 DEF Exchange!Stage, Exchange!Forget, Exchange!Exchange
  <2>3. CASE UNCHANGED Exchange!vars
    BY <2>3 DEF Exchange!vars, PromiseInv, boot_image_ok
  <2> QED BY <1>2, <2>1, <2>2, <2>3 DEF Exchange!Next
<1> QED BY <1>1, <1>3 DEF PromiseInv, boot_image_ok

\* From the completion of a swap to the hand-off.
TrapInv ==
  /\ pc = "complete" => boot_image_ok(primary)
  /\ phase = "recover" /\ pc = "idle" => InFlight
  /\ phase = "recovering" =>
        /\ pc \in {"idle", "scan", "leg", "log", "complete"}
        /\ pc = "idle" => boot_image_ok(primary)
  /\ phase \in {"count", "close", "handoff"} => boot_image_ok(primary) \/ ~ boot_image_ok(secondary)
  /\ TrapsOnlyWhenEmpty

\* The whole exchange is logged, so the primary slot is what was promised.
LEMMA CompleteOk ==
  EngineInv /\ PromiseInv /\ pc = "complete" /\ ~ busy => boot_image_ok(primary)
<1> SUFFICES ASSUME EngineInv, PromiseInv, pc = "complete", ~ busy
             PROVE  boot_image_ok(primary)
  OBVIOUS
<1>1. InFlight /\ \A s \in Steps : Logged(s)
  BY DEF EngineInv, ControlInv, LogInv
<1>2. Incoming = primary
  BY <1>1, ExchangedMapping DEF EngineInv
<1> QED BY <1>1, <1>2 DEF PromiseInv

\* Every step keeps what is promised; only a step that ends an exchange or a download touches a slot.
LEMMA TrapStep ==
  ASSUME NoErrors, BootInv, PromiseInv, TrapInv, BootInv', PromiseInv', [BootNext]_boot_vars
  PROVE  TrapInv'
<1> USE DEF TrapInv, TrapsOnlyWhenEmpty
<1>1. CASE Engine
  <2>1. FlashStep /\ phase' = phase /\ pc # "idle"
        /\ phase \in {"requested", "recover", "confirming", "swapping", "recovering"}
    BY <1>1, EngineCall DEF Engine, Fail, NoErrors, BootInv, PhaseInv, CallInv
  <2>2. ASSUME pc' = "complete" PROVE boot_image_ok(primary')
    <3>1. CASE busy'
      <4>1. BeginComplete
        BY <2>1, <2>2, <3>1 DEF FlashStep, BeginEraseLog, EraseLog, BeginArm, Arm, Scan, BeginLeg, Leg,
               BeginLogWrite, LogWrite, LogWriteThen, Complete, BeginSettle, Settle, EndCommit,
               BeginCommit, Begin, Return, BootInv, EngineInv, ControlInv, OpOf
      <4>2. primary' = primary /\ pc = "complete"
        BY <4>1 DEF BeginComplete, BeginCommit, Begin
      <4> QED BY <4>2
    <3>2. CASE ~ busy'
      <4>1. (EngineInv /\ PromiseInv /\ pc = "complete" /\ ~ busy)'
        BY <2>2, <3>2 DEF BootInv
      <4>2. boot_image_ok(primary)'
        BY <4>1, CompleteOk, PTL
      <4> QED BY <4>2 DEF boot_image_ok
    <3> QED BY <3>1, <3>2
  <2>3. ASSUME phase = "recover", pc' = "idle" PROVE InFlight'
    <3>1. Arm
      BY <2>1, <2>3, EngineReturn DEF FlashStep, BeginEraseLog, EraseLog, BeginArm, Arm, Scan, BeginLeg,
               Leg, BeginLogWrite, LogWrite, LogWriteThen, BeginComplete, Complete, BeginSettle, Settle,
               EndCommit, BeginCommit, Begin, Return, ErrorOf, BootInv, PhaseInv, CallInv
    <3> QED BY <3>1 DEF Arm, EndCommit, InFlight, BootInv, EngineInv, StagedRecordInv
  <2>4. ASSUME phase = "recovering"
        PROVE  /\ pc' \in {"idle", "scan", "leg", "log", "complete"}
               /\ pc' = "idle" => boot_image_ok(primary')
    <3>1. CASE Complete
      <4>1. pc = "complete" /\ primary' = primary /\ pc' = "idle"
        BY <3>1 DEF Complete, EndCommit, Return
      <4> QED BY <4>1
    <3>2. CASE Scan \/ BeginLeg \/ Leg \/ BeginLogWrite \/ LogWrite \/ BeginComplete
      BY <3>2 DEF Scan, BeginLeg, Leg, BeginLogWrite, LogWrite, LogWriteThen, BeginComplete,
                  BeginCommit, Begin, OpOf
    <3>3. pc \in {"scan", "leg", "log", "complete"}
      BY <2>1, <2>4
    <3>4. Complete \/ Scan \/ BeginLeg \/ Leg \/ BeginLogWrite \/ LogWrite \/ BeginComplete
      BY <2>1, <3>3 DEF FlashStep, BeginEraseLog, EraseLog, BeginArm, Arm, BeginSettle, Settle,
                        EndCommit, BeginCommit, Begin
    <3> QED BY <3>1, <3>2, <3>4
  <2> QED BY <2>1, <2>2, <2>3, <2>4 DEF boot_image_ok
<1>2. CASE RecoverArmed
  <2>1. pc = "idle" /\ phase = "recover" /\ phase' = "recovering" /\ boot_swap_process
    BY <1>2 DEF RecoverArmed, Goto
  <2>2. InFlight /\ ~ boot_record_revert_pending(record)
    BY <2>1 DEF InFlight, boot_record_swap_in_progress, boot_record_revert_pending
  <2>3. pc' = "scan"
    BY <2>1, <2>2 DEF boot_swap_process, Call
  <2> QED BY <2>1, <2>3
<1>3. CASE StartRequested \/ Recover \/ ProcessSwap \/ Confirm
  <2>1. phase' \in {"requested", "recover", "swapping", "confirming"} /\ pc' # "complete"
    BY <1>3 DEF StartRequested, Recover, ProcessSwap, Confirm, Goto, boot_swap_start, boot_swap_process,
                boot_record_set_image_ok, Call, Return
  <2>2. phase' = "recover" => pc' # "idle"
    BY <1>3 DEF StartRequested, Recover, ProcessSwap, Confirm, Goto, boot_swap_start, Call, Return
  <2> QED BY <2>1, <2>2
<1>4. CASE \/ NothingRequested \/ StartReturned \/ ConfirmNothing \/ ConfirmReturned \/ RefuseRequest
           \/ boot_mailbox_clear \/ ProcessReturned
  <2>1. phase' \in {"swap", "clear", "check"} /\ UNCHANGED swap_vars /\ pc = "idle"
    BY <1>4 DEF NothingRequested, StartReturned, ConfirmNothing, ConfirmReturned, RefuseRequest,
                boot_mailbox_clear, ProcessReturned, Goto
  <2>2. pc' = "idle"
    BY <2>1 DEF swap_vars, locals
  <2> QED BY <2>1, <2>2
<1>5. CASE \/ PrimaryUsable \/ RecoverRefused \/ RecoverReturned \/ boot_swap_log_count
           \/ boot_flash_close \/ boot_jump_to_primary \/ boot_fatal
  <2>1. /\ pc = "idle" /\ UNCHANGED swap_vars /\ phase' \in {"count", "close", "handoff", "running", "fatal"}
        /\ phase = "check" => boot_image_ok(primary) \/ ~ boot_image_ok(secondary)
        /\ phase \in {"check", "recovering", "count", "close", "handoff"}
           \/ (phase = "recover" /\ result # "SUCCESS")
        /\ phase' = "fatal" => phase = "handoff" /\ ~ boot_image_ok(primary)
    BY <1>5 DEF PrimaryUsable, RecoverRefused, RecoverReturned, boot_swap_log_count,
                boot_flash_close, boot_jump_to_primary, boot_fatal, Goto
  <2>2. UNCHANGED <<pc, primary, secondary>>
    BY <2>1 DEF swap_vars, flash, locals
  <2>3. phase # "recover"
    BY <2>1 DEF BootInv, PhaseInv, SettledInv
  <2> QED BY <2>1, <2>2, <2>3 DEF boot_image_ok
<1>6. CASE AppStage \/ AppRequest
  <2>1. pc' = pc /\ pc = "idle" /\ phase = "running" /\ phase' = "running"
    BY <1>6 DEF AppStage, AppRequest, swap_vars, locals, BootInv, PhaseInv, CallInv
  <2> QED BY <2>1
<1>7. CASE Reset
  BY <1>7 DEF Reset, Crash, Return
<1>8. CASE UNCHANGED boot_vars
  BY <1>8 DEF boot_vars, swap_vars, flash, locals, boot_image_ok, InFlight
<1> QED BY <1>1, <1>2, <1>3, <1>4, <1>5, <1>6, <1>7, <1>8 DEF BootNext, BootStep, RecoverStarted

(* The bootloader traps only when neither slot looks bootable: the         *)
(* recovery swap, resumed after any number of resets, ends with a bootable *)
(* primary slot (hal_entry.c, boot_recover_primary and boot_fatal).        *)
THEOREM TrapsWhenEmpty == ASSUME NoErrors, Faithful PROVE BootSpec => []TrapsOnlyWhenEmpty
<1>1. BootInit => PromiseInv /\ TrapInv
  BY NothingInFlight DEF BootInit, Init, PromiseInv, CopyInv, TrapInv, TrapsOnlyWhenEmpty, InFlight
<1>2. BootInv /\ PromiseInv /\ [BootNext]_boot_vars => PromiseInv'
  BY BootMapping, PromiseStep DEF BootInv
<1>3. BootInv /\ PromiseInv /\ TrapInv /\ BootInv' /\ PromiseInv' /\ [BootNext]_boot_vars => TrapInv'
  BY TrapStep
<1>4. TrapInv => TrapsOnlyWhenEmpty
  BY DEF TrapInv
<1> QED BY <1>1, <1>2, <1>3, <1>4, BootInitInv, BootStepInv, PTL DEF BootSpec

-------------------------------------------------------------------------------
(* Once an image runs, there is always one to run.                         *)

\* The outgoing image of SlotExchange, which is what runs when nothing is in flight, looks bootable.
Fallback == boot_image_ok(IF InFlight THEN Outgoing ELSE primary)

Kept == Fallback /\ phase \notin {"recover", "recovering", "fatal"}

\* An exchange, whole or not at all, leaves the board an image to run.
LEMMA FallbackStep ==
  EngineInv /\ PromiseInv /\ Faithful /\ Fallback /\ [Next]_swap_vars => Fallback'
<1> SUFFICES ASSUME EngineInv, PromiseInv, Faithful, Fallback, [Next]_swap_vars PROVE Fallback'
  OBVIOUS
<1>1. [Exchange!Next]_(Exchange!vars)
  BY StepMapping DEF PromiseInv
<1>2. CASE Exchange!Exchange
  BY <1>2 DEF Exchange!Exchange, PromiseInv, Fallback, boot_image_ok
<1>3. CASE Exchange!Arm \/ Exchange!Stage \/ Exchange!Forget \/ UNCHANGED Exchange!vars
  BY <1>3 DEF Exchange!Arm, Exchange!Stage, Exchange!Forget, Exchange!vars, Fallback, boot_image_ok
<1> QED BY <1>1, <1>2, <1>3 DEF Exchange!Next

\* With an image to run there is neither a recovery nor a trap.
LEMMA KeptStep ==
  ASSUME BootInv, PromiseInv, Faithful, Kept, [BootNext]_boot_vars
  PROVE  Kept'
<1>1. Fallback'
  BY BootMapping, FallbackStep DEF BootInv, Kept
<1>2. phase \in Settled => boot_image_ok(primary)
  BY DEF Kept, Fallback, BootInv, PhaseInv, SettledInv
<1>3. ~ Recover /\ ~ boot_fatal
  BY <1>2 DEF Recover, boot_fatal, Goto, Settled
<1>4. ~ RecoverArmed
  BY DEF RecoverArmed, Goto, Kept
<1>5. phase' \notin {"recover", "recovering", "fatal"}
  BY <1>3, <1>4
  DEF BootNext, BootStep, RecoverStarted, NothingRequested, StartRequested, StartReturned, ConfirmNothing, Confirm,
      ConfirmReturned, RefuseRequest, boot_mailbox_clear, ProcessSwap, ProcessReturned, PrimaryUsable,
      RecoverRefused, RecoverReturned, boot_swap_log_count, boot_flash_close, boot_jump_to_primary,
      Engine, AppStage, AppRequest, Reset, boot_vars, Goto, Kept
<1> QED BY <1>1, <1>5 DEF Kept

(* A board that has run an application needs no recovery and never traps,  *)
(* whatever is staged, requested and cut off: the exchange always leaves   *)
(* it the image that ran or the one that was promised (hal_entry.c, "can   *)
(* never strand the product").                                             *)
THEOREM NeverStranded == ASSUME NoErrors, Faithful PROVE BootSpec => StaysBootable
<1>1. BootInit => PromiseInv
  BY NothingInFlight DEF BootInit, Init, PromiseInv, CopyInv, InFlight
<1>2. BootInv /\ PromiseInv /\ [BootNext]_boot_vars => PromiseInv'
  BY BootMapping, PromiseStep DEF BootInv
<1>3. BootInv /\ phase = "running" => Kept
  BY DEF BootInv, PhaseInv, SettledInv, HandoffInv, Settled, Kept, Fallback
<1>4. BootInv /\ PromiseInv /\ Kept /\ [BootNext]_boot_vars => Kept'
  BY KeptStep
<1>5. Kept => phase \notin {"recover", "fatal"}
  BY DEF Kept
<1> QED BY <1>1, <1>2, <1>3, <1>4, <1>5, BootInitInv, BootStepInv, PTL DEF BootSpec, StaysBootable

===============================================================================
