------------------------------ MODULE Bootloader ------------------------------
(***************************************************************************)
(* The boot sequence of hal_entry.c around the swap engine, the RAM        *)
(* mailbox it shares with the application, and the application and the     *)
(* resets as its environment.                                              *)
(*                                                                         *)
(* phase is the place in hal_entry() at which the bootloader is; while the *)
(* engine is on the stack (pc # "idle") it waits there.  In "running" the  *)
(* application has the core, in "fatal" nobody has.                        *)
(*                                                                         *)
(* A mailbox whose magic or check word is wrong holds NoRequest, and an    *)
(* acknowledgement without its magic is NoAck.  A warm reset keeps SRAM, a *)
(* cold one leaves contents that fail both checks.                         *)
(***************************************************************************)
EXTENDS BootSwap

CONSTANTS
  NoRequest,
  NoAck,
  TrialStaging,  \* while on trial the application may download into the secondary slot
  TrialSwaps     \* while on trial it may request a swap

ASSUME TrialAssumption == TrialStaging \in BOOLEAN /\ TrialSwaps \in BOOLEAN

Requests == {[command |-> "SWAP", arg |-> "PERM"], [command |-> "SWAP", arg |-> "TEST"],
             [command |-> "CONFIRM", arg |-> "NONE"], [command |-> "GARBLED", arg |-> "NONE"]}

Commands == {"SWAP", "CONFIRM", "NOT_REQUESTED"}

Statuses == {"OK", "SWAPPED", "CONFIRMED", "REVERTED", "ERR_IMAGE", "ERR_WRITE",
             "ERR_REQUEST", "ERR_SWAP", "ERR_CRC"}

Acks == [status : Statuses, req_cmd : Commands, detail : 0 .. BOOT_SWAP_STEP_COUNT]

Phases == {"mailbox", "requested", "confirming", "clear", "swap", "swapping", "check",
           "recover", "recovering", "count", "close", "handoff", "running", "fatal"}

VARIABLES
  phase,
  request,         \* the request half of the mailbox
  ack,             \* its result half
  g_boot_status, g_boot_req,
  g_flash_open,    \* the driver's, from boot_flash.c
  legs             \* local of hal_entry()

ram == <<g_boot_status, g_boot_req, legs>>
boot_vars == <<swap_vars, phase, request, ack, g_flash_open, ram>>

(* Whatever the application requests, what is reported to it is a status,  *)
(* a command and a number of legs it knows (boot_mailbox.h).               *)
BootTypeOK ==
  /\ TypeOK
  /\ phase \in Phases
  /\ request \in Requests \cup {NoRequest}
  /\ ack \in Acks \cup {NoAck}
  /\ g_boot_status \in Statuses /\ g_boot_req \in Commands
  /\ g_flash_open \in BOOLEAN
  /\ legs \in 0 .. BOOT_SWAP_STEP_COUNT

\* The bootloader moves on within hal_entry().
Goto(from, to) ==
  /\ pc = "idle" /\ phase = from /\ phase' = to
  /\ UNCHANGED ack

SetStatus(status) == g_boot_status' = status /\ UNCHANGED <<g_boot_req, legs>>

-------------------------------------------------------------------------------
(* boot_process_mailbox().                                                 *)

NothingRequested ==
  /\ Goto("mailbox", "swap")
  /\ request = NoRequest
  /\ UNCHANGED <<swap_vars, request, ram, g_flash_open>>

\* An arg that is not TEST is PERM, whatever it is.
RequestedType == IF request.arg = "TEST" THEN "TEST" ELSE "PERM"

StartRequested ==
  /\ Goto("mailbox", "requested")
  /\ request # NoRequest /\ request.command = "SWAP"
  /\ boot_swap_start(RequestedType)
  /\ g_boot_req' = "SWAP"
  /\ UNCHANGED <<request, g_boot_status, legs, g_flash_open>>

\* Mutant: the request is left in the mailbox.
StartReturned_uncleared ==
  /\ Goto("requested", "swap")
  /\ SetStatus(CASE result = "INVALID_DATA" -> "ERR_IMAGE"
                 [] result = "SUCCESS"      -> g_boot_status
                 [] OTHER                   -> "ERR_WRITE")
  /\ UNCHANGED <<swap_vars, request, g_flash_open>>

StartReturned ==
  /\ Goto("requested", "clear")
  /\ SetStatus(CASE result = "INVALID_DATA" -> "ERR_IMAGE"
                 [] result = "SUCCESS"      -> g_boot_status
                 [] OTHER                   -> "ERR_WRITE")
  /\ UNCHANGED <<swap_vars, request, g_flash_open>>

ConfirmNothing ==
  /\ Goto("mailbox", "clear")
  /\ request # NoRequest /\ request.command = "CONFIRM"
  /\ ~ boot_record_revert_pending(record)
  /\ g_boot_req' = "CONFIRM" /\ g_boot_status' = "CONFIRMED"
  /\ UNCHANGED <<swap_vars, request, legs, g_flash_open>>

Confirm ==
  /\ Goto("mailbox", "confirming")
  /\ request # NoRequest /\ request.command = "CONFIRM"
  /\ boot_record_revert_pending(record)
  /\ boot_record_set_image_ok
  /\ g_boot_req' = "CONFIRM"
  /\ UNCHANGED <<request, g_boot_status, legs, g_flash_open>>

ConfirmReturned ==
  /\ Goto("confirming", "clear")
  /\ SetStatus(IF result = "SUCCESS" THEN "CONFIRMED" ELSE "ERR_WRITE")
  /\ UNCHANGED <<swap_vars, request, g_flash_open>>

\* Mutant: the refused command is acknowledged as it came.
RefuseRequest_command_kept ==
  /\ Goto("mailbox", "clear")
  /\ request # NoRequest /\ request.command \notin {"SWAP", "CONFIRM"}
  /\ g_boot_status' = "ERR_REQUEST" /\ g_boot_req' = request.command
  /\ UNCHANGED <<swap_vars, request, legs, g_flash_open>>

RefuseRequest ==
  /\ Goto("mailbox", "clear")
  /\ request # NoRequest /\ request.command \notin {"SWAP", "CONFIRM"}
  /\ SetStatus("ERR_REQUEST")
  /\ UNCHANGED <<swap_vars, request, g_flash_open>>

\* Mutant: the mailbox is not cleared.
boot_mailbox_clear_forgotten ==
  /\ Goto("clear", "swap")
  /\ UNCHANGED <<swap_vars, request, ram, g_flash_open>>

boot_mailbox_clear ==
  /\ Goto("clear", "swap")
  /\ request' = NoRequest
  /\ UNCHANGED <<swap_vars, ram, g_flash_open>>

-------------------------------------------------------------------------------
(* boot_process_swap().                                                    *)

ProcessSwap ==
  /\ Goto("swap", "swapping")
  /\ boot_swap_process
  /\ UNCHANGED <<request, ram, g_flash_open>>

\* Mutant: an error of the engine leaves the status as it is.
StatusAfter_error_ignored(outcome, status) ==
  CASE outcome = "DONE"     -> IF status \in {"OK", "CONFIRMED"} THEN "SWAPPED" ELSE status
    [] outcome = "REVERTED" -> "REVERTED"
    [] outcome = "CRC_FAIL" -> "ERR_CRC"
    [] OTHER                -> status

\* Mutant: a swap that failed its verification is reported as done.
StatusAfter_crc_fail_ignored(outcome, status) ==
  CASE outcome \in {"DONE", "CRC_FAIL"} -> IF status \in {"OK", "CONFIRMED"} THEN "SWAPPED" ELSE status
    [] outcome = "REVERTED" -> "REVERTED"
    [] outcome = "ERROR"    -> "ERR_SWAP"
    [] OTHER                -> status

\* An earlier rejection is not masked by a success, a revert always wins.
StatusAfter(outcome, status) ==
  CASE outcome = "DONE"     -> IF status \in {"OK", "CONFIRMED"} THEN "SWAPPED" ELSE status
    [] outcome = "REVERTED" -> "REVERTED"
    [] outcome = "ERROR"    -> "ERR_SWAP"
    [] outcome = "CRC_FAIL" -> "ERR_CRC"
    [] OTHER                -> status

ProcessReturned ==
  /\ Goto("swapping", "check")
  /\ SetStatus(StatusAfter(result, g_boot_status))
  /\ UNCHANGED <<swap_vars, request, g_flash_open>>

-------------------------------------------------------------------------------
(* boot_recover_primary(): the last line of defence.                       *)

\* Mutant: no recovery.
PrimaryUsable_unchecked ==
  /\ Goto("check", "count")
  /\ UNCHANGED <<swap_vars, request, ram, g_flash_open>>

PrimaryUsable ==
  /\ Goto("check", "count")
  /\ boot_image_ok(primary) \/ ~ boot_image_ok(secondary)
  /\ UNCHANGED <<swap_vars, request, ram, g_flash_open>>

Recover ==
  /\ Goto("check", "recover")
  /\ ~ boot_image_ok(primary) /\ boot_image_ok(secondary)
  /\ boot_swap_start("PERM")
  /\ UNCHANGED <<request, ram, g_flash_open>>

RecoverArmed ==
  /\ Goto("recover", "recovering")
  /\ result = "SUCCESS"
  /\ boot_swap_process
  /\ UNCHANGED <<request, ram, g_flash_open>>

RecoverRefused ==
  /\ Goto("recover", "count")
  /\ result # "SUCCESS"
  /\ UNCHANGED <<swap_vars, request, ram, g_flash_open>>

\* boot_swap_start() has returned to boot_recover_primary().
RecoverStarted == phase = "recover" /\ (RecoverArmed \/ RecoverRefused)

RecoverReturned ==
  /\ Goto("recovering", "count")
  /\ SetStatus(IF result = "DONE" THEN "SWAPPED" ELSE g_boot_status)
  /\ UNCHANGED <<swap_vars, request, g_flash_open>>

-------------------------------------------------------------------------------
(* The hand-off.                                                           *)

boot_swap_log_count ==
  /\ Goto("count", "close")
  /\ \/ /\ \E n \in 0 .. BOOT_SWAP_STEP_COUNT : IsCount(n) /\ legs' = n
        /\ g_flash_open' = TRUE
     \/ /\ FlashFaults
        /\ legs' = 0
        /\ g_flash_open' \in {g_flash_open, TRUE}
  /\ UNCHANGED <<swap_vars, request, g_boot_status, g_boot_req>>

boot_flash_close ==
  /\ Goto("close", "handoff")
  /\ g_flash_open' = FALSE
  /\ UNCHANGED <<swap_vars, request, ram>>

boot_mailbox_set_ack(status, detail) ==
  ack' = [status |-> status, req_cmd |-> g_boot_req, detail |-> detail]

\* Mutant: the primary slot is not checked again before the jump.
boot_jump_to_primary_unchecked ==
  /\ pc = "idle" /\ phase = "handoff" /\ phase' = "running"
  /\ boot_mailbox_set_ack(g_boot_status, legs)
  /\ UNCHANGED <<swap_vars, request, ram, g_flash_open>>

boot_jump_to_primary ==
  /\ pc = "idle" /\ phase = "handoff" /\ phase' = "running"
  /\ boot_image_ok(primary)
  /\ boot_mailbox_set_ack(g_boot_status, legs)
  /\ UNCHANGED <<swap_vars, request, ram, g_flash_open>>

boot_fatal ==
  /\ pc = "idle" /\ phase = "handoff" /\ phase' = "fatal"
  /\ ~ boot_image_ok(primary)
  /\ boot_mailbox_set_ack("ERR_IMAGE", 0)
  /\ UNCHANGED <<swap_vars, request, ram, g_flash_open>>

\* A flash operation of the engine: the driver is opened by the first one.
Engine ==
  /\ \/ FlashStep /\ g_flash_open' = TRUE
     \/ Fail /\ g_flash_open' \in {g_flash_open, TRUE}
  /\ UNCHANGED <<phase, request, ack, ram>>

BootStep ==
  \/ NothingRequested \/ StartRequested \/ StartReturned
  \/ ConfirmNothing \/ Confirm \/ ConfirmReturned
  \/ RefuseRequest \/ boot_mailbox_clear
  \/ ProcessSwap \/ ProcessReturned
  \/ PrimaryUsable \/ Recover \/ RecoverStarted \/ RecoverReturned
  \/ boot_swap_log_count \/ boot_flash_close \/ boot_jump_to_primary \/ boot_fatal
  \/ Engine

-------------------------------------------------------------------------------
(* The application and the resets.                                         *)

OnTrial == boot_record_revert_pending(record)

AppStage ==
  /\ phase = "running"
  /\ OnTrial => TrialStaging
  /\ secondary' \in Images
  /\ UNCHANGED <<primary, scratch, log, record, locals, phase, request, ack, g_flash_open, ram>>

\* The application asks for something, or takes its request back.
AppRequest ==
  /\ phase = "running"
  /\ request' \in {NoRequest} \cup {r \in Requests : OnTrial /\ r.command = "SWAP" => TrialSwaps}
  /\ UNCHANGED <<swap_vars, phase, ack, g_flash_open, ram>>

\* A reset at any instant.  No one reads the old acknowledgement again.
Reset ==
  /\ Crash
  /\ phase' = "mailbox"
  /\ request' \in {request, NoRequest}
  /\ ack' = NoAck
  /\ g_boot_status' = "OK" /\ g_boot_req' = "NOT_REQUESTED" /\ legs' = 0
  /\ g_flash_open' = FALSE

BootInit ==
  /\ Init
  /\ phase = "mailbox" /\ request = NoRequest /\ ack = NoAck
  /\ g_boot_status = "OK" /\ g_boot_req = "NOT_REQUESTED" /\ legs = 0
  /\ g_flash_open = FALSE

BootNext == BootStep \/ AppStage \/ AppRequest \/ Reset

BootSpec == BootInit /\ [][BootNext]_boot_vars

\* The core executes the bootloader.  What the application does, and when, is its own business.
LiveBootSpec == BootSpec /\ WF_boot_vars(BootStep)

-------------------------------------------------------------------------------
(* What the boot sequence adds to the engine.                              *)

(* The bootloader is a caller that keeps the engine's rule: whatever is    *)
(* requested, repeated or cut short, boot_swap_start() never re-arms a     *)
(* swap that has moved a sector (hal_entry.c, boot_process_mailbox and     *)
(* boot_recover_primary).                                                  *)
EngineSpec == Spec

(* The mailbox, as the boot sequence and the application use it, is the    *)
(* handshake that BootMailbox implements store by store: no request        *)
(* outlives the boot that saw it, and no application runs without a report *)
(* (hal_entry.c, boot_process_mailbox and the acknowledgement).            *)
Hand == INSTANCE Handshake
          WITH turn <- IF phase \in {"running", "fatal"} THEN "app" ELSE "boot"

HandshakeSpec == Hand!Spec

(* At the hand-off no exchange is half done, the image about to run looks  *)
(* bootable and the flash driver is closed (hal_entry.c: "it makes sure    *)
(* the right image IS the primary slot, then hands over").                 *)
HandoffSettled ==
  phase = "running" => ~ InFlight /\ boot_image_ok(primary) /\ ~ g_flash_open

(* A request outlives a reset in SRAM only until a sector has moved: it is *)
(* never processed a second time in the middle of its own swap             *)
(* (hal_entry.c: "The request is cleared so it runs exactly once").        *)
RequestedOnce == request # NoRequest /\ InFlight => Untouched

(* Whatever fails, what is handed over looks bootable, with the flash      *)
(* driver closed, and an exchange is left half done only by a boot whose   *)
(* last call of the engine returned an error (hal_entry.c, hal_entry and   *)
(* boot_recover_primary).                                                  *)
SettledUnlessFailed ==
  phase = "running" =>
    /\ boot_image_ok(primary) /\ ~ g_flash_open
    /\ InFlight => result \in {"ERROR", "WRITE_FAILED"}

(* Whatever fails, a trial image is started with its trial still to be     *)
(* confirmed on the boot that has installed it only: a later boot that     *)
(* should have reverted it and starts it once more says so to it           *)
(* (boot_swap.c, the revert in boot_swap_process; hal_entry.c,             *)
(* boot_process_swap).                                                     *)
TrialRepeatReported ==
  phase = "running" /\ boot_record_revert_pending(record) =>
    result = "DONE" \/ ack.status \in {"ERR_SWAP", "ERR_CRC"}

(* A board that has run an application never traps again, and needs no     *)
(* recovery again either, whatever is staged and requested ("a bad request *)
(* can never strand the product"; "This cannot oscillate").                *)
StaysBootable == [](phase = "running" => [](phase \notin {"recover", "fatal"}))

(* The bootloader traps only when neither slot looks bootable.             *)
TrapsOnlyWhenEmpty ==
  phase = "fatal" => ~ boot_image_ok(primary) /\ ~ boot_image_ok(secondary)

ResetsCease == <>[][~ Reset]_boot_vars

(* When the resets cease, every boot ends in the application or the trap,  *)
(* from wherever the last one was cut off.                                 *)
BootEnds == ResetsCease => <>[](phase \in {"running", "fatal"})

(* When the resets cease, an armed swap is completed.                      *)
SwapCompletes == ResetsCease => (InFlight ~> ~ InFlight)

-------------------------------------------------------------------------------
(* What the sources say of the boot sequence and the code does not do when *)
(* a flash operation fails.                                                *)

(* boot_mailbox.h: SWAPPED is "A swap completed and the new image is now   *)
(* running", the new image being one that an application has left in a     *)
(* slot.                                                                   *)
SwappedIsAnImage == phase = "running" /\ ack.status = "SWAPPED" => primary \in Images

(* boot_mailbox.h: ERR_SWAP is "A swap was started but a flash operation   *)
(* failed part way through".                                               *)
HalfSwapReported == phase = "running" /\ InFlight => ack.status = "ERR_SWAP"

===============================================================================
