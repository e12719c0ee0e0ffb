------------------------------- MODULE BootSwap -------------------------------
(***************************************************************************)
(* The slot swap engine: boot_swap.c with the record writes of             *)
(* boot_record_write.c and the flash operations of boot_flash.c it makes.  *)
(*                                                                         *)
(* Every flash operation is two steps.  Begin... is the moment its target  *)
(* stops holding what it held (busy becomes TRUE), the second step is its  *)
(* successful end.  A reset or a driver error may come before, between or  *)
(* after, so the debris of a half-done operation is a real state.          *)
(*                                                                         *)
(* The bootloader is single threaded.  pc says which flash operation comes *)
(* next, fn which public function is on the stack; "idle" is the caller.   *)
(***************************************************************************)
EXTENDS BootRecord

CONSTANTS
  Images,        \* what the application may leave in a slot, downloads in part included
  Debris,        \* what an unfinished erase or program may leave in a sector
  Misprogrammed, \* what a copy that reported success may have left instead of its source
  FlashFaults,   \* the flash driver may report errors
  RecordTears    \* a reset while the record is rewritten may lose it

ASSUME ContentsAssumption ==
  /\ Images \subseteq Slot
  /\ Debris \subseteq Data
  /\ Misprogrammed \subseteq Data
ASSUME FaultAssumption == FlashFaults \in BOOLEAN /\ RecordTears \in BOOLEAN

(* A word of the progress log.  The FCU blank check tells "blank" and      *)
(* "ghost" (erased) from "entry" and "torn" (programmed, in full or in     *)
(* part); a plain read sees the expected value in "ghost" and "entry".     *)
LogWord == {"blank", "ghost", "entry", "torn"}

VARIABLES
  primary, secondary, scratch,   \* code flash
  log, record,                   \* data flash blocks 1 and 0
  pc, busy, fn,                  \* control
  swap_type, crc_staged, step,   \* locals and parameters of the engine
  g_staged_record,               \* the record about to be programmed
  result                         \* what the last call returned

flash == <<primary, secondary, scratch, log, record>>
locals == <<pc, busy, fn, swap_type, crc_staged, step, g_staged_record, result>>
swap_vars == <<flash, locals>>

Results == {"NONE", "DONE", "REVERTED", "ERROR", "CRC_FAIL",
            "SUCCESS", "INVALID_DATA", "WRITE_FAILED"}

PCs == {"idle", "erase_log", "arm", "scan", "leg", "log", "complete", "settle"}

(* The step counter stays within the exchange, so that no leg and no log   *)
(* entry is written outside its slot or block (boot_swap_process); what is *)
(* about to be programmed as a record is one.                              *)
TypeOK ==
  /\ primary \in Slot /\ secondary \in Slot /\ scratch \in Data
  /\ log \in [Steps -> LogWord]
  /\ record \in Record \cup {NoRecord}
  /\ pc \in PCs
  /\ busy \in BOOLEAN
  /\ fn \in {"none", "start", "process", "confirm"}
  /\ swap_type \in BootSwapTypes
  /\ crc_staged \in Crc32
  /\ step \in 0 .. BOOT_SWAP_STEP_COUNT
  /\ g_staged_record \in Record \cup {NoRecord}
  /\ result \in Results

InFlight == boot_record_swap_in_progress(record)

-------------------------------------------------------------------------------
(* Calls and returns.  The locals of a function that is not active have    *)
(* their initial values.                                                   *)

Call(op, function, type, crc) ==
  /\ pc = "idle"
  /\ pc' = op /\ fn' = function /\ swap_type' = type /\ crc_staged' = crc
  /\ result' = "NONE"
  /\ UNCHANGED <<busy, step, g_staged_record>>

Return(outcome) ==
  /\ pc' = "idle" /\ fn' = "none" /\ swap_type' = "NONE"
  /\ crc_staged' = BOOT_CRC32_UNSET
  /\ busy' = FALSE /\ step' = 0 /\ g_staged_record' = NoRecord
  /\ result' = outcome

\* Mutant: an error on the way is taken for nothing to do.
ErrorOf_swallowed(function) == IF function = "process" THEN "NONE" ELSE "WRITE_FAILED"

ErrorOf(function) == IF function = "process" THEN "ERROR" ELSE "WRITE_FAILED"

\* The operation at pc starts: from here to its end the target is debris.
Begin(op) == pc = op /\ ~ busy /\ busy' = TRUE

-------------------------------------------------------------------------------
(* The log as the FCU and a plain read together see it.                    *)

Counts_no_blank_check(word) == word \in {"ghost", "entry"}

Counts(word) == word = "entry"

IsCount(n) ==
  /\ n \in 0 .. BOOT_SWAP_STEP_COUNT
  /\ \A s \in Steps : s < n => Counts(log[s])
  /\ n \in Steps => ~ Counts(log[n])

\* The worst an erase can leave: whatever was programmed still reads as the entry.
Erased(l) == [s \in Steps |-> IF l[s] = "blank" THEN "blank" ELSE "ghost"]

boot_flash_df_blank_unchecked(l) == TRUE

boot_flash_df_blank(l) == \A s \in Steps : l[s] \in {"blank", "ghost"}

-------------------------------------------------------------------------------
(* The two public functions of boot_swap.h, and the confirmation.          *)

\* Mutant: whatever is staged is armed.
boot_swap_start_unvalidated(type) ==
  /\ Call("erase_log", "start", type, boot_crc32(secondary))
  /\ UNCHANGED flash

boot_swap_start(type) ==
  /\ pc = "idle"
  /\ \/ /\ ~ boot_image_ok(secondary)
        /\ Return("INVALID_DATA")
     \/ /\ boot_image_ok(secondary)
        /\ Call("erase_log", "start", type, boot_crc32(secondary))
  /\ UNCHANGED flash

\* Mutant: a trial that was not confirmed is left alone.
boot_swap_process_no_revert ==
  /\ pc = "idle"
  /\ \/ /\ ~ InFlight
        /\ Return("NONE")
     \/ /\ InFlight
        /\ Call("scan", "process", record.swap_type, BOOT_CRC32_UNSET)
  /\ UNCHANGED flash

boot_swap_process ==
  /\ pc = "idle"
  /\ \/ /\ ~ InFlight /\ ~ boot_record_revert_pending(record)
        /\ Return("NONE")
     \/ /\ InFlight
        /\ Call("scan", "process", record.swap_type, BOOT_CRC32_UNSET)
     \/ /\ boot_record_revert_pending(record)
        /\ boot_image_ok(secondary)
        /\ Call("erase_log", "process", "REVERT", boot_crc32(secondary))
     \/ /\ boot_record_revert_pending(record)
        /\ ~ boot_image_ok(secondary)
        /\ Call("settle", "process", "NONE", BOOT_CRC32_UNSET)
  /\ UNCHANGED flash

boot_record_set_image_ok ==
  /\ Call("settle", "confirm", "NONE", BOOT_CRC32_UNSET)
  /\ UNCHANGED flash

-------------------------------------------------------------------------------
(* boot_record_request_swap(): erase the log, prove the erase, commit.     *)
(* The one retry of a failed proof adds no outcome of its own.             *)

BeginEraseLog ==
  /\ Begin("erase_log")
  /\ \E hit \in SUBSET {s \in Steps : log[s] = "entry"} :
        log' = [s \in Steps |-> IF s \in hit THEN "torn" ELSE log[s]]
  /\ UNCHANGED <<primary, secondary, scratch, record, pc, fn, swap_type,
                 crc_staged, step, g_staged_record, result>>

EraseLog ==
  /\ pc = "erase_log" /\ busy
  /\ \E l \in {Erased(log)} \cup (IF FlashFaults THEN {log} ELSE {}) :
        /\ log' = l
        /\ \/ /\ boot_flash_df_blank(l)
              /\ pc' = "arm" /\ busy' = FALSE
              /\ UNCHANGED <<fn, swap_type, crc_staged, step, g_staged_record, result>>
           \/ /\ ~ boot_flash_df_blank(l)
              /\ Return(ErrorOf(fn))
  /\ UNCHANGED <<primary, secondary, scratch, record>>

(* boot_record_commit(): erase block 0, program it, read it back.  Between *)
(* the erase and the program the block may still read as the old record.   *)
BeginCommit(op, new) ==
  /\ Begin(op)
  /\ g_staged_record' = new
  /\ record' \in {record} \cup (IF RecordTears THEN {NoRecord} ELSE {})
  /\ UNCHANGED <<primary, secondary, scratch, log, pc, fn, swap_type,
                 crc_staged, step, result>>

EndCommit(op) ==
  /\ pc = op /\ busy
  /\ record' = g_staged_record
  /\ UNCHANGED <<primary, secondary, scratch, log>>

BeginArm == BeginCommit("arm", Requested(record, swap_type, crc_staged))

Arm ==
  /\ EndCommit("arm")
  /\ \/ fn = "start" /\ Return("SUCCESS")
     \/ /\ fn = "process"
        /\ pc' = "scan" /\ busy' = FALSE /\ g_staged_record' = NoRecord
        /\ UNCHANGED <<fn, swap_type, crc_staged, step, result>>

-------------------------------------------------------------------------------
(* The exchange: boot_swap_log_scan(), then leg and log entry in turn.     *)

OpOf(n) == IF n < BOOT_SWAP_STEP_COUNT THEN "leg" ELSE "complete"

\* Mutant: a log with all its entries is taken for a corrupt one.
Scan_full_log_refused ==
  /\ pc = "scan"
  /\ \E n \in 0 .. BOOT_SWAP_STEP_COUNT :
        /\ IsCount(n)
        /\ \/ /\ n \in Steps
              /\ crc_staged' = record.crc32_staged /\ step' = n /\ pc' = "leg"
              /\ UNCHANGED <<busy, fn, swap_type, g_staged_record, result>>
           \/ n \notin Steps /\ Return("ERROR")
  /\ UNCHANGED flash

Scan ==
  /\ pc = "scan"
  /\ crc_staged' = record.crc32_staged
  /\ \E n \in 0 .. BOOT_SWAP_STEP_COUNT : IsCount(n) /\ step' = n /\ pc' = OpOf(n)
  /\ UNCHANGED <<flash, busy, fn, swap_type, g_staged_record, result>>

\* Mutant: the outgoing image is not kept.
LegSource_one_way == IF LegOf(step) = 0 THEN secondary[SectorOf(step)] ELSE scratch

LegSource ==
  CASE LegOf(step) = 0 -> secondary[SectorOf(step)]
    [] LegOf(step) = 1 -> primary[SectorOf(step)]
    [] LegOf(step) = 2 -> scratch

LegDest ==
  CASE LegOf(step) = 0 -> scratch
    [] LegOf(step) = 1 -> secondary[SectorOf(step)]
    [] LegOf(step) = 2 -> primary[SectorOf(step)]

\* The destination sector of the current leg becomes d.
SetLegDest(d) ==
  /\ scratch' = IF LegOf(step) = 0 THEN d ELSE scratch
  /\ secondary' = IF LegOf(step) = 1 THEN [secondary EXCEPT ![SectorOf(step)] = d]
                                     ELSE secondary
  /\ primary' = IF LegOf(step) = 2 THEN [primary EXCEPT ![SectorOf(step)] = d]
                                   ELSE primary

BeginLeg ==
  /\ Begin("leg")
  /\ \E d \in Debris : SetLegDest(d)
  /\ UNCHANGED <<log, record, pc, fn, swap_type, crc_staged, step,
                 g_staged_record, result>>

Leg ==
  /\ pc = "leg" /\ busy
  /\ \E d \in {LegSource} \cup Misprogrammed : SetLegDest(d)
  /\ pc' = "log" /\ busy' = FALSE
  /\ UNCHANGED <<log, record, fn, swap_type, crc_staged, step,
                 g_staged_record, result>>

BeginLogWrite ==
  /\ Begin("log")
  /\ log' = [log EXCEPT ![step] = "torn"]
  /\ UNCHANGED <<primary, secondary, scratch, record, pc, fn, swap_type,
                 crc_staged, step, g_staged_record, result>>

\* The log entry is written and the loop goes on.
LogWriteThen(next) ==
  /\ pc = "log" /\ busy
  /\ log' = [log EXCEPT ![step] = "entry"]
  /\ step' = next /\ pc' = OpOf(next) /\ busy' = FALSE
  /\ UNCHANGED <<primary, secondary, scratch, record, fn, swap_type,
                 crc_staged, g_staged_record, result>>

\* Mutants: the loop counter advances twice, or not at all.
LogWrite_twice_advanced == LogWriteThen(step + 2)
LogWrite_not_advanced == LogWriteThen(step)

LogWrite == LogWriteThen(step + 1)

-------------------------------------------------------------------------------
(* Completion: compare the primary slot with the fingerprint of the staged *)
(* image, and record the end of the exchange whatever the comparison says. *)

CrcOk_unchecked == TRUE

CrcOk == crc_staged = BOOT_CRC32_UNSET \/ boot_crc32(primary) = crc_staged

BeginComplete == BeginCommit("complete", Completed(record, swap_type))

Complete ==
  /\ EndCommit("complete")
  /\ Return(CASE ~ CrcOk -> "CRC_FAIL"
              [] CrcOk /\ swap_type = "REVERT" -> "REVERTED"
              [] CrcOk /\ swap_type # "REVERT" -> "DONE")

\* The record is settled on the image that runs: confirmed, or nothing to revert to.
BeginSettle == BeginCommit("settle", Confirmed(record))

Settle ==
  /\ EndCommit("settle")
  /\ Return(IF fn = "process" THEN "NONE" ELSE "SUCCESS")

-------------------------------------------------------------------------------
(* A driver error is returned to the caller at once; a reset clears RAM.   *)
(* Either leaves the flash as the operation in progress has made it.       *)

Fail ==
  /\ FlashFaults
  /\ pc # "idle"
  /\ Return(ErrorOf(fn))
  /\ UNCHANGED flash

Crash ==
  /\ Return("NONE")
  /\ UNCHANGED flash

FlashStep ==
  \/ BeginEraseLog \/ EraseLog
  \/ BeginArm \/ Arm
  \/ Scan
  \/ BeginLeg \/ Leg
  \/ BeginLogWrite \/ LogWrite
  \/ BeginComplete \/ Complete
  \/ BeginSettle \/ Settle

SwapStep == FlashStep \/ Fail

-------------------------------------------------------------------------------
(* The engine among callers that keep its one rule: a swap is not armed    *)
(* again once its first leg is logged.  (A request repeated after a reset  *)
(* does arm the same swap twice.)                                          *)

Logged(s) == Counts(log[s])

Untouched == \A s \in Steps : ~ Logged(s)

Caller ==
  \/ (InFlight => Untouched) /\ \E type \in {"PERM", "TEST"} : boot_swap_start(type)
  \/ boot_swap_process
  \/ boot_record_revert_pending(record) /\ boot_record_set_image_ok

\* The application downloads into the secondary slot.
Stage ==
  /\ pc = "idle" /\ ~ InFlight
  /\ secondary' \in Images
  /\ UNCHANGED <<primary, scratch, log, record, locals>>

Init ==
  /\ primary \in Images /\ secondary \in Images /\ scratch \in Data
  /\ log = [s \in Steps |-> "blank"]
  /\ record = NoRecord
  /\ pc = "idle" /\ busy = FALSE /\ fn = "none" /\ swap_type = "NONE"
  /\ crc_staged = BOOT_CRC32_UNSET /\ step = 0
  /\ g_staged_record = NoRecord /\ result = "NONE"

Next == SwapStep \/ Caller \/ Stage \/ Crash

Spec == Init /\ [][Next]_swap_vars

-------------------------------------------------------------------------------
(* What a resume would make of the slots: the pair of images being         *)
(* exchanged, read off the log and the sectors the next legs depend on.    *)

Outgoing ==
  [i \in Sectors |-> IF Logged(3 * i + 1) THEN secondary[i] ELSE primary[i]]

Incoming ==
  [i \in Sectors |-> IF Logged(3 * i + 2) THEN primary[i]
                     ELSE IF Logged(3 * i) THEN scratch ELSE secondary[i]]

Exchange == INSTANCE SlotExchange WITH
  Slots     <- Slot,
  Runnable  <- {slot \in Slot : boot_image_ok(slot)},
  primary   <- IF InFlight THEN Outgoing ELSE primary,
  secondary <- IF InFlight THEN Incoming ELSE secondary,
  armed     <- InFlight

(* Refinement.  Through any number of resets, torn record writes, driver   *)
(* errors and resumed legs, what the engine does to the two slots is one   *)
(* whole exchange per armed swap, or nothing (boot_swap.h, "a repeated     *)
(* (interrupted) leg harmless").                                           *)
ExchangeSpec == Exchange!Spec

-------------------------------------------------------------------------------
(* The inductive invariant behind the refinement, when a copy that reports *)
(* success has copied.                                                     *)

\* What each operation may rely on about the swap it belongs to.
ControlInv ==
  /\ pc = "idle" => ~ busy
  /\ pc \in {"erase_log", "arm"} =>
        /\ fn \in {"start", "process"} /\ swap_type # "NONE"
        /\ boot_image_ok(secondary)
        /\ InFlight => Untouched
  /\ pc \in {"scan", "leg", "log"} => fn = "process" /\ InFlight
  /\ pc = "complete" => fn = "process" /\ (~ busy => InFlight)
  /\ pc = "settle" => ~ InFlight
  /\ pc = "scan" => ~ busy

\* What is about to be programmed into the record block.
StagedRecordInv ==
  busy =>
    /\ pc = "arm" => boot_record_swap_in_progress(g_staged_record)
    /\ pc \in {"complete", "settle"} =>
          /\ g_staged_record # NoRecord
          /\ ~ boot_record_swap_in_progress(g_staged_record)

(* The log of a swap in flight counts the legs that are done: no leg is    *)
(* logged before an earlier one, and the running leg is the first not yet  *)
(* logged.  A swap is armed on a log without entries only.                 *)
PrefixShaped == \A s, m \in Steps : Logged(s) /\ m < s => Logged(m)

LogInv ==
  /\ InFlight => PrefixShaped
  /\ pc = "arm" => Untouched
  /\ pc \in {"leg", "log"} => step \in Steps /\ IsCount(step)
  /\ pc = "complete" => \A s \in Steps : Logged(s)

\* A leg is logged only when its destination equals its source.
CopyInv == pc = "log" => LegDest = LegSource

(* The engine's inductive invariant: a reset at any instant finds a record *)
(* and a log from which the exchange can be resumed without loss           *)
(* (boot_swap_log_scan and boot_record_request_swap).                      *)
ResumeInv == ControlInv /\ StagedRecordInv /\ LogInv /\ CopyInv

-------------------------------------------------------------------------------
(* The verification of the installed image (boot_swap.h, "VERIFICATION").  *)

(* A swap reported as done or reverted has put into the primary slot an    *)
(* image with the fingerprint in the record, whatever the flash driver     *)
(* claimed about its copies.                                               *)
VerifiedArrival ==
  pc = "idle" /\ result \in {"DONE", "REVERTED"} =>
    /\ record # NoRecord /\ record.copy_done
    /\ record.crc32_staged \in {boot_crc32(primary), BOOT_CRC32_UNSET}

(* The fingerprint is that of the secondary slot when the swap is armed,   *)
(* and no reset or resume replaces it before the swap is over.             *)
FingerprintOfStaged ==
  [][InFlight' =>
       record'.crc32_staged = IF InFlight /\ ~ Untouched THEN record.crc32_staged
                                                       ELSE boot_crc32(secondary)]_record

\* boot_flash.h, boot_flash_log_write: "The block must already be erased at that offset."
LogWrittenOnErased ==
  [][BeginLogWrite => log[step] \in {"blank", "ghost"}]_swap_vars

===============================================================================
