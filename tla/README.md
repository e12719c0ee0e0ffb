# Verification of the RA6E2 swap bootloader

TLA+ modules, TLC configurations and TLAPS proofs for the bootloader in this
repository (`README.md`, `src/*.c`, `src/*.h`): a program of about 1000 lines of C
that runs before the application, exchanges two flash slots sector by sector through a
scratch area, and must come back from a power cut at any instant.

Paths below are relative to the root of that repository.

## 1. The system

One core, one thread, no interrupts while the bootloader runs. What makes it hard is not
concurrency but **time**: each boot is cut off at an arbitrary point, RAM is lost, and
the next boot has to understand what the last one left in three kinds of memory.

| Component | State | Operations | Talks to | Correct when |
|---|---|---|---|---|
| Flash layout (`src/boot_layout.h`) | none | image check, sector addresses, step encoding | everybody | an image that is accepted can start; sectors, log and record do not overlap |
| Boot record (`src/boot_record.c`) | data flash block 0 | read and validate, `swap_in_progress`, `revert_pending`, `staged_crc` | swap engine, boot sequence | a torn record is never taken for a valid one |
| Record writer (`src/boot_record_write.c`) | `g_staged_record`, block 0, erases block 1 | request, complete, confirm | flash access | the log is provably empty before a swap is armed |
| Swap engine (`src/boot_swap.c`) | two slots, scratch, log (block 1) | `boot_swap_start`, `boot_swap_process`, `boot_swap_log_count` | record, flash access | slots are exchanged whole, once, across any cuts; a wrong copy is noticed |
| Flash access (`src/boot_flash.c`) | `g_flash_open`, chunk buffer | open, close, erase, write, copy, blank check, CRC32 | vendor driver | no read while the FCU is busy; closed at the hand-off |
| RAM mailbox (`src/boot_mailbox.h`) | 32 bytes of SRAM that survive a warm reset | pending, clear, set_ack | application | a request runs once; a half-written one is not accepted |
| Boot sequence (`src/hal_entry.c`) | `g_boot_status`, `g_boot_req` | mailbox, swap, recovery, hand-off | all of the above | the board always comes up, and says truthfully what happened |
| Hand-off (`src/boot_jump.c`) | core registers | `boot_jump_to_primary` | application | reset-like core, no interrupt before the application has started |
| Application (another repository) | the secondary slot, the request | download, request, reset | mailbox | - |

Hard behaviours, each with its line in `PROJECT.json` under `hazards`:

* a cut in the middle of a leg, between a leg and its log entry, inside the write of an
  entry, between the erase and the program of the record, between arming a swap and
  clearing the request;
* erased data flash that still reads as it did before (README, "Erased data flash does
  not read as 0xFF");
* a driver that reports an error half-way, or success for a copy that did not arrive;
* a reset between two stores to the mailbox, and SRAM that decays while the supply is off;
* erase blocks of three sizes, and a RAM buffer smaller than a sector;
* interrupts that are enabled again one instruction before the application starts;
* an application that requests and downloads at the worst moment of a trial.

## 2. The modules

| Module | What it is | Lines of the code |
|---|---|---|
| `BootLayout` | sectors, steps, legs, the image check as a set `Bootable` of sector contents | `boot_layout.h` |
| `BootRecord` | the record as a value, and what each writer makes of it | `boot_record.c`, `boot_record_write.c` |
| `SlotExchange` | **abstract**: two slots that are exchanged whole, or not at all | - |
| `BootSwap` | the swap engine, flash operation by flash operation; implements `SlotExchange` | `boot_swap.c`, `boot_record_write.c`, `boot_flash.c` |
| `BootSwapProofs` | theorems about `BootSwap`: types, resumability, the refinement of `SlotExchange`, the fingerprint and its verification | - |
| `Handshake` | **abstract**: a request seen whole by one boot, a report found whole by the application it started | - |
| `Bootloader` | `hal_entry()` around the engine, mailbox, application, resets; uses the engine as `BootSwap` specifies, implements `Handshake` | `hal_entry.c`, `boot_mailbox.h` |
| `BootloaderProofs` | theorems about `Bootloader` when the driver reports no errors | - |
| `FaultBoot` | `Bootloader` followed with three history variables: whether an exchange has moved and is not over, whether the last swap was armed over one, and which image was staged | - |
| `FaultProofs` | theorems about `Bootloader` and `FaultBoot` when anything may fail, with the refinement of `Handshake` | - |
| `ImageTrial` | **abstract**: an image on trial is accepted or the one before it put back, with no power cuts and no record | - |
| `TrialBoot` | `Bootloader` followed with two history variables; implements `ImageTrial` | - |
| `TrialProofs` | theorems about `TrialBoot`: its properties, and the refinement of `ImageTrial` | - |
| `BootMailbox` | the mailbox store by store, with its check words | `boot_mailbox.h` |
| `VectorTable` | `boot_image_ok_at()` with the addresses of the part | `boot_layout.h` |
| `BootJump` | the core registers a hand-off changes | `boot_jump.c` |
| `HandOver` | the three above together: report, check, jump, start; implements `Handshake` | `hal_entry.c` |
| `HandOverProofs` | theorems about `HandOver`: the mailbox and the refinement of `Handshake`, its types, the jump and what is started | - |
| `BootCrc` | the CRC16 and CRC32 loops bit by bit, and the polynomial remainders they should be | `boot_record.c`, `boot_flash.c` |
| `RecordCodec` | the record as 64 bytes, programmed word by word | `boot_record.c`, `boot_record_write.c`, `boot_layout.h` |
| `CrcProofs` | theorems about `BootCrc`: the loops divide polynomials, and what damage a CRC16 notices | - |
| `RecordCodecProofs` | theorems about `RecordCodec`: what is accepted and what is refused | - |
| `SectorCopy` | **abstract**: the copy `BootSwap` takes a leg to be | - |
| `BootFlash` | erases by block and copies by chunk on the flash map; implements `SectorCopy` | `boot_flash.c`, `boot_layout.h` |
| `FlashProofs` | theorems about `BootFlash`: its properties, and the refinement of `SectorCopy` | - |
| `MCContents`, `MCBootSwap`, `MCBootloader`, `MCFaultBoot`, `MCTrialBoot`, `MCHandOver`, `MCRecordCodec`, `MCBootFlash` | small instances for TLC | - |

There are two layers. Above, the protocol: `Bootloader` EXTENDS `BootSwap`, which EXTENDS `BootRecord` and
`BootLayout`; `FaultBoot` and `TrialBoot` EXTEND `Bootloader`. Its atoms are a copy, a record, a mailbox and a hand-off.
Below, each atom taken apart: `BootFlash` the copy, `RecordCodec` the record, `HandOver` (which EXTENDS
`BootMailbox` and `BootJump`, and that `VectorTable`) the mailbox and the hand-off. The mailbox is tied to both layers by one
abstract specification, `Handshake`, which `Bootloader` and `HandOver` both implement; the copy by
`SectorCopy`, whose steps are those of a leg in `BootSwap`: its destination is as it was, debris, or the
source, and it succeeds only in the last case. Names of definitions are the names of the functions and
variables they model wherever there is one.

**How a function becomes actions.** Every flash operation is two steps. `Begin...` is the
moment the target stops holding what it held; the second step is the successful end. Between
them the target holds debris: any value of `Debris` for a sector, `"torn"` for a log word,
the old record or none for the record block. `Fail` (a driver error, when `FlashFaults`) and
`Crash` (a reset) may come before, between and after. Conditions, returns and RAM updates
between two flash operations belong to the step of the flash operation before them or, for a
call, to the call itself: no reset can tell them apart. `pc` names the operation that comes next, `fn` the
public function on the stack.

**Abstractions.**

* A sector holds a value of `Data`; the only thing the bootloader looks at inside a slot is its
  vector table, hence `Bootable`. A CRC32 is an uninterpreted function of the slot; that two
  different slots may have the same CRC32 is not excluded by any proof, only by the values TLC uses.
* A log word is `blank`, `ghost` (erased but reads as the entry), `entry` or `torn`.
  The blank check tells the first two from the last two; a read confuses `ghost` and `entry`.
  A torn word that happens to read as the entry is the outcome "entry", which is reachable too.
* A record is valid (a record value) or not (`NoRecord`). `copy_done` and `image_ok` are only
  compared with 1, so they are BOOLEAN. `sequence` and `crc32_primary` are written and never
  read by the bootloader; they are left out.
* The erase retry in `boot_record_request_swap` adds no outcome to those of one try.
* In `Bootloader` a warm reset keeps the mailbox, a cold one leaves contents that fail the check words; the
  acknowledgement of an earlier boot is not looked at by the bootloader, and a reset drops it. `HandOver` shows
  that the mailbox of `boot_mailbox.h` may be seen so.
* The CRC of `boot_swap_process` is compared in `Complete`: nothing changes the primary slot
  between line 195 and the completion of the record.

The lower layer has its own:

* `BootMailbox`: a reset may come between any two stores; the two padding stores and the barriers have no state. A check word is
  modelled as the bytes it was computed over, since for two bytes (or three) the exclusive-or of `boot_mailbox.h`
  is a bijection, and none of its values is 0. `CheckWordAssumption`: a decayed or cleared word equals no check word (1 in 2^32 is taken as never), and `FieldAssumption`: a decayed byte
  is no request's (TLC evaluates both).
  What `boot_process_mailbox()` does between accepting a request and clearing it is in `Bootloader`. A reset in
  between leaves the request, which is then processed again (`RequestedOnce` is about what that may cost);
  "exactly once" holds for the clearing: a request that a boot has begun to clear never comes back.
* `BootJump`: between `__disable_irq()` and `__enable_irq()` only a reset can come in, so that is one step; the branch is the next. `HandOver` puts
  any vector table into the primary slot, and lets the application's stack overwrite whatever lies below its initial pointer.
* `RecordCodec`: a word of data flash reads as what was programmed, as ones, or, while it is being programmed, in part as each. An erased word may go on reading as
  before for any time (`Fade`). `sequence` has one byte, as `MaxSequence` is small; bit errors in words nobody writes are left out.
* `BootFlash`: the driver is taken from the device: it erases as many blocks as it is told, each the whole block the address lies in (`BlockAt`), and goes on behind it. The calls
  are those of one swap, taken up again after a reset or an error where the log and the record say. A log entry that was torn accepts the same entry
  again, as in `BootSwap`; `swap_torn_entry` is about that.

**The environment.** The application downloads into the secondary slot in whole or in part
(`Images` has an erased slot for a download that never finished), writes any request or takes it back, at
any time while it runs. `TrialStaging` and `TrialSwaps` say whether it does so during a trial too.
Resets come at any instant, including during `Init`'s first boot.

## 3. What is checked

Passing runs:

| Run | Instance | Properties | What they say |
|---|---|---|---|
| `swap_exact` | 3 sectors, errors, torn records | `TypeOK`, `ResumeInv`, `ExchangeSpec` | the engine, called by anybody who does not re-arm a moved swap, implements `SlotExchange`; the invariant behind that is inductive |
| `boot_resets` | 2 sectors, torn records, fairness | `BootTypeOK`, `HandoffSettled`, `RequestedOnce`, `TrapsOnlyWhenEmpty`, `EngineSpec`, `HandshakeSpec`, `StaysBootable`, `BootEnds`, `SwapCompletes` | the boot sequence keeps the engine's and the mailbox's rules, hands over settled boards only, never traps a board that has run; when the resets cease, the boot ends and the swap is done |
| `boot_faults` | 2 sectors, history, torn records, 2 mishaps | `AckTruthful`, `SettledUnlessFailed`, `TrialRepeatReported`, `VerifiedArrival`, `FingerprintOfStaged` | DONE and REVERTED mean the fingerprint in the record matches, and it is the one taken at arming; what is reported as a success is the image that was staged, unless the swap was armed over one that had moved (`fault_false_success` shows what is reported then); an exchange is left half done only behind an error, and a trial that goes on when it should have been reverted says so |
| `boot_trial` | 2 sectors, history | `TrialGuarded`, `TrialIsFresh`, `PreviousRestored`, `ImageTrialSpec` | a trial is confirmed or undone on the very next boot, into the image before it, and nothing else happens until then |
| `hand_over` | 2 requests, 2 reports, 42 vector tables, 4 interrupt lines | `HandOverTypeOK`, `OnlyWhatWasAsked`, `AckWhole`, `AckOfThisBoot`, `NoStrayInterrupt`, `StartsInPrimary`, `HandshakeSpec` | no torn, decayed or consumed request or report is accepted; what starts can start, with its report in place and no interrupt before its first instruction |
| `record_codec` | 3 sequence numbers, 1 cut, fading words | `TornRecordRejected`, `WholeRecordAccepted`, `Crc16IsRemainder`, `Crc32IsRemainder` | only a record that was written whole passes the check, and every such record does; the checksum loops are the checksums they are named after |
| `flash_copy` | the map of the RA6E2, 3 sectors | `BootFlashTypeOK`, `ClosedAtHandOver`, `CopySpec`, `OnlyDestination`, `ProgrammedOnErased` | every flash call of a swap is what `BootSwap` takes it to be, on its own area only, with an open driver |

Runs that refute a sentence of the sources (`findings` in `PROJECT.json` quotes each):

| Run | Refuted | By |
|---|---|---|
| `swap_torn_entry` | "The block must already be erased at that offset." (`boot_flash.h`) | a cut inside the write of a log entry; the resume programs the torn word again |
| `fault_false_success` | SWAPPED: "A swap completed and the new image is now running" (`boot_mailbox.h`), and after an error "the log still describes where it stopped" (`boot_swap.h`) | an error in a leg leaves the primary unbootable and a sector 0 with a vector table in the secondary slot; the recovery arms the swap in flight again, erases its log, takes the fingerprint of the pieces that are there, and reports their exchange as a success |
| `fault_unreported` | ERR_SWAP is reported for it (`boot_mailbox.h`) | an error in the recovery swap after sector 0 has its vector table: the error is dropped and a slot of two images is started with status OK |
| `trial_record_torn` | "Anything else ... lands on the next boot with the flag still set" (`README.md`) | a cut while the completion of a TEST swap is recorded |
| `trial_swapped_away` | "exactly one of two things happens" (`README.md`) | a TEST swap requested during a trial |

The documents also say that the previous image is "exactly where the first swap left it" during a trial (`boot_swap.h`,
line 57). Nothing protects it there: an application on trial that downloads into the secondary slot has its download installed by the
revert. `boot_trial` therefore assumes an application that does not (`TrialStaging = FALSE`).

The documents also say that the source of every leg stays intact until the leg after it has
completed (`boot_swap.h`, lines 12-13). Read literally that is too strong, since leg 1
overwrites the source of leg 0 while it runs; what the argument needs, and `ResumeInv` states,
is that the source of the *running* leg is intact and the source of every logged leg is not needed again.
They say further that the log is empty when no swap is in flight (`boot_layout.h`, line 122): it is not,
since completing a swap leaves its entries until the next one is armed, and `detail` repeats their number on every boot. Nothing else depends on
them: `LogInv` and `BlankInv` below show that a swap is armed only on a log that has been proved empty.

**Bounds.** Resets are unlimited everywhere but in `record_codec` and `boot_faults`. Three sectors (the real number) in `swap_exact` and `flash_copy` give a first, an inner and a last
sector; two sectors are the least for which a slot can be a mixture of two images, and
that is what the boot-level properties depend on. `boot_faults` bounds what goes wrong in a call of the engine, over all boots: `MaxMishaps = 2`
among driver errors, copies that report success and did not copy, and resets (resets with no call on the stack are not counted). One mishap stops an exchange and leads to the recovery
or to a repeated request that arms it again, the second hits what that does; the proofs of all five properties have no such bound. Contents: two images, an erased slot and a half-programmed sector
that already has a vector table, which is the debris most likely to deceive the image check. `boot_faults` has no download of an erased slot: its errors leave blank first sectors in both slots, which are refused as well.

`hand_over`: two requests that differ in both bytes and two reports that differ in all, so that every mixture of two is
a third; vector tables at both sides of every boundary of the check (but for the end of RAM, see section 5); two interrupt registers of two lines with a line in the last.
`Decaying` leaves out the fields whose decay the check words treat like that of a neighbour. `record_codec`: `MaxSequence = 3` lets a TEST swap be requested, completed and
confirmed; one cut (`MaxCuts`), with four ways for the interrupted word to be left and one word an interrupted erase may miss (`Stubborn`); a second cut would tear a block
that is a mixture already. The samples of the two checksums are eight bytes taken from the block, thousands of them. `flash_copy`: one unit is 4 KB of code flash
(half a small block, an eighth of a sector) and 4 bytes of data flash, so every area and block is where it is; a chunk of three units does not divide a sector, unlike the real 512
bytes, so the short last chunk happens.

Deadlock checking is off but in `boot_faults`: a trapped or running board may stay as it is, and a record that has been written as often as the bound allows is not written again.

**Fairness.** `LiveBootSpec` assumes weak fairness of `BootStep` alone: the core executes instructions
and the flash driver returns (no watchdog runs in the bootloader, and it has no other
thread to wait for). Resets are unlimited in number; the liveness properties start where they cease, which
is what "left alone" means for a board. Nothing is assumed of the application. Driver errors are
excluded in this run: a flash that fails for ever never completes a swap.

## 4. What is proved

Every theorem holds for every value of the constants that satisfies the named ASSUMEs of the modules, which TLC evaluates on
every run; what a theorem needs beyond them is in its ASSUME and in this table.

| Module | Theorem | States | Needs |
|---|---|---|---|
| `BootSwapProofs` | `TypeCorrect` | `[]TypeOK` | - |
| | `Resumable` | `[]ResumeInv` | `Faithful` |
| | `ImplementsExchange` | `ExchangeSpec` | `Faithful` |
| | `Verified` | `[]VerifiedArrival` | - |
| | `FingerprintKept` | `FingerprintOfStaged` | - |
| `BootloaderProofs` | `CallsByTheRule` | `EngineSpec` | `NoErrors` |
| | `HandsOverSettled`, `RunsOnce` | `[]HandoffSettled`, `[]RequestedOnce` | `NoErrors` |
| | `TrapsWhenEmpty`, `NeverStranded` | `[]TrapsOnlyWhenEmpty`, `StaysBootable` | `NoErrors`, `Faithful` |
| `FaultProofs` | `BootTypeCorrect` | `[]BootTypeOK` | - |
| | `ImplementsHandshake` | `HandshakeSpec` | - |
| | `BootVerifies`, `BootFingerprint` | `[]VerifiedArrival`, `FingerprintOfStaged` for the whole program | - |
| | `SettledOrFailed`, `RepeatIsReported` | `[]SettledUnlessFailed`, `[]TrialRepeatReported` | - |
| | `Truthful` | `FaultSpec => []AckTruthful` | `CrcTells` |
| `TrialProofs` | `TrialFresh` | `[]TrialIsFresh` | `NoErrors`, `Faithful` |
| | `TrialReverts` | `[]PreviousRestored` | `NoErrors`, `Faithful`, `TrialRules` |
| | `TrialGuards` | `[]TrialGuarded` | `NoErrors`, `Faithful`, `TrialRules`, `NoTears` |
| | `ImplementsTrial` | `ImageTrialSpec` | `NoErrors`, `Faithful`, `TrialRules`, `NoTears` |
| `FlashProofs` | `FlashTypes`, `DriverClosed` | `[]BootFlashTypeOK`, `[]ClosedAtHandOver` | - |
| | `DestinationOnly`, `ErasedFirst` | `OnlyDestination`, `ProgrammedOnErased` | - |
| | `ImplementsSectorCopy` | `CopySpec` | - |
| `HandOverProofs` | `HandOverTypes` | `[]HandOverTypeOK` | - |
| | `Quiet`, `StartsRight` | `[]NoStrayInterrupt`, `[]StartsInPrimary` | - |
| | `OnlyAsked`, `ReportWhole` | `[]OnlyWhatWasAsked`, `[]AckWhole` | - |
| | `ReportFound` | `[]AckOfThisBoot` | `StacksFit` |
| | `MailboxImplementsHandshake` | `HandshakeSpec` | `StacksFit` |
| `CrcProofs` | `Crc16Divides`, `Crc32Divides` | `boot_record_crc16(data) = Crc16Spec(data)` and the same of `boot_crc32`, for every sequence of bytes | - |
| | `DetectsBurst` | two messages that differ in at most two adjacent bytes have different CRC16s | - |
| `RecordCodecProofs` | `ReadsBack` | what is encoded is accepted and decodes to the same fields; another version is refused | - |
| | `DamageRefused` | an accepted block with damage to two adjacent bytes is refused | not the bytes at offsets 61 and 62 together |
| | `CodecWhole`, `AcceptsWhole` | `[](CodecTypeOK /\ WholeInv /\ ProgressInv)`, `[]WholeRecordAccepted` | - |
| | `Crc16Right`, `Crc32Right` | `[]Crc16IsRemainder`, `[]Crc32IsRemainder` | - |

`Faithful` says that a copy which reported success has copied (`Misprogrammed = {}`); without it the refinement is false,
and what is left of it is `VerifiedArrival`. `NoErrors` says that the driver reports no errors (`FlashFaults = FALSE`); with errors
`EngineSpec` is false, and `fault_false_success` and `fault_unreported` show what comes of it. `CrcTells` says that no slot without a usable
vector table has the CRC32 of one with it, and that no slot has the CRC32 0xFFFFFFFF. `StacksFit` says that images are
linked with their stack below the mailbox. `TrialRules` says that an application leaves the secondary slot and swap requests alone while it is on trial
(`TrialStaging = FALSE`, `TrialSwaps = FALSE`): `boot_swap.h` relies on the first, and `trial_swapped_away` shows what the second prevents. `NoTears` says that no reset loses the record
while it is rewritten (`RecordTears = FALSE`); `trial_record_torn` shows what happens then. Resets at any instant are allowed throughout, and torn records wherever `NoTears` is not named.

**The engine** (`BootSwapProofs`). `EngineInv` is inductive with no assumption about copies. It has the types; `ControlInv`, what each
operation may rely on (a swap is armed for a bootable secondary slot whose old swap, if any, has
not moved a sector; legs run in flight only); `StagedRecordInv`, what is about to be programmed as a
record; and `LogInv`, which says that the log of a swap in flight has no gap, that the running leg is the first that is not logged, and that a swap is armed on a log
without entries. The last holds because the erase is proved by a blank check and not by a
read: with a read, `Counts_no_blank_check` breaks it. `CopyInv` adds that a finished leg has equal source and
destination. The refinement mapping reads the two images off the log: sector *i* of the outgoing
image is in the secondary slot once leg 1 of *i* is logged, in the primary slot before; the incoming one is in
the secondary slot, then in scratch, then in the primary slot. `LegMapping` shows that a leg
writes only what the mapping does not look at, `LogMapping` that logging a leg moves no
image, `UntouchedMapping` and `ExchangedMapping` what the mapping is at both ends, and
`ArmMapping` and `CompleteMapping` that the record alone decides when an exchange is promised and when it happens.

**The fingerprint** (`BootSwapProofs`). `EngineInv` and two facts: `ArmedCrcInv`, from the computation of the CRC32 until the record of an arming is programmed, it is
that of the secondary slot; and `VerifyInv`, while legs run, and in the record that completes the swap, the fingerprint is the one in the record. Both hold whatever the copies did.

**The boot sequence** (`BootloaderProofs`). `BootInv` puts the engine's invariant beside `CallInv` (which call of the engine may be on the stack in which
phase), `SettledInv` (a call that has returned has settled its swap), `RequestInv` (a request still in the mailbox means its swap has not begun) and `HandoffInv`. The lemma
`BootMapping` is what makes the engine's theorems those of the program: `hal_entry()` calls by the rule, and downloads come only when nothing is in flight. `RequestInv` carries that: after
a reset the request is processed before anything moves a sector, so arming again is harmless. `TrapsWhenEmpty` is the one that uses a refinement as a premise: `PromiseInv` says that the
incoming image of `SlotExchange` was bootable when it was promised and nobody touches it, so a completed recovery leaves a bootable primary slot. `NeverStranded` uses the other one: the outgoing image of `SlotExchange` is bootable once an image has run (`Fallback`), since an
abstract step either leaves it alone or puts the incoming one in its place.

**With errors** (`FaultProofs`). The recovery may then arm a swap that has moved sectors, so nothing of the exchange, not even the shape of the log, can be relied on. What is left is proved in three layers. `HalInv`
needs no assumption at all: the types; `LooseInv`, the engine called by anybody at any time (the operation that comes next, the record about to be programmed, the fingerprint in record and on the stack being that of something
bootable, and the log that is empty when a swap is armed); `CallInv`, which calls are made in which phase; and `PendingInv`, a request is gone when the boot hands over. From it follow the types, `Handshake`, and the two
properties of the fingerprint for the whole program, where `BootSwapProofs` has them only for a caller that keeps the engine's rule. `CourseInv` follows the calls to the hand-off, still with no assumption: `ReturnedInv`, what the record says
when a call has come back with each result, and from it `EndedInv` and `RepeatInv`. A trial that is still pending where it should be gone can only be the work of a failed revert, or of a recovery that failed before its
arming; in the second case the primary slot is still the one that was found unusable, so nothing is started. `FaultInv` adds
what the report depends on: `ArrivalInv`, a swap that is done has put an image with that
fingerprint into the primary slot that looks bootable; `StatusInv`, what the status says until the hand-off. The delicate case is a swap that was reported as done and is followed by a recovery that fails half-way, with
SWAPPED still in `g_boot_status`: it does not happen only because an image with the fingerprint of a bootable one is bootable, which is where `CrcTells` comes in. `AckMatches`, its last
conjunct, compares what was reported with the fingerprint in the record only, and that is not enough: a recovery that arms a swap in flight again takes a new one, of pieces. `SameInv` says whose fingerprint it
is: that of the image in `staged`, in the record and in the record about to be programmed, unless the last arming was over a swap that had moved. Only `Arm` stores a new fingerprint (`ArmedSame`); completing, settling, tearing and resuming keep the one there is or
leave none (`UnarmedSame`).

**Trials** (`TrialProofs`). `FlowInv` is what holds of every boot, on trial or not: the boot sequence's invariant and that of the fingerprint together with `FlagInv`, the type of a swap is the same in RAM, in
the record and in the record about to be programmed; `PrintInv`, the fingerprint of a swap in flight is that of the incoming image of `SlotExchange`; and `FreshInv`, a pending flag at the return of
`boot_swap_process()` was set in this boot. Since the fingerprint is the promised image's and copies have copied, the verification at the end cannot refuse a trial or a revert. `PreviousInv` then follows the image a revert
is to put back: it is the outgoing image until the exchange is complete, the one in the secondary slot during the trial, and the incoming one of the revert. It needs `TrialRules`, as does its conjunct that
no swap request is in the mailbox during a trial. `GuardInv` says that the images not accepted are never the resident one outside a trial, nor the stored one inside. The refinement mapping of
`ImplementsTrial` is that of `SlotExchange` read once more: the resident image is the outgoing one of a swap in flight, else the primary slot; arming, completing and settling are the steps of `ImageTrial`, and
all copying, logging and every reset is a stutter.

**The copy** (`FlashProofs`). `LayoutAssumption` is what the flash map of `boot_layout.h` and the comments on it say, without the numbers: the scratch area and the slots are apart and below the data flash, every sector is made of
whole blocks of one region, and the log has room for all legs. The runs evaluate it for the RA6E2. `FlashInv` has the types; `KindInv`, the function that runs is one the call calls for; `DriverInv`, `g_flash_open` agrees with the driver; `LoopInv`, nothing is left in
a loop variable of a loop that does not run; `EraseInv`, the blocks erased so far are exactly those from the destination to the next one, and the ones to go end where the destination ends; `RecordInv`, the record
block is blank from its erase to its program; and `CopyInv`, the part of the destination that has been programmed equals the source and the rest is blank. The induction over blocks and chunks is in
the invariant, so no recursion is needed. That the source is still what was read follows from its being apart from the destination (`TargetInJob`). `ResumedCall` is why a boot that takes the
swap up again never programs first: it comes back to the erase before the write, or to the leg before the log entry. The
refinement maps a destination with any erased or torn unit to `Debris`, so every block erased and every unit programmed but the last is a stutter or debris, and the last makes the copy.

**The mailbox** (`HandOverProofs`). `MailInv` has the types; `StackInv`, what can be left to store in each place (so that a reset between any two stores is one of finitely many cases);
`SealInv` and `AckSealInv`, a magic is there only over a check word of one thing that was asked or reported, or with that check word about to be cleared. `DeliveryInv` follows a
report field by field to the start of the application, and `ConsumedInv` keeps a consumed request from coming back, which is what the refinement of `Handshake` needs.

**The hand-off** (`HandOverProofs`). `JumpInv` follows the interrupt registers, for any number of lines that fits the registers the code clears (`LinesAssumption`); `AcceptedStarts`
turns the comparisons of `boot_image_ok_at()`, made on 32-bit words as pairs of halves, into the range of addresses. `HandOverTypes` takes `MailInv` beside it, since what is left to store is part of
the types.

**The checksums** (`CrcProofs`). A word is the set of its one bits, so exclusive-or is symmetric difference and the numbers are polynomials over two elements. `Induction` gets
induction over the naturals out of `WFMin`, since a least counterexample needs no operator as a parameter; `Iterate` carries it over to recursive functions on an interval, where it serves
the bit loop, the byte loop and the division in `BootCrc` alike. `BitStep` is one turn of the bit loop: it subtracts the generator where the leading bit is one. `LoopDivides` puts the turns together: after *i* bytes the register is what is left of the first *i* bytes, moved up by its
width, divided by the generator. `Crc32Divides` takes the loop of `boot_crc32()`, which shifts the other way, through the mirror image of every word, under which it is a loop that `LoopDivides` is about. `DetectsBurst` runs the
loop backwards: the generator has the constant term 1, so a step can be undone, and equal results mean equal registers before the tail and a difference of sixteen bits that divides to nothing, which is no difference.

**The record** (`RecordCodecProofs`). `ReadsBack` is for any fields of one byte and any fingerprints. `DamageRefused` is for any block that is accepted, written by this code or not. The two bytes it leaves out are the last byte that is covered and
the low byte of the CRC16, which `boot_record_t` stores first: a difference of the first can be made up for by the second (0x89 in the last covered byte changes nothing but the low byte of the CRC16). `CodecWhole` is the induction over the writer's words (`ProgressInv`:
they are programmed in order, none is left out) and holds through any number of cuts, where the run has one.

Only model-checked:

* `BootEnds` and `SwapCompletes`: liveness under fairness is out of the prover's reach.
* `TornRecordRejected`: it is not true of every record. A CRC16 has collisions, so for some fingerprints a mixture of an old record and a new one is accepted;
  none of the mixtures in `record_codec` is. `DamageRefused` is what holds of all of them.

## 5. What is not modelled, and the plan

Not modelled at all: the start-up hook `hal_warmstart.c` (all its branches are compiled out on this part), the PowerShell
scripts and the host check (tools on a PC), linker and build files (but for the mailbox window), SysTick in `boot_jump.c` (nothing starts it). A hung trial image needs a watchdog in the application (README, "The
watchdog is the application's job"); it is a behaviour of the application and not of this code.

Known limits of what is modelled:

* A stack pointer at the very end of RAM passes `boot_image_ok_at()` and lies above the mailbox. `hand_over` has no such image, as `script/fsp.ld` links none;
  with one, `AckOfThisBoot` fails.
* A staged image whose CRC32 is 0xFFFFFFFF counts as one that was not measured, and its swap is not verified.
* The read-back of `boot_record_commit` asks for a valid record and not for the one it wrote. An erase and a program of data flash
  that do nothing and report success are not modelled.
* `boot_record_read` makes no blank check. In `RecordCodec` an erased record may fade at any time; in `BootSwap` it is decided at the cut.
* The pending bits of SysTick and PendSV, and lines beyond the registers the code clears, are not modelled: the part has 96 lines.

Left to do, most important first:

1. `TrialGuarded` from `ImplementsTrial` instead of beside it, as `TrapsWhenEmpty` is from `ImplementsExchange`.
2. `RecordCodec`: a step-by-step refinement of the record commit in `BootSwap`, for every CRC16 without collisions among the mixtures of one cut.
3. A swap that is armed over one that has moved, where `AckTruthful` says nothing of the image: which sectors of which images are lost, and that no later boot reports more than the exchange of what was there.

## 6. Running it

    tlc -config swap_exact.cfg MCBootSwap.tla
    tlapm BootSwapProofs.tla      # and BootloaderProofs, FaultProofs, TrialProofs, HandOverProofs,
                                  # FlashProofs, CrcProofs, RecordCodecProofs

`PROJECT.json` lists the module of every run, and for every property a change of the code
(the operators marked "Mutant" in the modules) that makes TLC find it violated.
