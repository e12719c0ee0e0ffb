------------------------------- MODULE BootFlash -------------------------------
(***************************************************************************)
(* The flash helpers of boot_flash.c over the flash map of boot_layout.h,  *)
(* block by block and write unit by write unit, in the calls one swap      *)
(* makes of them.  BootSwap takes each of these calls as two steps; here   *)
(* is why it may.                                                          *)
(*                                                                         *)
(* Addresses count write units.  Flash is erased in blocks, of one size    *)
(* below CF_REGION0_SIZE, of another above, of a third in the data flash.  *)
(* A unit holds what was at some address at first (that address), nothing  *)
(* (Blank), debris (Torn), or bytes of a buffer in RAM (FromRam).          *)
(***************************************************************************)
EXTENDS Integers, Sequences

CONSTANTS
  CF_REGION0_SIZE, CF_REGION0_BLOCK_SIZE, CF_REGION1_BLOCK_SIZE,
  DATA_FLASH_START, DF_BLOCK_SIZE,
  BOOT_SCRATCH_BASE, BOOT_PRIMARY_BASE, BOOT_SECONDARY_BASE,
  BOOT_SLOT_SECTOR_SIZE, BOOT_SLOT_SECTOR_COUNT,
  BOOT_FLASH_CHUNK

Blank == -1
Torn == -2
FromRam == -3

BOOT_RECORD_ADDRESS == DATA_FLASH_START
BOOT_SWAP_LOG_ADDRESS == BOOT_RECORD_ADDRESS + DF_BLOCK_SIZE
FLASH_END == BOOT_SWAP_LOG_ADDRESS + DF_BLOCK_SIZE

Units == 0 .. FLASH_END - 1
Contents == {Blank, Torn, FromRam} \cup Units
Extent(base, size) == base .. base + size - 1
Log == Extent(BOOT_SWAP_LOG_ADDRESS, DF_BLOCK_SIZE)

boot_primary_sector(sector) == BOOT_PRIMARY_BASE + sector * BOOT_SLOT_SECTOR_SIZE
boot_secondary_sector(sector) == BOOT_SECONDARY_BASE + sector * BOOT_SLOT_SECTOR_SIZE

BOOT_PRIMARY_SIZE == BOOT_SLOT_SECTOR_COUNT * BOOT_SLOT_SECTOR_SIZE
BOOT_SECONDARY_SIZE == BOOT_SLOT_SECTOR_COUNT * BOOT_SLOT_SECTOR_SIZE

SlotSectors == 0 .. BOOT_SLOT_SECTOR_COUNT - 1
Areas == {BOOT_SCRATCH_BASE} \cup {boot_primary_sector(s) : s \in SlotSectors}
                             \cup {boot_secondary_sector(s) : s \in SlotSectors}

\* External: the device, which erases the whole block an address lies in.
Region(u) ==
  IF u >= DATA_FLASH_START THEN [base |-> DATA_FLASH_START, block |-> DF_BLOCK_SIZE]
  ELSE IF u < CF_REGION0_SIZE THEN [base |-> 0, block |-> CF_REGION0_BLOCK_SIZE]
  ELSE [base |-> CF_REGION0_SIZE, block |-> CF_REGION1_BLOCK_SIZE]

BlockStart(u) == u - ((u - Region(u).base) % Region(u).block)

BlockAt(u) == Extent(BlockStart(u), Region(u).block)

Apart(a, n, b, m) == a + n <= b \/ b + m <= a

\* Scratch area and slots are apart from each other and below the data flash; every sector is made
\* of whole blocks of one region; the log has room for every leg.
ASSUME LayoutAssumption ==
  /\ {CF_REGION0_BLOCK_SIZE, CF_REGION1_BLOCK_SIZE, DF_BLOCK_SIZE, BOOT_SLOT_SECTOR_SIZE,
      BOOT_SLOT_SECTOR_COUNT, BOOT_FLASH_CHUNK} \subseteq Nat \ {0}
  /\ {CF_REGION0_SIZE, DATA_FLASH_START, BOOT_SCRATCH_BASE, BOOT_PRIMARY_BASE,
      BOOT_SECONDARY_BASE} \subseteq Nat
  /\ 3 * BOOT_SLOT_SECTOR_COUNT <= DF_BLOCK_SIZE
  /\ Apart(BOOT_SCRATCH_BASE, BOOT_SLOT_SECTOR_SIZE, BOOT_PRIMARY_BASE, BOOT_PRIMARY_SIZE)
  /\ Apart(BOOT_SCRATCH_BASE, BOOT_SLOT_SECTOR_SIZE, BOOT_SECONDARY_BASE, BOOT_SECONDARY_SIZE)
  /\ Apart(BOOT_PRIMARY_BASE, BOOT_PRIMARY_SIZE, BOOT_SECONDARY_BASE, BOOT_SECONDARY_SIZE)
  /\ \A a \in Areas :
        /\ a + BOOT_SLOT_SECTOR_SIZE <= DATA_FLASH_START
        /\ \A u \in Extent(a, BOOT_SLOT_SECTOR_SIZE) : Region(u) = Region(a)
        /\ BlockStart(a) = a /\ BOOT_SLOT_SECTOR_SIZE % Region(a).block = 0

-------------------------------------------------------------------------------
(* The calls of one swap, in their order: arming (boot_record_write.c),    *)
(* each leg and its log entry (boot_swap.c), completion.                   *)

Legs == 0 .. 3 * BOOT_SLOT_SECTOR_COUNT - 1

EraseOf(address) == [kind |-> "erase", dest |-> address, src |-> address, bytes |-> DF_BLOCK_SIZE]
WriteOf(address, bytes) == [kind |-> "write", dest |-> address, src |-> address, bytes |-> bytes]
CopyOf(dest, src) == [kind |-> "copy", dest |-> dest, src |-> src, bytes |-> BOOT_SLOT_SECTOR_SIZE]

boot_record_commit ==
  <<EraseOf(BOOT_RECORD_ADDRESS), WriteOf(BOOT_RECORD_ADDRESS, DF_BLOCK_SIZE)>>

boot_swap_leg(leg) ==
  LET sector == leg \div 3
  IN  CASE leg % 3 = 0 -> CopyOf(BOOT_SCRATCH_BASE, boot_secondary_sector(sector))
        [] leg % 3 = 1 -> CopyOf(boot_secondary_sector(sector), boot_primary_sector(sector))
        [] leg % 3 = 2 -> CopyOf(boot_primary_sector(sector), BOOT_SCRATCH_BASE)

BOOT_SWAP_LOG_ENTRY(leg) == WriteOf(BOOT_SWAP_LOG_ADDRESS + leg, 1)

Exchange == [i \in 1 .. 6 * BOOT_SLOT_SECTOR_COUNT |->
               LET leg == (i - 1) \div 2
               IN  IF i % 2 = 1 THEN boot_swap_leg(leg) ELSE BOOT_SWAP_LOG_ENTRY(leg)]

Calls == <<EraseOf(BOOT_SWAP_LOG_ADDRESS)>> \o boot_record_commit \o Exchange \o boot_record_commit

\* Where a boot after a reset or an error takes the swap up again: the erase before the write,
\* the leg before the log entry, all of the arming.
Resumed(n) ==
  IF n <= 3 THEN 1 ELSE IF n <= Len(Calls) /\ Calls[n].kind = "write" THEN n - 1 ELSE n

-------------------------------------------------------------------------------

VARIABLES
  cells,          \* code and data flash
  driver_open,    \* external: the flash driver accepts calls
  g_flash_open,
  pc,             \* "idle", "erase", "erasing", "copy", "write", "returned", "stopped", "closed"
  call,           \* the call that is made, or comes next
  block, blocks,  \* the block the driver erases next, and how many it has yet to erase
  offset,
  buffer,         \* g_chunk, or the record, or the log entry: what the driver has to program
  written         \* of buffer

flash_vars == <<cells, driver_open, g_flash_open, pc, call, block, blocks, offset, buffer,
                written>>

Job == Calls[call]

\* Mutant: the first address of region 1 is taken for one of region 0.
boot_flash_block_size_boundary(address) ==
  IF address >= DATA_FLASH_START THEN DF_BLOCK_SIZE
  ELSE IF address <= CF_REGION0_SIZE THEN CF_REGION0_BLOCK_SIZE
  ELSE CF_REGION1_BLOCK_SIZE

\* Mutant: all of code flash is taken for region 1.
boot_flash_block_size_one_region(address) ==
  IF address >= DATA_FLASH_START THEN DF_BLOCK_SIZE ELSE CF_REGION1_BLOCK_SIZE

boot_flash_block_size(address) ==
  IF address >= DATA_FLASH_START THEN DF_BLOCK_SIZE
  ELSE IF address < CF_REGION0_SIZE THEN CF_REGION0_BLOCK_SIZE
  ELSE CF_REGION1_BLOCK_SIZE

\* Mutant: that the driver is open is not remembered.
boot_flash_open_not_noted == driver_open' = TRUE /\ UNCHANGED g_flash_open

\* An open driver answers ALREADY_OPEN, which is as good.
boot_flash_open == g_flash_open' = TRUE /\ driver_open' = TRUE

Locals == block' = 0 /\ blocks' = 0 /\ offset' = 0 /\ buffer' = << >> /\ written' = 0

Reached == IF pc = "returned" THEN call + 1 ELSE call

Stop == pc' = "stopped" /\ call' = Resumed(Reached) /\ Locals

\* The engine makes its next call.
Call ==
  /\ pc = "idle" /\ call <= Len(Calls)
  /\ pc' = IF Job.kind = "write" THEN "write" ELSE "erase"
  /\ buffer' = IF Job.kind = "write" THEN [i \in 1 .. Job.bytes |-> FromRam] ELSE << >>
  /\ IF Job.kind = "write" THEN boot_flash_open ELSE UNCHANGED <<driver_open, g_flash_open>>
  /\ UNCHANGED <<cells, call, block, blocks, offset, written>>

boot_flash_erase ==
  /\ pc = "erase"
  /\ boot_flash_open
  /\ LET size == boot_flash_block_size(Job.dest)
     IN  IF Job.bytes % size = 0
           THEN /\ block' = Job.dest /\ blocks' = Job.bytes \div size
                /\ pc' = "erasing"
                /\ UNCHANGED <<call, offset, buffer, written>>
           ELSE Stop
  /\ UNCHANGED cells

\* External: the driver.
EraseBlock ==
  /\ pc = "erasing" /\ driver_open /\ blocks > 0
  /\ cells' = [u \in Units |-> IF u \in BlockAt(block) THEN Blank ELSE cells[u]]
  /\ block' = BlockStart(block) + Region(block).block /\ blocks' = blocks - 1
  /\ UNCHANGED <<driver_open, g_flash_open, pc, call, offset, buffer, written>>

EraseDone ==
  /\ pc = "erasing" /\ blocks = 0
  /\ pc' = IF Job.kind = "copy" THEN "copy" ELSE "returned"
  /\ UNCHANGED <<cells, driver_open, g_flash_open, call, block, blocks, offset, buffer, written>>

\* Mutant: a chunk is all that is left.
ChunkLength_unclipped(left) == left

ChunkLength(left) == IF left > BOOT_FLASH_CHUNK THEN BOOT_FLASH_CHUNK ELSE left

\* Mutant: the loop ends with the last whole chunk.
MoreToCopy_whole_chunks == offset + BOOT_FLASH_CHUNK <= Job.bytes

MoreToCopy == offset < Job.bytes

\* boot_flash_copy() reads a chunk into g_chunk, and calls boot_flash_write().
CopyChunk ==
  /\ pc = "copy" /\ MoreToCopy
  /\ buffer' = [i \in 1 .. ChunkLength(Job.bytes - offset) |-> cells[Job.src + offset + i - 1]]
  /\ boot_flash_open
  /\ written' = 0
  /\ pc' = "write"
  /\ UNCHANGED <<cells, call, block, blocks, offset>>

CopyDone ==
  /\ pc = "copy" /\ ~ MoreToCopy
  /\ pc' = "returned" /\ buffer' = << >> /\ offset' = 0
  /\ UNCHANGED <<cells, driver_open, g_flash_open, call, block, blocks, written>>

Target == Job.dest + offset + written

\* External: the driver.  A unit that was not blank holds neither the old nor the new; a torn log
\* entry is taken to accept the same entry again, as in BootSwap.
ProgramUnit ==
  /\ pc = "write" /\ driver_open /\ written < Len(buffer)
  /\ cells' = [cells EXCEPT ![Target] = IF @ = Blank \/ Target \in Log THEN buffer[written + 1] ELSE Torn]
  /\ written' = written + 1
  /\ UNCHANGED <<driver_open, g_flash_open, pc, call, block, blocks, offset, buffer>>

WriteDone ==
  /\ pc = "write" /\ written = Len(buffer)
  /\ IF Job.kind = "copy" THEN pc' = "copy" /\ offset' = offset + BOOT_FLASH_CHUNK
                          ELSE pc' = "returned" /\ UNCHANGED offset
  /\ buffer' = << >> /\ written' = 0
  /\ UNCHANGED <<cells, driver_open, g_flash_open, call, block, blocks>>

Proceed ==
  /\ pc = "returned"
  /\ pc' = "idle" /\ call' = call + 1
  /\ UNCHANGED <<cells, driver_open, g_flash_open, block, blocks, offset, buffer, written>>

\* The boot goes on without the swap, or is through with it.
boot_flash_close ==
  /\ pc = "stopped" \/ (pc = "idle" /\ call > Len(Calls))
  /\ IF g_flash_open THEN driver_open' = FALSE /\ g_flash_open' = FALSE
                     ELSE UNCHANGED <<driver_open, g_flash_open>>
  /\ pc' = "closed"
  /\ UNCHANGED <<cells, call, block, blocks, offset, buffer, written>>

\* What an interrupted driver leaves where it was at work.
Tear ==
  \/ UNCHANGED cells
  \/ /\ pc = "erasing" /\ blocks > 0
     /\ cells' = [u \in Units |-> IF u \in BlockAt(block) THEN Torn ELSE cells[u]]
  \/ /\ pc = "write" /\ written < Len(buffer)
     /\ cells' = [cells EXCEPT ![Target] = Torn]

\* The driver does not open.
OpenFails ==
  /\ pc = "erase" /\ ~ g_flash_open
  /\ Stop
  /\ UNCHANGED <<cells, driver_open, g_flash_open>>

\* The driver reports an error in the middle of its work.
DriverError ==
  /\ pc \in {"erasing", "write"}
  /\ Tear
  /\ Stop
  /\ UNCHANGED <<driver_open, g_flash_open>>

\* A boot after which the swap goes on.
Reset ==
  /\ Tear
  /\ pc' = "idle" /\ call' = Resumed(Reached) /\ Locals
  /\ driver_open' = FALSE /\ g_flash_open' = FALSE

Init ==
  /\ cells = [u \in Units |-> IF u \in Log THEN Torn ELSE u]
  /\ driver_open = FALSE /\ g_flash_open = FALSE
  /\ pc = "idle" /\ call = 1
  /\ block = 0 /\ blocks = 0 /\ offset = 0 /\ buffer = << >> /\ written = 0

Next ==
  \/ Call \/ boot_flash_erase \/ EraseBlock \/ EraseDone \/ CopyChunk \/ CopyDone
  \/ ProgramUnit \/ WriteDone \/ Proceed \/ boot_flash_close
  \/ OpenFails \/ DriverError \/ Reset

Spec == Init /\ [][Next]_flash_vars

(* Nothing is programmed or copied outside the map; a chunk fits into      *)
(* g_chunk, the 512 byte array of boot_flash.c.                            *)
BootFlashTypeOK ==
  /\ cells \in [Units -> Contents]
  /\ driver_open \in BOOLEAN /\ g_flash_open \in BOOLEAN
  /\ pc \in {"idle", "erase", "erasing", "copy", "write", "returned", "stopped", "closed"}
  /\ call \in 1 .. Len(Calls) + 1
  /\ block \in 0 .. FLASH_END /\ blocks \in Nat
  /\ offset \in Nat
  /\ buffer \in Seq(Contents)
  /\ pc = "write" /\ Job.kind = "copy" => Len(buffer) <= BOOT_FLASH_CHUNK
  /\ written \in 0 .. Len(buffer)

-------------------------------------------------------------------------------

Debris == [i \in 0 .. BOOT_SLOT_SECTOR_SIZE - 1 |-> Torn]

\* A sector of which any unit is erased or torn is debris.
Holds(area) ==
  IF \E u \in Extent(area, BOOT_SLOT_SECTOR_SIZE) : cells[u] < 0 THEN Debris
  ELSE [i \in 0 .. BOOT_SLOT_SECTOR_SIZE - 1 |-> cells[area + i]]

(* A leg of the swap implements the copy BootSwap takes it to be, through  *)
(* blocks, chunks, errors and resets: no mixture of old and new is ever    *)
(* left that is not debris, and no part is missing when it succeeds        *)
(* (boot_flash_copy).                                                      *)
Copying == INSTANCE SectorCopy
  WITH holds  <- [a \in Areas |-> Holds(a)],
       job    <- IF pc \in {"idle", "stopped", "closed"} \/ Job.kind # "copy" THEN << >>
                 ELSE <<Job.dest, Job.src>>,
       copied <- pc = "returned" /\ Job.kind = "copy"

CopySpec == Copying!Spec

(* Not one unit outside the destination of the call is erased or           *)
(* programmed: not the bootloader, not the record while the log is         *)
(* written, not the neighbouring sector whose blocks are of another size   *)
(* (boot_flash.h: "code flash having two erase regions with different      *)
(* block sizes").                                                          *)
OnlyDestination ==
  [][\A u \in Units : cells'[u] # cells[u] =>
        call <= Len(Calls) /\ u \in Extent(Job.dest, Job.bytes)]_flash_vars

(* A unit is blank when the driver is told to program it, whatever calls   *)
(* that were cut off, in the middle of a block or of a chunk, have left    *)
(* where it lies.  The log is the exception swap_torn_entry shows          *)
(* (boot_flash.h: "The block must already be erased").                     *)
ProgrammedOnErased ==
  [][written' = written + 1 => cells[Target] = Blank \/ Target \in Log]_flash_vars

(* The driver is open whenever it is given work, and closed when the boot  *)
(* hands over, with every path between in which an open or a call fails    *)
(* (boot_flash.h: "nested operations ... cannot close the driver           *)
(* underneath each other").                                                *)
ClosedAtHandOver ==
  /\ pc \in {"erasing", "write"} => driver_open
  /\ pc = "closed" => ~ driver_open

===============================================================================
