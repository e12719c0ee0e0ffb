------------------------------ MODULE FlashProofs ------------------------------
(***************************************************************************)
(* What TLAPS proves of BootFlash, for every flash map LayoutAssumption    *)
(* allows: any number of sectors, any block sizes that divide a sector,    *)
(* any chunk.                                                              *)
(***************************************************************************)
EXTENDS BootFlash, SequenceTheorems, TLAPS

(* The call being made *)
Working == {"erase", "erasing", "copy", "write", "returned"}

\* What there is to do belongs to the call that is made.
KindInv ==
  /\ pc \in Working => call <= Len(Calls)
  /\ pc \in {"erase", "erasing"} => Job.kind # "write"
  /\ pc = "copy" => Job.kind = "copy"
  /\ pc = "write" => Job.kind # "erase"

DriverInv ==
  /\ driver_open = g_flash_open
  /\ pc \in {"erasing", "write"} => driver_open
  /\ pc = "closed" => ~ driver_open

\* A loop that is not running has nothing left of an earlier one.
LoopInv ==
  /\ pc # "erasing" => blocks = 0
  /\ pc \notin {"copy", "write"} => offset = 0
  /\ pc # "write" => buffer = << >> /\ written = 0

Blanked(base, size) == \A u \in Extent(base, size) : cells[u] = Blank

\* The driver has erased the blocks from the destination up to the next one, and no other.
EraseInv ==
  LET region == Region(Job.dest)
  IN  pc = "erasing" =>
        /\ block >= Job.dest /\ block + blocks * region.block = Job.dest + Job.bytes
        /\ (block - region.base) % region.block = 0
        /\ Blanked(Job.dest, block - Job.dest)

\* The record block is blank from the end of its erase until the driver has programmed it.
RecordInv ==
  /\ pc = "returned" /\ Job.kind = "erase" => Blanked(Job.dest, Job.bytes)
  /\ pc = "idle" /\ call <= Len(Calls) /\ Job = WriteOf(BOOT_RECORD_ADDRESS, DF_BLOCK_SIZE)
        => Blanked(Job.dest, Job.bytes)
  /\ pc = "write" /\ Job.kind = "write" =>
        /\ offset = 0 /\ buffer = [i \in 1 .. Job.bytes |-> FromRam]
        /\ Job.dest = BOOT_RECORD_ADDRESS => Blanked(Job.dest + written, Job.bytes - written)

\* The first n units of the destination hold those of the source, and the rest is blank.
Copied(n) ==
  \A i \in 0 .. BOOT_SLOT_SECTOR_SIZE - 1 :
     cells[Job.dest + i] = IF i < n THEN cells[Job.src + i] ELSE Blank

CopyInv ==
  /\ pc = "copy" => Copied(offset)
  /\ pc = "write" /\ Job.kind = "copy" =>
        /\ offset < Job.bytes
        /\ Len(buffer) = ChunkLength(Job.bytes - offset)
        /\ \A i \in 1 .. Len(buffer) : buffer[i] = cells[Job.src + offset + i - 1]
        /\ Copied(offset + written)
  /\ pc = "returned" /\ Job.kind = "copy" => Copied(BOOT_SLOT_SECTOR_SIZE)

FlashInv ==
  /\ BootFlashTypeOK /\ KindInv /\ DriverInv /\ LoopInv
  /\ EraseInv /\ RecordInv /\ CopyInv

-------------------------------------------------------------------------------
(* The flash map. *)

LEMMA SizesNat ==
  /\ {CF_REGION0_BLOCK_SIZE, CF_REGION1_BLOCK_SIZE, DF_BLOCK_SIZE, BOOT_SLOT_SECTOR_SIZE,
      BOOT_SLOT_SECTOR_COUNT, BOOT_FLASH_CHUNK} \subseteq Nat \ {0}
  /\ {CF_REGION0_SIZE, DATA_FLASH_START, BOOT_SCRATCH_BASE, BOOT_PRIMARY_BASE,
      BOOT_SECONDARY_BASE} \subseteq Nat
  BY LayoutAssumption

\* Multiples of a size are a size apart.
LEMMA MultiplesApart ==
  ASSUME NEW size \in Nat, NEW i \in Nat, NEW j \in Nat, i < j
  PROVE  i * size \in Nat /\ i * size + size <= j * size
<1>1. PICK d \in Nat : j = i + 1 + d
  <2>1. j - i - 1 \in Nat /\ j = i + 1 + (j - i - 1)
    OBVIOUS
  <2> QED BY <2>1
<1>2. d * size \in Nat /\ i * size \in Nat
  BY SMT
<1>3. j * size = i * size + size + d * size
  BY <1>1, SMT
<1> QED BY <1>2, <1>3

\* A sector lies within its slot.
LEMMA SectorInSlot ==
  ASSUME NEW s \in SlotSectors
  PROVE  /\ s \in Nat /\ s * BOOT_SLOT_SECTOR_SIZE \in Nat
         /\ s * BOOT_SLOT_SECTOR_SIZE + BOOT_SLOT_SECTOR_SIZE <= BOOT_PRIMARY_SIZE
         /\ BOOT_PRIMARY_SIZE = BOOT_SECONDARY_SIZE /\ BOOT_PRIMARY_SIZE \in Nat
<1>1. s \in Nat /\ s < BOOT_SLOT_SECTOR_COUNT /\ BOOT_SLOT_SECTOR_COUNT \in Nat /\ BOOT_SLOT_SECTOR_SIZE \in Nat
  BY SizesNat DEF SlotSectors
<1>2. BOOT_SLOT_SECTOR_COUNT * BOOT_SLOT_SECTOR_SIZE \in Nat
  BY <1>1, SMT
<1> QED BY <1>1, <1>2, MultiplesApart DEF BOOT_PRIMARY_SIZE, BOOT_SECONDARY_SIZE

\* The sectors of one slot are apart.
LEMMA SectorsApart ==
  ASSUME NEW base \in Nat, NEW s \in SlotSectors, NEW t \in SlotSectors, s # t
  PROVE  Apart(base + s * BOOT_SLOT_SECTOR_SIZE, BOOT_SLOT_SECTOR_SIZE,
               base + t * BOOT_SLOT_SECTOR_SIZE, BOOT_SLOT_SECTOR_SIZE)
<1>1. s \in Nat /\ t \in Nat /\ BOOT_SLOT_SECTOR_SIZE \in Nat
  BY SizesNat DEF SlotSectors
<1>2. CASE s < t
  BY <1>1, <1>2, MultiplesApart, SectorInSlot DEF Apart
<1>3. CASE t < s
  BY <1>1, <1>3, MultiplesApart, SectorInSlot DEF Apart
<1> QED BY <1>1, <1>2, <1>3

\* The areas are apart.
LEMMA AreasApart ==
  ASSUME NEW a \in Areas, NEW b \in Areas, a # b
  PROVE  Apart(a, BOOT_SLOT_SECTOR_SIZE, b, BOOT_SLOT_SECTOR_SIZE)
<1> DEFINE S == BOOT_SLOT_SECTOR_SIZE
<1>1. S \in Nat /\ {BOOT_SCRATCH_BASE, BOOT_PRIMARY_BASE, BOOT_SECONDARY_BASE} \subseteq Nat
  BY SizesNat
<1>2. /\ Apart(BOOT_SCRATCH_BASE, S, BOOT_PRIMARY_BASE, BOOT_PRIMARY_SIZE)
      /\ Apart(BOOT_SCRATCH_BASE, S, BOOT_SECONDARY_BASE, BOOT_SECONDARY_SIZE)
      /\ Apart(BOOT_PRIMARY_BASE, BOOT_PRIMARY_SIZE, BOOT_SECONDARY_BASE, BOOT_SECONDARY_SIZE)
  BY LayoutAssumption
<1> DEFINE In(x, base) == x \in Nat /\ x >= base /\ x + S <= base + BOOT_PRIMARY_SIZE
<1>3. ASSUME NEW s \in SlotSectors
      PROVE  In(boot_primary_sector(s), BOOT_PRIMARY_BASE) /\ In(boot_secondary_sector(s), BOOT_SECONDARY_BASE)
  BY <1>1, SectorInSlot DEF boot_primary_sector, boot_secondary_sector
<1>4. BOOT_PRIMARY_SIZE = BOOT_SECONDARY_SIZE /\ BOOT_PRIMARY_SIZE \in Nat
  <2>1. BOOT_SLOT_SECTOR_COUNT * BOOT_SLOT_SECTOR_SIZE \in Nat
    BY SizesNat, SMT
  <2> QED BY <2>1 DEF BOOT_PRIMARY_SIZE, BOOT_SECONDARY_SIZE
<1> DEFINE P(x) == \E s \in SlotSectors : x = boot_primary_sector(s)
           Q(x) == \E s \in SlotSectors : x = boot_secondary_sector(s)
<1>5. (a = BOOT_SCRATCH_BASE \/ P(a) \/ Q(a)) /\ (b = BOOT_SCRATCH_BASE \/ P(b) \/ Q(b))
  BY DEF Areas
<1>6. (P(a) => In(a, BOOT_PRIMARY_BASE)) /\ (P(b) => In(b, BOOT_PRIMARY_BASE))
      /\ (Q(a) => In(a, BOOT_SECONDARY_BASE)) /\ (Q(b) => In(b, BOOT_SECONDARY_BASE))
  BY <1>3
<1>7. CASE P(a) /\ P(b)
  BY <1>1, <1>7, SectorsApart DEF boot_primary_sector
<1>8. CASE Q(a) /\ Q(b)
  BY <1>1, <1>8, SectorsApart DEF boot_secondary_sector
<1>9. CASE ~ (P(a) /\ P(b)) /\ ~ (Q(a) /\ Q(b))
  <2> HIDE DEF P, Q, S
  <2>1. S = BOOT_SLOT_SECTOR_SIZE
    BY DEF S
  <2> QED BY <1>1, <1>2, <1>4, <1>5, <1>6, <1>9, <2>1 DEF Apart
<1> QED BY <1>7, <1>8, <1>9

\* What a block job of either kind of flash relies on.
Blocky(dest, bytes) ==
  /\ dest \in Nat /\ bytes \in Nat \ {0} /\ dest + bytes <= FLASH_END
  /\ \A u \in Extent(dest, bytes) : Region(u) = Region(dest)
  /\ Region(dest).base \in Nat /\ Region(dest).block \in Nat \ {0}
  /\ (dest - Region(dest).base) % Region(dest).block = 0
  /\ bytes % Region(dest).block = 0
  /\ boot_flash_block_size(dest) = Region(dest).block

LEMMA RegionType ==
  ASSUME NEW u \in Nat
  PROVE  /\ Region(u).base \in Nat /\ Region(u).block \in Nat \ {0} /\ Region(u).base <= u
         /\ boot_flash_block_size(u) = Region(u).block
  BY SizesNat DEF Region, boot_flash_block_size

LEMMA AreaFacts ==
  ASSUME NEW a \in Areas
  PROVE  a \in Nat /\ a + BOOT_SLOT_SECTOR_SIZE <= DATA_FLASH_START
<1>1. a = BOOT_SCRATCH_BASE \/ \E s \in SlotSectors : a = boot_primary_sector(s) \/ a = boot_secondary_sector(s)
  BY DEF Areas
<1>2. a \in Nat
  BY <1>1, SizesNat, SectorInSlot DEF boot_primary_sector, boot_secondary_sector
<1> QED BY <1>2, LayoutAssumption

LEMMA DataFlash ==
  /\ BOOT_RECORD_ADDRESS \in Nat /\ BOOT_SWAP_LOG_ADDRESS \in Nat /\ FLASH_END \in Nat
  /\ BOOT_RECORD_ADDRESS = DATA_FLASH_START
  /\ BOOT_RECORD_ADDRESS + DF_BLOCK_SIZE = BOOT_SWAP_LOG_ADDRESS
  /\ BOOT_SWAP_LOG_ADDRESS + DF_BLOCK_SIZE = FLASH_END
  BY SizesNat DEF BOOT_RECORD_ADDRESS, BOOT_SWAP_LOG_ADDRESS, FLASH_END

\* An extent that ends within the flash is a part of it.
LEMMA ExtentInFlash ==
  ASSUME NEW base \in Nat, NEW size \in Nat \ {0}, base + size <= FLASH_END
  PROVE  Extent(base, size) \subseteq Units
<1>1. FLASH_END \in Nat
  BY DataFlash
<1> QED BY <1>1 DEF Extent, Units

\* A copy erases whole blocks of one size.
LEMMA AreaBlocky ==
  ASSUME NEW a \in Areas
  PROVE  Blocky(a, BOOT_SLOT_SECTOR_SIZE)
<1>1. a \in Nat /\ a + BOOT_SLOT_SECTOR_SIZE <= DATA_FLASH_START
  BY AreaFacts
<1>2. /\ \A u \in Extent(a, BOOT_SLOT_SECTOR_SIZE) : Region(u) = Region(a)
      /\ BlockStart(a) = a /\ BOOT_SLOT_SECTOR_SIZE % Region(a).block = 0
  BY LayoutAssumption
<1>3. (a - Region(a).base) % Region(a).block = 0
  <2>1. (a - Region(a).base) % Region(a).block \in Int
    BY <1>1, RegionType
  <2> QED BY <1>1, <1>2, <2>1 DEF BlockStart
<1>4. a + BOOT_SLOT_SECTOR_SIZE <= FLASH_END
  BY <1>1, SizesNat, DataFlash
<1> QED BY <1>1, <1>2, <1>3, <1>4, RegionType, SizesNat DEF Blocky

\* So do the erases of the record and of the log.
LEMMA DataBlocky ==
  ASSUME NEW d \in {BOOT_RECORD_ADDRESS, BOOT_SWAP_LOG_ADDRESS}
  PROVE  Blocky(d, DF_BLOCK_SIZE)
<1>1. d \in Nat /\ d >= DATA_FLASH_START /\ d + DF_BLOCK_SIZE <= FLASH_END
  BY SizesNat, DataFlash
<1>2. \A u \in Nat : u >= d => Region(u) = [base |-> DATA_FLASH_START, block |-> DF_BLOCK_SIZE]
  BY <1>1, SizesNat DEF Region
<1>3. Region(d).base = DATA_FLASH_START /\ Region(d).block = DF_BLOCK_SIZE
  BY <1>1, <1>2
<1>4. \A u \in Extent(d, DF_BLOCK_SIZE) : Region(u) = Region(d)
  BY <1>1, <1>2, SizesNat DEF Extent
<1>5. 0 % DF_BLOCK_SIZE = 0 /\ DF_BLOCK_SIZE % DF_BLOCK_SIZE = 0
  BY SizesNat, SMT
<1>6. d - DATA_FLASH_START = 0 \/ d - DATA_FLASH_START = DF_BLOCK_SIZE
  BY SizesNat DEF BOOT_RECORD_ADDRESS, BOOT_SWAP_LOG_ADDRESS
<1> QED BY <1>1, <1>3, <1>4, <1>5, <1>6, RegionType, SizesNat DEF Blocky

-------------------------------------------------------------------------------
(* The calls of a swap. *)

JobType == [kind : {"erase", "write", "copy"}, dest : Int, src : Int, bytes : Nat]

IsCopy(job) == \E d \in Areas, s \in Areas : d # s /\ job = CopyOf(d, s)
IsErase(job) == job \in {EraseOf(BOOT_RECORD_ADDRESS), EraseOf(BOOT_SWAP_LOG_ADDRESS)}
IsRecordWrite(job) == job = WriteOf(BOOT_RECORD_ADDRESS, DF_BLOCK_SIZE)
IsLogWrite(job) == \E leg \in Legs : job = BOOT_SWAP_LOG_ENTRY(leg)

EntryCount == 6 * BOOT_SLOT_SECTOR_COUNT

LEMMA CopyType == ASSUME NEW job, IsCopy(job) PROVE job \in JobType
  BY AreaFacts, SizesNat DEF IsCopy, CopyOf, JobType

LEMMA EraseType == ASSUME NEW job, IsErase(job) PROVE job \in JobType
  BY DataFlash, SizesNat DEF IsErase, EraseOf, JobType

LEMMA WriteType == ASSUME NEW job, IsRecordWrite(job) \/ IsLogWrite(job) PROVE job \in JobType
  BY DataFlash, SizesNat DEF IsRecordWrite, IsLogWrite, BOOT_SWAP_LOG_ENTRY, WriteOf, JobType, Legs

\* Each of the three legs of a sector copies one area to another.
LEMMA LegCopies ==
  ASSUME NEW leg \in Legs
  PROVE  IsCopy(boot_swap_leg(leg))
<1> DEFINE sector == leg \div 3
<1>1. leg \in Nat /\ leg < 3 * BOOT_SLOT_SECTOR_COUNT /\ BOOT_SLOT_SECTOR_COUNT \in Nat
  BY SizesNat DEF Legs
<1>2. sector \in SlotSectors
  <2>1. leg \div 3 \in Nat /\ leg \div 3 < BOOT_SLOT_SECTOR_COUNT
    BY <1>1
  <2> QED BY <1>1, <2>1 DEF SlotSectors
<1>3. leg % 3 \in {0, 1, 2}
  BY <1>1
<1> HIDE DEF sector
<1> DEFINE p == boot_primary_sector(sector)
           q == boot_secondary_sector(sector)
<1>4. {BOOT_SCRATCH_BASE, p, q} \subseteq Areas
  BY <1>2 DEF Areas
<1>5. BOOT_SCRATCH_BASE # q /\ q # p /\ p # BOOT_SCRATCH_BASE
  <2>1. /\ Apart(BOOT_SCRATCH_BASE, BOOT_SLOT_SECTOR_SIZE, BOOT_PRIMARY_BASE, BOOT_PRIMARY_SIZE)
        /\ Apart(BOOT_SCRATCH_BASE, BOOT_SLOT_SECTOR_SIZE, BOOT_SECONDARY_BASE, BOOT_SECONDARY_SIZE)
        /\ Apart(BOOT_PRIMARY_BASE, BOOT_PRIMARY_SIZE, BOOT_SECONDARY_BASE, BOOT_SECONDARY_SIZE)
    BY LayoutAssumption
  <2> QED BY <1>2, <2>1, SectorInSlot, SizesNat DEF Apart, boot_primary_sector, boot_secondary_sector
<1>6. boot_swap_leg(leg) \in {CopyOf(BOOT_SCRATCH_BASE, q), CopyOf(q, p), CopyOf(p, BOOT_SCRATCH_BASE)}
  BY <1>3 DEF boot_swap_leg, sector
<1> QED BY <1>4, <1>5, <1>6 DEF IsCopy

LEMMA ExchangeEntries ==
  ASSUME NEW i \in 1 .. EntryCount
  PROVE  /\ i % 2 = 1 => IsCopy(Exchange[i])
         /\ i % 2 # 1 => IsLogWrite(Exchange[i]) /\ i - 1 \in 1 .. EntryCount /\ (i - 1) % 2 = 1
<1>1. i \in Nat /\ i >= 1 /\ i <= 6 * BOOT_SLOT_SECTOR_COUNT /\ BOOT_SLOT_SECTOR_COUNT \in Nat
  BY SizesNat DEF EntryCount
<1>2. (i - 1) \div 2 \in Legs
  <2>1. (i - 1) \div 2 \in Nat /\ (i - 1) \div 2 < 3 * BOOT_SLOT_SECTOR_COUNT
    BY <1>1
  <2> QED BY <1>1, <2>1 DEF Legs
<1>3. Exchange[i] = IF i % 2 = 1 THEN boot_swap_leg((i - 1) \div 2) ELSE BOOT_SWAP_LOG_ENTRY((i - 1) \div 2)
  BY DEF Exchange, EntryCount
<1>4. i % 2 # 1 => i - 1 \in 1 .. EntryCount /\ (i - 1) % 2 = 1
  BY <1>1 DEF EntryCount
<1> QED BY <1>2, <1>3, <1>4, LegCopies DEF IsLogWrite

IsJoined(r, s, t) ==
  /\ Len(r) = Len(s) + Len(t)
  /\ \A i \in 1 .. Len(s) : r[i] = s[i]
  /\ \A i \in 1 .. Len(t) : r[i + Len(s)] = t[i]

LEMMA Joined ==
  ASSUME NEW T, NEW s \in Seq(T), NEW t \in Seq(T)
  PROVE  s \o t \in Seq(T) /\ IsJoined(s \o t, s, t)
<1>1. /\ s \o t \in Seq(T) /\ Len(s \o t) = Len(s) + Len(t)
      /\ Len(s) \in Nat /\ Len(t) \in Nat
      /\ \A i \in 1 .. Len(s) + Len(t) :
            (s \o t)[i] = IF i <= Len(s) THEN s[i] ELSE t[i - Len(s)]
  BY ConcatProperties, LenProperties
<1>2. ASSUME NEW i \in 1 .. Len(t)
      PROVE  (s \o t)[i + Len(s)] = t[i]
  <2>1. i + Len(s) \in 1 .. Len(s) + Len(t) /\ ~ (i + Len(s) <= Len(s)) /\ (i + Len(s)) - Len(s) = i
    BY <1>1
  <2> QED BY <1>1, <2>1
<1> QED BY <1>1, <1>2 DEF IsJoined

LEMMA CallsAre ==
  /\ Calls \in Seq(JobType)
  /\ Len(Calls) = EntryCount + 5 /\ EntryCount \in Nat
  /\ Calls[1] = EraseOf(BOOT_SWAP_LOG_ADDRESS)
  /\ Calls[2] = EraseOf(BOOT_RECORD_ADDRESS)
  /\ Calls[3] = WriteOf(BOOT_RECORD_ADDRESS, DF_BLOCK_SIZE)
  /\ \A i \in 1 .. EntryCount : Calls[i + 3] = Exchange[i]
  /\ Calls[EntryCount + 4] = EraseOf(BOOT_RECORD_ADDRESS)
  /\ Calls[EntryCount + 5] = WriteOf(BOOT_RECORD_ADDRESS, DF_BLOCK_SIZE)
<1>1. EntryCount \in Nat
  BY SizesNat DEF EntryCount
<1>2. /\ EraseOf(BOOT_SWAP_LOG_ADDRESS) \in JobType /\ EraseOf(BOOT_RECORD_ADDRESS) \in JobType
      /\ WriteOf(BOOT_RECORD_ADDRESS, DF_BLOCK_SIZE) \in JobType
  BY EraseType, WriteType DEF IsErase, IsRecordWrite
<1> DEFINE head == <<EraseOf(BOOT_SWAP_LOG_ADDRESS)>>
<1>3. head \in Seq(JobType) /\ Len(head) = 1 /\ head[1] = EraseOf(BOOT_SWAP_LOG_ADDRESS)
  BY <1>2
<1>4. /\ boot_record_commit \in Seq(JobType) /\ Len(boot_record_commit) = 2
      /\ boot_record_commit[1] = EraseOf(BOOT_RECORD_ADDRESS)
      /\ boot_record_commit[2] = WriteOf(BOOT_RECORD_ADDRESS, DF_BLOCK_SIZE)
  BY <1>2 DEF boot_record_commit
<1>5. Exchange \in Seq(JobType) /\ Len(Exchange) = EntryCount
  <2>1. \A i \in 1 .. EntryCount : Exchange[i] \in JobType
    BY ExchangeEntries, CopyType, WriteType
  <2>2. DOMAIN Exchange = 1 .. EntryCount /\ Exchange = [i \in 1 .. EntryCount |-> Exchange[i]]
    BY DEF Exchange, EntryCount
  <2>3. Exchange \in [1 .. EntryCount -> JobType]
    BY <2>1, <2>2
  <2> QED BY <1>1, <2>3
<1> HIDE DEF head
<1> DEFINE a == head \o boot_record_commit
           b == a \o Exchange
<1>6. a \in Seq(JobType) /\ Len(a) = 3 /\ a[1] = head[1]
      /\ a[2] = boot_record_commit[1] /\ a[3] = boot_record_commit[2]
  <2>1. a \in Seq(JobType) /\ IsJoined(a, head, boot_record_commit)
    BY <1>3, <1>4, Joined
  <2>2. a[1] = head[1] /\ a[1 + 1] = boot_record_commit[1] /\ a[2 + 1] = boot_record_commit[2]
    BY <1>3, <1>4, <2>1 DEF IsJoined
  <2> QED BY <1>3, <1>4, <2>1, <2>2 DEF IsJoined
<1> HIDE DEF a
<1>7. /\ b \in Seq(JobType) /\ Len(b) = EntryCount + 3
      /\ \A i \in 1 .. 3 : b[i] = a[i]
      /\ \A i \in 1 .. EntryCount : b[i + 3] = Exchange[i]
  <2>1. b \in Seq(JobType) /\ IsJoined(b, a, Exchange)
    BY <1>5, <1>6, Joined
  <2> HIDE DEF b
  <2> QED BY <1>1, <1>5, <1>6, <2>1 DEF IsJoined
<1> HIDE DEF b
<1>8. Calls = b \o boot_record_commit
  BY DEF Calls, a, b, head
<1>9. /\ Calls \in Seq(JobType) /\ Len(Calls) = EntryCount + 5
      /\ \A i \in 1 .. EntryCount + 3 : Calls[i] = b[i]
      /\ Calls[EntryCount + 4] = boot_record_commit[1]
      /\ Calls[EntryCount + 5] = boot_record_commit[2]
  <2>1. Calls \in Seq(JobType) /\ IsJoined(Calls, b, boot_record_commit)
    BY <1>4, <1>7, <1>8, Joined
  <2>2. 1 + (EntryCount + 3) = EntryCount + 4 /\ 2 + (EntryCount + 3) = EntryCount + 5
    BY <1>1
  <2>3. /\ Calls[1 + (EntryCount + 3)] = boot_record_commit[1]
        /\ Calls[2 + (EntryCount + 3)] = boot_record_commit[2]
    BY <1>4, <1>7, <2>1 DEF IsJoined
  <2> QED BY <1>1, <1>4, <1>7, <2>1, <2>2, <2>3 DEF IsJoined
<1>10. \A i \in 1 .. EntryCount : Calls[i + 3] = Exchange[i]
  BY <1>1, <1>7, <1>9
<1> QED BY <1>1, <1>3, <1>4, <1>6, <1>7, <1>9, <1>10

\* Each call is of one of four kinds; a write comes after something else, a record's after its erase.
LEMMA CallKinds ==
  ASSUME NEW n \in 1 .. Len(Calls)
  PROVE  /\ IsCopy(Calls[n]) \/ IsErase(Calls[n]) \/ IsRecordWrite(Calls[n]) \/ IsLogWrite(Calls[n])
         /\ IsRecordWrite(Calls[n]) => n > 1 /\ Calls[n - 1] = EraseOf(BOOT_RECORD_ADDRESS)
         /\ IsLogWrite(Calls[n]) => n > 4 /\ IsCopy(Calls[n - 1])
<1>1. EntryCount \in Nat /\ Len(Calls) = EntryCount + 5
  BY CallsAre
<1>2. IsErase(EraseOf(BOOT_RECORD_ADDRESS)) /\ IsErase(EraseOf(BOOT_SWAP_LOG_ADDRESS))
  BY DEF IsErase
<1>3. ASSUME NEW job PROVE /\ IsErase(job) => ~ IsRecordWrite(job) /\ ~ IsLogWrite(job)
                           /\ IsCopy(job) => ~ IsRecordWrite(job) /\ ~ IsLogWrite(job)
  BY DEF IsErase, IsCopy, IsRecordWrite, IsLogWrite, EraseOf, WriteOf, CopyOf, BOOT_SWAP_LOG_ENTRY
<1>4. ASSUME NEW job, IsRecordWrite(job) PROVE ~ IsLogWrite(job)
  <2>1. job.dest = BOOT_RECORD_ADDRESS
    BY <1>4 DEF IsRecordWrite, WriteOf
  <2>2. ASSUME NEW leg \in Legs, job = BOOT_SWAP_LOG_ENTRY(leg) PROVE FALSE
    <3>1. job.dest = BOOT_SWAP_LOG_ADDRESS + leg /\ leg \in Nat
      BY <2>2 DEF BOOT_SWAP_LOG_ENTRY, WriteOf, Legs
    <3>2. /\ BOOT_RECORD_ADDRESS \in Nat /\ DF_BLOCK_SIZE \in Nat \ {0}
          /\ BOOT_SWAP_LOG_ADDRESS = BOOT_RECORD_ADDRESS + DF_BLOCK_SIZE
      BY DataFlash, SizesNat
    <3> QED BY <2>1, <3>1, <3>2
  <2> QED BY <2>2 DEF IsLogWrite
<1>5. CASE n = 1
  BY <1>2, <1>3, <1>5, CallsAre
<1>6. CASE n = 2
  BY <1>2, <1>3, <1>6, CallsAre
<1>7. CASE n = 3
  BY <1>4, <1>7, CallsAre DEF IsRecordWrite
<1>8. CASE n \in 4 .. EntryCount + 3
  <2> DEFINE i == n - 3
  <2>1. i \in 1 .. EntryCount /\ Calls[n] = Exchange[i]
    <3>1. i \in 1 .. EntryCount /\ i + 3 = n
      BY <1>1, <1>8
    <3> QED BY <3>1, CallsAre
  <2>2. CASE i % 2 = 1
    BY <1>3, <2>1, <2>2, ExchangeEntries
  <2>3. CASE i % 2 # 1
    <3>1. IsLogWrite(Calls[n]) /\ i - 1 \in 1 .. EntryCount /\ IsCopy(Exchange[i - 1])
      BY <2>1, <2>3, ExchangeEntries
    <3>2. Calls[(i - 1) + 3] = Exchange[i - 1] /\ (i - 1) + 3 = n - 1 /\ n > 4
      BY <1>1, <3>1, CallsAre
    <3> QED BY <1>4, <3>1, <3>2
  <2> QED BY <2>2, <2>3
<1>9. CASE n = EntryCount + 4
  BY <1>1, <1>2, <1>3, <1>9, CallsAre
<1>10. CASE n = EntryCount + 5
  <2>1. n > 1 /\ n - 1 = EntryCount + 4
    BY <1>1, <1>10
  <2> QED BY <1>4, <1>10, <2>1, CallsAre DEF IsRecordWrite
<1> QED BY <1>1, <1>5, <1>6, <1>7, <1>8, <1>9, <1>10

\* What a call asks of the flash.
IsJob(job) ==
  /\ job.kind \in {"erase", "write", "copy"}
  /\ job.dest \in Nat /\ job.bytes \in Nat \ {0} /\ job.dest + job.bytes <= FLASH_END
  /\ job.kind # "write" => Blocky(job.dest, job.bytes)
  /\ job.kind = "copy" => /\ job.dest \in Areas /\ job.src \in Areas /\ job.dest # job.src
                          /\ job.bytes = BOOT_SLOT_SECTOR_SIZE
  /\ job.kind = "erase" => job = EraseOf(job.dest) /\ job.dest \in {BOOT_RECORD_ADDRESS, BOOT_SWAP_LOG_ADDRESS}
  /\ job.kind = "write" => \/ job = WriteOf(BOOT_RECORD_ADDRESS, DF_BLOCK_SIZE)
                           \/ job.dest >= BOOT_SWAP_LOG_ADDRESS

LEMMA CopyJob == ASSUME NEW job, IsCopy(job) PROVE IsJob(job) /\ job.kind = "copy"
<1>1. PICK d \in Areas, s \in Areas : d # s /\ job = CopyOf(d, s)
  BY DEF IsCopy
<1>2. /\ job.kind = "copy" /\ job.dest = d /\ job.src = s /\ job.bytes = BOOT_SLOT_SECTOR_SIZE
  BY <1>1 DEF CopyOf
<1>3. Blocky(d, BOOT_SLOT_SECTOR_SIZE)
  BY AreaBlocky
<1>4. d \in Nat /\ BOOT_SLOT_SECTOR_SIZE \in Nat \ {0} /\ d + BOOT_SLOT_SECTOR_SIZE <= FLASH_END
  BY <1>3 DEF Blocky
<1> QED BY <1>1, <1>2, <1>3, <1>4 DEF IsJob

LEMMA EraseJob == ASSUME NEW job, IsErase(job) PROVE IsJob(job) /\ job.kind = "erase"
<1>1. PICK d \in {BOOT_RECORD_ADDRESS, BOOT_SWAP_LOG_ADDRESS} : job = EraseOf(d)
  BY DEF IsErase
<1>2. job.kind = "erase" /\ job.dest = d /\ job.bytes = DF_BLOCK_SIZE
  BY <1>1 DEF EraseOf
<1>3. Blocky(d, DF_BLOCK_SIZE)
  BY DataBlocky
<1>4. d \in Nat /\ DF_BLOCK_SIZE \in Nat \ {0} /\ d + DF_BLOCK_SIZE <= FLASH_END
  BY <1>3 DEF Blocky
<1> QED BY <1>1, <1>2, <1>3, <1>4 DEF IsJob

LEMMA WriteJob == ASSUME NEW job, IsRecordWrite(job) \/ IsLogWrite(job)
                  PROVE IsJob(job) /\ job.kind = "write"
<1>1. CASE IsRecordWrite(job)
  <2>1. job.kind = "write" /\ job.dest = BOOT_RECORD_ADDRESS /\ job.bytes = DF_BLOCK_SIZE
    BY <1>1 DEF IsRecordWrite, WriteOf
  <2> QED BY <1>1, <2>1, DataFlash, SizesNat DEF IsJob, IsRecordWrite
<1>2. ASSUME NEW leg \in Legs, job = BOOT_SWAP_LOG_ENTRY(leg) PROVE IsJob(job) /\ job.kind = "write"
  <2>1. job.kind = "write" /\ job.dest = BOOT_SWAP_LOG_ADDRESS + leg /\ job.bytes = 1
    BY <1>2 DEF BOOT_SWAP_LOG_ENTRY, WriteOf
  <2>2. leg \in Nat /\ leg < DF_BLOCK_SIZE
    BY LayoutAssumption, SizesNat DEF Legs
  <2> QED BY <2>1, <2>2, DataFlash, SizesNat DEF IsJob
<1> QED BY <1>1, <1>2 DEF IsLogWrite

LEMMA JobFacts ==
  ASSUME NEW n \in 1 .. Len(Calls)
  PROVE  /\ IsJob(Calls[n])
         /\ Calls[n].kind = "write" => n > 1 /\ Calls[n - 1].kind # "write"
         /\ Calls[n] = WriteOf(BOOT_RECORD_ADDRESS, DF_BLOCK_SIZE) => Calls[n - 1] = EraseOf(BOOT_RECORD_ADDRESS)
<1>1. IsJob(Calls[n])
  BY CallKinds, CopyJob, EraseJob, WriteJob
<1>2. IsErase(EraseOf(BOOT_RECORD_ADDRESS)) /\ EraseOf(BOOT_RECORD_ADDRESS).kind = "erase"
  BY DEF IsErase, EraseOf
<1>3. ASSUME Calls[n].kind = "write" PROVE n > 1 /\ Calls[n - 1].kind # "write"
  <2>1. IsRecordWrite(Calls[n]) \/ IsLogWrite(Calls[n])
    BY <1>3, CallKinds, CopyJob, EraseJob
  <2>2. CASE IsRecordWrite(Calls[n])
    BY <1>2, <2>2, CallKinds
  <2>3. CASE IsLogWrite(Calls[n])
    <3>1. n > 4 /\ IsCopy(Calls[n - 1])
      BY <2>3, CallKinds
    <3>2. n > 1
      BY <3>1, CallsAre
    <3> QED BY <3>1, <3>2, CopyJob
  <2> QED BY <2>1, <2>2, <2>3
<1>4. ASSUME Calls[n] = WriteOf(BOOT_RECORD_ADDRESS, DF_BLOCK_SIZE)
      PROVE  Calls[n - 1] = EraseOf(BOOT_RECORD_ADDRESS)
  BY <1>4, CallKinds DEF IsRecordWrite
<1> QED BY <1>1, <1>3, <1>4

\* A swap is never taken up again at a write.
LEMMA ResumedCall ==
  ASSUME NEW n \in 1 .. Len(Calls) + 1
  PROVE  /\ Resumed(n) \in 1 .. Len(Calls) + 1
         /\ Resumed(n) <= Len(Calls) => Calls[Resumed(n)].kind # "write"
<1>1. Len(Calls) \in Nat /\ Len(Calls) >= 5
  BY CallsAre
<1>2. CASE n <= 3
  <2>1. Resumed(n) = 1
    BY <1>2 DEF Resumed
  <2>2. Calls[1].kind = "erase"
    BY CallsAre DEF EraseOf
  <2> QED BY <1>1, <2>1, <2>2
<1>3. CASE ~ (n <= 3) /\ n <= Len(Calls) /\ Calls[n].kind = "write"
  <2>1. Resumed(n) = n - 1
    BY <1>3 DEF Resumed
  <2>2. n - 1 \in 1 .. Len(Calls) + 1
    BY <1>1, <1>3
  <2>3. n \in 1 .. Len(Calls)
    BY <1>1, <1>3
  <2>4. Calls[n - 1].kind # "write"
    BY <1>3, <2>3, JobFacts
  <2> QED BY <2>1, <2>2, <2>4
<1>4. CASE ~ (n <= 3) /\ ~ (n <= Len(Calls) /\ Calls[n].kind = "write")
  <2>1. Resumed(n) = n
    BY <1>4 DEF Resumed
  <2> QED BY <1>4, <2>1
<1> QED BY <1>2, <1>3, <1>4

-------------------------------------------------------------------------------
(* The invariant. *)

\* The call at work, as the driver sees it.
LEMMA JobNow ==
  ASSUME FlashInv, pc \in Working
  PROVE  call \in 1 .. Len(Calls) /\ IsJob(Job)
<1>1. call \in 1 .. Len(Calls)
  BY CallsAre DEF FlashInv, BootFlashTypeOK, KindInv
<1> QED BY <1>1, JobFacts DEF Job

\* The next step of an aligned address is aligned.
LEMMA AlignedNext ==
  ASSUME NEW x \in Nat, NEW n \in Nat \ {0}, x % n = 0
  PROVE  (x + n) % n = 0
<1>1. x = n * (x \div n) /\ x \div n \in Int
  BY SMT
<1>2. PICK q \in Int : x = n * q
  BY <1>1
<1>3. x + n = n * (q + 1)
  BY <1>2, SMT
<1>4. (n * (q + 1)) % n = 0
  BY SMT
<1> QED BY <1>3, <1>4

\* The next block lies in the destination, and is where the driver stands.
LEMMA BlockInJob ==
  ASSUME FlashInv, pc = "erasing", blocks > 0
  PROVE  LET size == Region(Job.dest).block
         IN  /\ size \in Nat \ {0} /\ block \in Nat /\ blocks \in Nat
             /\ block >= Job.dest /\ block + size <= Job.dest + Job.bytes
             /\ Region(block) = Region(Job.dest) /\ BlockStart(block) = block
             /\ BlockAt(block) = Extent(block, size)
             /\ BlockAt(block) \subseteq Extent(Job.dest, Job.bytes)
             /\ ((block + size) - Region(Job.dest).base) % size = 0
             /\ (block + size) + (blocks - 1) * size = Job.dest + Job.bytes
<1> DEFINE size == Region(Job.dest).block
           base == Region(Job.dest).base
<1>1. IsJob(Job) /\ Job.kind # "write"
  BY JobNow DEF Working, FlashInv, KindInv
<1>2. Blocky(Job.dest, Job.bytes)
  BY <1>1 DEF IsJob
<1>3. size \in Nat \ {0} /\ base \in Nat /\ base <= Job.dest /\ Job.dest \in Nat /\ Job.bytes \in Nat
  BY <1>2, RegionType DEF Blocky
<1>4. /\ block \in Nat /\ blocks \in Nat /\ block >= Job.dest
      /\ block + blocks * size = Job.dest + Job.bytes
      /\ (block - base) % size = 0
  BY DataFlash DEF FlashInv, BootFlashTypeOK, EraseInv
<1>5. Region(Job.dest) = Region(Job.dest) /\ \A u \in Extent(Job.dest, Job.bytes) : Region(u) = Region(Job.dest)
  BY <1>2 DEF Blocky
<1> HIDE DEF size, base
<1>6. (blocks - 1) * size \in Nat /\ blocks * size = (blocks - 1) * size + size
  <2>1. blocks - 1 \in Nat
    BY <1>4
  <2>2. PICK m \in Nat : blocks = m + 1 /\ blocks - 1 = m
    BY <1>4, <2>1
  <2>3. m * size \in Nat /\ (m + 1) * size = m * size + size
    BY <1>3, SMT
  <2> QED BY <2>2, <2>3
<1>7. block + size <= Job.dest + Job.bytes /\ (block + size) + (blocks - 1) * size = Job.dest + Job.bytes
  BY <1>3, <1>4, <1>6
<1>8. block \in Extent(Job.dest, Job.bytes)
  BY <1>3, <1>4, <1>7 DEF Extent
<1>9. Region(block) = Region(Job.dest)
  BY <1>5, <1>8
<1>10. BlockStart(block) = block
  <2>1. BlockStart(block) = block - ((block - base) % size)
    BY <1>9 DEF BlockStart, size, base
  <2> QED BY <1>4, <2>1
<1>11. BlockAt(block) = Extent(block, size)
  BY <1>9, <1>10 DEF BlockAt, size
<1>12. Extent(block, size) \subseteq Extent(Job.dest, Job.bytes)
  BY <1>3, <1>4, <1>7 DEF Extent
<1>13. ((block + size) - base) % size = 0
  <2>1. block - base \in Nat /\ (block + size) - base = (block - base) + size
    BY <1>3, <1>4
  <2> QED BY <1>3, <1>4, <2>1, AlignedNext
<1> QED BY <1>3, <1>4, <1>7, <1>9, <1>10, <1>11, <1>12, <1>13 DEF size, base

LEMMA WholeBlocks ==
  ASSUME NEW x \in Nat, NEW n \in Nat \ {0}, x % n = 0
  PROVE  x \div n \in Nat /\ x = (x \div n) * n
<1>1. x \div n \in Nat /\ x = n * (x \div n) + (x % n)
  BY SMT
<1>2. PICK q \in Nat : q = x \div n
  BY <1>1
<1>3. n * q = q * n /\ n * q \in Nat
  BY SMT
<1> QED BY <1>1, <1>2, <1>3

LEMMA InitFlash == Init => FlashInv
<1> SUFFICES ASSUME Init PROVE FlashInv
  OBVIOUS
<1>1. 1 \in 1 .. Len(Calls) + 1 /\ Calls[1].kind = "erase"
  BY CallsAre DEF EraseOf
<1>2. cells \in [Units -> Contents]
  BY DEF Init, Contents
<1>3. BootFlashTypeOK
  <2>1. buffer \in Seq(Contents) /\ written \in 0 .. Len(buffer) /\ pc = "idle"
    BY DEF Init
  <2>2. block \in 0 .. FLASH_END /\ blocks \in Nat /\ offset \in Nat /\ call \in 1 .. Len(Calls) + 1
    BY <1>1, DataFlash DEF Init
  <2> QED BY <1>2, <2>1, <2>2 DEF Init, BootFlashTypeOK
<1>4. RecordInv
  <2>1. Job # WriteOf(BOOT_RECORD_ADDRESS, DF_BLOCK_SIZE)
    BY <1>1 DEF Init, Job, WriteOf
  <2> QED BY <2>1 DEF Init, RecordInv
<1> QED BY <1>3, <1>4 DEF Init, FlashInv, KindInv, Working, DriverInv, LoopInv, EraseInv, CopyInv

\* A call that is cut off leaves nothing to be finished, whatever it leaves in the flash.
LEMMA CutOff ==
  ASSUME FlashInv, cells' \in [Units -> Contents], pc' \in {"idle", "stopped"},
         call' = Resumed(Reached), Locals, driver_open' \in BOOLEAN, driver_open' = g_flash_open'
  PROVE  FlashInv'
<1>1. Reached \in 1 .. Len(Calls) + 1
  <2>1. call \in 1 .. Len(Calls) + 1
    BY DEF FlashInv, BootFlashTypeOK
  <2>2. pc = "returned" => call \in 1 .. Len(Calls)
    BY JobNow DEF Working
  <2> QED BY <2>1, <2>2, CallsAre DEF Reached
<1>2. call' \in 1 .. Len(Calls) + 1 /\ (call' <= Len(Calls) => Calls[call'].kind # "write")
  BY <1>1, ResumedCall
<1>3. BootFlashTypeOK'
  BY <1>2, DataFlash DEF BootFlashTypeOK, Locals
<1>4. RecordInv'
  <2>1. call' <= Len(Calls) => Job' # WriteOf(BOOT_RECORD_ADDRESS, DF_BLOCK_SIZE)
    BY <1>2 DEF Job, WriteOf
  <2> QED BY <2>1 DEF RecordInv
<1> QED BY <1>3, <1>4
    DEF FlashInv, KindInv, Working, DriverInv, LoopInv, Locals, EraseInv, CopyInv

LEMMA CallStep == ASSUME FlashInv, Call PROVE FlashInv'
<1>1. call \in 1 .. Len(Calls) /\ call' = call /\ pc = "idle" /\ Job' = Job /\ cells' = cells
  BY DEF FlashInv, BootFlashTypeOK, Call, Job
<1>2. IsJob(Job)
  BY <1>1, JobFacts DEF Job
<1>3. blocks = 0 /\ offset = 0 /\ buffer = << >> /\ written = 0
  BY <1>1 DEF FlashInv, LoopInv
<1>4. CASE Job.kind = "write"
  <2>1. /\ pc' = "write" /\ buffer' = [i \in 1 .. Job.bytes |-> FromRam]
        /\ driver_open' = TRUE /\ g_flash_open' = TRUE
        /\ UNCHANGED <<cells, call, block, blocks, offset, written>>
    BY <1>4 DEF Call, boot_flash_open
  <2>2. buffer' \in Seq(Contents) /\ Len(buffer') = Job.bytes /\ Job.bytes \in Nat
    <3>1. Job.bytes \in Nat /\ FromRam \in Contents
      BY <1>2 DEF IsJob, Contents
    <3> QED BY <2>1, <3>1
  <2>3. BootFlashTypeOK'
    BY <1>1, <1>3, <1>4, <2>1, <2>2 DEF FlashInv, BootFlashTypeOK
  <2>4. RecordInv'
    <3>1. Job.dest = BOOT_RECORD_ADDRESS => Blanked(Job.dest, Job.bytes)
      <4> SUFFICES ASSUME Job.dest = BOOT_RECORD_ADDRESS PROVE Blanked(Job.dest, Job.bytes)
        OBVIOUS
      <4>1. Job = WriteOf(BOOT_RECORD_ADDRESS, DF_BLOCK_SIZE)
        BY <1>2, <1>4, DataFlash, SizesNat DEF IsJob
      <4> QED BY <1>1, <4>1 DEF FlashInv, RecordInv
    <3>2. Job.dest + 0 = Job.dest /\ Job.bytes - 0 = Job.bytes
      BY <1>2 DEF IsJob
    <3> QED BY <1>1, <1>3, <2>1, <3>1, <3>2 DEF RecordInv, Blanked
  <2> QED BY <1>1, <1>3, <1>4, <2>1, <2>3, <2>4
      DEF FlashInv, KindInv, Working, DriverInv, LoopInv, EraseInv, CopyInv
<1>5. CASE Job.kind # "write"
  <2>1. /\ pc' = "erase" /\ buffer' = << >>
        /\ UNCHANGED <<driver_open, g_flash_open, cells, call, block, blocks, offset, written>>
    BY <1>5 DEF Call
  <2>2. BootFlashTypeOK'
    BY <1>1, <1>3, <2>1 DEF FlashInv, BootFlashTypeOK
  <2> QED BY <1>1, <1>3, <1>5, <2>1, <2>2
      DEF FlashInv, KindInv, Working, DriverInv, LoopInv, EraseInv, CopyInv, RecordInv
<1> QED BY <1>4, <1>5

LEMMA EraseStep == ASSUME FlashInv, boot_flash_erase PROVE FlashInv' /\ pc' = "erasing" /\ call' = call
<1>1. pc = "erase" /\ cells' = cells /\ driver_open' = TRUE /\ g_flash_open' = TRUE
  BY DEF boot_flash_erase, boot_flash_open
<1>2. call \in 1 .. Len(Calls) /\ IsJob(Job) /\ Job.kind # "write"
  BY <1>1, JobNow DEF FlashInv, KindInv, Working
<1>3. Blocky(Job.dest, Job.bytes)
  BY <1>2 DEF IsJob
<1> DEFINE size == Region(Job.dest).block
<1>4. boot_flash_block_size(Job.dest) = size /\ Job.bytes % size = 0 /\ size \in Nat \ {0}
      /\ Job.dest \in Nat /\ Job.bytes \in Nat \ {0} /\ Job.dest + Job.bytes <= FLASH_END
  BY <1>3 DEF Blocky
<1>5. /\ block' = Job.dest /\ blocks' = Job.bytes \div size /\ pc' = "erasing"
      /\ UNCHANGED <<call, offset, buffer, written>>
  BY <1>4 DEF boot_flash_erase
<1>6. Job' = Job
  BY <1>5 DEF Job
<1>7. blocks' \in Nat /\ Job.bytes = (Job.bytes \div size) * size
  BY <1>4, <1>5, WholeBlocks
<1>8. offset = 0 /\ buffer = << >> /\ written = 0
  BY <1>1 DEF FlashInv, LoopInv
<1>9. BootFlashTypeOK'
  BY <1>1, <1>2, <1>4, <1>5, <1>6, <1>7, <1>8, DataFlash DEF FlashInv, BootFlashTypeOK
<1>10. EraseInv'
  <2>1. Region(Job.dest)' = Region(Job.dest)
    BY <1>6
  <2>2. (Job.dest - Region(Job.dest).base) % size = 0
    BY <1>3 DEF Blocky
  <2>3. Blanked(Job.dest, Job.dest - Job.dest)'
    <3>1. Extent(Job.dest, Job.dest - Job.dest) = {}
      BY <1>4 DEF Extent
    <3> QED BY <1>6, <3>1 DEF Blanked
  <2>4. Job.dest + blocks' * size = Job.dest + Job.bytes
    BY <1>5, <1>7
  <2> QED BY <1>4, <1>5, <1>6, <2>1, <2>2, <2>3, <2>4 DEF EraseInv, Blanked
<1> QED BY <1>1, <1>2, <1>5, <1>6, <1>8, <1>9, <1>10
    DEF FlashInv, KindInv, Working, DriverInv, LoopInv, RecordInv, CopyInv

LEMMA EraseBlockStep ==
  ASSUME FlashInv, EraseBlock
  PROVE  FlashInv' /\ \E u \in Extent(Job.dest, Job.bytes) : cells'[u] = Blank
<1> DEFINE size == Region(Job.dest).block
<1>1. /\ pc = "erasing" /\ blocks > 0
      /\ cells' = [u \in Units |-> IF u \in BlockAt(block) THEN Blank ELSE cells[u]]
      /\ block' = BlockStart(block) + Region(block).block /\ blocks' = blocks - 1
      /\ UNCHANGED <<driver_open, g_flash_open, pc, call, offset, buffer, written>>
  BY DEF EraseBlock
<1>2. call \in 1 .. Len(Calls) /\ IsJob(Job) /\ Job.kind # "write" /\ Job' = Job
  BY <1>1, JobNow DEF FlashInv, KindInv, Working, Job
<1>3. Job.dest \in Nat /\ Job.bytes \in Nat /\ Job.dest + Job.bytes <= FLASH_END
  BY <1>2 DEF IsJob
<1>4. /\ size \in Nat \ {0} /\ block \in Nat /\ blocks \in Nat
      /\ block >= Job.dest /\ block + size <= Job.dest + Job.bytes
      /\ Region(block) = Region(Job.dest) /\ BlockStart(block) = block
      /\ BlockAt(block) = Extent(block, size)
      /\ ((block + size) - Region(Job.dest).base) % size = 0
      /\ (block + size) + (blocks - 1) * size = Job.dest + Job.bytes
  BY <1>1, BlockInJob
<1>5. block' = block + size
  BY <1>1, <1>4
<1>6. cells' \in [Units -> Contents]
  BY <1>1 DEF FlashInv, BootFlashTypeOK, Contents
<1> HIDE DEF size
<1>7. BootFlashTypeOK'
  <2>1. BootFlashTypeOK
    BY DEF FlashInv
  <2>2. block' \in 0 .. FLASH_END /\ blocks' \in Nat
    <3>1. block + size \in Nat /\ block + size <= FLASH_END /\ FLASH_END \in Nat
      BY <1>3, <1>4, DataFlash
    <3>2. blocks - 1 \in Nat
      BY <1>1, <1>4
    <3> QED BY <1>1, <1>5, <3>1, <3>2
  <2>3. Len(buffer') = Len(buffer)
    BY <1>1
  <2> QED BY <1>1, <1>2, <1>6, <2>1, <2>2, <2>3 DEF BootFlashTypeOK
<1>8. Extent(Job.dest, Job.bytes) \subseteq Units
  BY <1>3, DataFlash DEF Extent, Units
<1>9. ASSUME NEW u \in Extent(Job.dest, (block + size) - Job.dest) PROVE cells'[u] = Blank
  <2>1. u \in Units
    BY <1>3, <1>4, <1>8, <1>9, SMTT(30) DEF Extent
  <2>2. CASE u \in BlockAt(block)
    BY <1>1, <2>1, <2>2
  <2>3. CASE u \notin BlockAt(block)
    <3>1. u \in Extent(Job.dest, block - Job.dest)
      BY <1>3, <1>4, <1>9, <2>3 DEF Extent
    <3>2. cells[u] = Blank
      BY <1>1, <3>1 DEF FlashInv, EraseInv, Blanked
    <3> QED BY <1>1, <2>1, <2>3, <3>2
  <2> QED BY <2>2, <2>3
<1>10. EraseInv'
  <2>1. Region(Job.dest)' = Region(Job.dest)
    BY <1>2
  <2>2. block' >= Job.dest /\ block' + blocks' * size = Job.dest + Job.bytes
    BY <1>1, <1>3, <1>4, <1>5
  <2>3. (block' - Region(Job.dest).base) % size = 0
    BY <1>4, <1>5, Zenon
  <2>4. \A u \in Extent(Job.dest, block' - Job.dest) : cells'[u] = Blank
    BY <1>5, <1>9, Zenon
  <2> QED BY <1>2, <2>1, <2>2, <2>3, <2>4 DEF EraseInv, Blanked, size
<1>11. \E u \in Extent(Job.dest, Job.bytes) : cells'[u] = Blank
  <2>1. block \in Extent(Job.dest, (block + size) - Job.dest) /\ block \in Extent(Job.dest, Job.bytes)
    BY <1>3, <1>4 DEF Extent
  <2> QED BY <1>9, <2>1
<1> QED BY <1>1, <1>2, <1>7, <1>10, <1>11
    DEF FlashInv, KindInv, Working, DriverInv, LoopInv, RecordInv, CopyInv

LEMMA ChunkFits ==
  ASSUME NEW left \in Nat \ {0}
  PROVE  /\ ChunkLength(left) \in Nat \ {0}
         /\ ChunkLength(left) <= left /\ ChunkLength(left) <= BOOT_FLASH_CHUNK
         /\ ChunkLength(left) = left \/ ChunkLength(left) = BOOT_FLASH_CHUNK
  BY SizesNat DEF ChunkLength

\* The unit to be programmed lies in the destination, and is blank unless it is of the log.
LEMMA TargetInJob ==
  ASSUME FlashInv, pc = "write", written < Len(buffer)
  PROVE  /\ offset \in Nat /\ written \in Nat
         /\ Target \in Extent(Job.dest, Job.bytes) /\ Target \in Units
         /\ cells[Target] = Blank \/ Target \in Log
         /\ Job.kind = "copy" => offset + written < BOOT_SLOT_SECTOR_SIZE /\ cells[Target] = Blank
<1>1. call \in 1 .. Len(Calls) /\ IsJob(Job) /\ Job.kind # "erase"
  BY JobNow DEF FlashInv, KindInv, Working
<1>2. Job.kind \in {"copy", "write"} /\ Job.dest \in Nat /\ Job.bytes \in Nat \ {0} /\ Job.dest + Job.bytes <= FLASH_END
  BY <1>1 DEF IsJob
<1>3. offset \in Nat /\ written \in Nat /\ buffer \in Seq(Contents) /\ Len(buffer) \in Nat
  BY DEF FlashInv, BootFlashTypeOK
<1>4. offset + written < Job.bytes
  <2>1. CASE Job.kind = "copy"
    <3>1. offset < Job.bytes /\ Len(buffer) = ChunkLength(Job.bytes - offset)
      BY <2>1 DEF FlashInv, CopyInv
    <3>2. Job.bytes - offset \in Nat \ {0}
      BY <1>2, <1>3, <3>1
    <3>3. ChunkLength(Job.bytes - offset) <= Job.bytes - offset
      BY <3>2, ChunkFits
    <3> QED BY <1>2, <1>3, <3>1, <3>3
  <2>2. CASE Job.kind = "write"
    <3>1. offset = 0 /\ Len(buffer) = Job.bytes
      BY <1>2, <2>2 DEF FlashInv, RecordInv
    <3> QED BY <1>2, <1>3, <3>1
  <2> QED BY <1>2, <2>1, <2>2
<1>5. Target \in Extent(Job.dest, Job.bytes) /\ Target \in Units /\ Target = Job.dest + (offset + written)
  <2>1. offset + written \in 0 .. Job.bytes - 1
    BY <1>2, <1>3, <1>4
  <2>2. Target = Job.dest + (offset + written)
    BY <1>2, <1>3 DEF Target
  <2>3. Target \in Extent(Job.dest, Job.bytes)
    BY <1>2, <2>1, <2>2 DEF Extent
  <2> QED BY <1>2, <2>2, <2>3, ExtentInFlash
<1>6. ASSUME Job.kind = "copy" PROVE offset + written < BOOT_SLOT_SECTOR_SIZE /\ cells[Target] = Blank
  <2>1. Job.bytes = BOOT_SLOT_SECTOR_SIZE
    BY <1>1, <1>6 DEF IsJob
  <2>2. Copied(offset + written)
    BY <1>6 DEF FlashInv, CopyInv
  <2>3. offset + written \in 0 .. BOOT_SLOT_SECTOR_SIZE - 1
    BY <1>2, <1>3, <1>4, <2>1
  <2>4. cells[Job.dest + (offset + written)] = Blank
    BY <1>3, <2>2, <2>3 DEF Copied
  <2> QED BY <1>5, <2>3, <2>4, SizesNat
<1>7. ASSUME Job.kind = "write" PROVE cells[Target] = Blank \/ Target \in Log
  <2>1. CASE Job.dest = BOOT_RECORD_ADDRESS
    <3>1. offset = 0 /\ Blanked(Job.dest + written, Job.bytes - written)
      BY <1>7, <2>1 DEF FlashInv, RecordInv
    <3>2. Target \in Extent(Job.dest + written, Job.bytes - written)
      BY <1>2, <1>3, <1>4, <3>1 DEF Target, Extent
    <3> QED BY <3>1, <3>2 DEF Blanked
  <2>2. CASE Job.dest # BOOT_RECORD_ADDRESS
    <3>1. Job.dest >= BOOT_SWAP_LOG_ADDRESS
      BY <1>1, <1>7, <2>2 DEF IsJob, WriteOf
    <3>2. Target \in Log
      <4>1. Target \in Nat /\ Target >= Job.dest /\ Target < FLASH_END
        BY <1>2, <1>3, <1>5, DataFlash DEF Units
      <4>2. BOOT_SWAP_LOG_ADDRESS \in Nat /\ DF_BLOCK_SIZE \in Nat /\ FLASH_END = BOOT_SWAP_LOG_ADDRESS + DF_BLOCK_SIZE
        BY DataFlash, SizesNat
      <4>3. Target \in BOOT_SWAP_LOG_ADDRESS .. FLASH_END - 1
        BY <1>2, <3>1, <4>1, <4>2
      <4>4. Target \in BOOT_SWAP_LOG_ADDRESS .. BOOT_SWAP_LOG_ADDRESS + DF_BLOCK_SIZE - 1
        BY <4>2, <4>3
      <4> QED BY <4>4, Zenon DEF Log, Extent
    <3> QED BY <3>2
  <2> QED BY <2>1, <2>2
<1> QED BY <1>2, <1>3, <1>5, <1>6, <1>7

LEMMA EraseDoneStep == ASSUME FlashInv, EraseDone PROVE FlashInv'
<1>1. /\ pc = "erasing" /\ blocks = 0 /\ pc' = IF Job.kind = "copy" THEN "copy" ELSE "returned"
      /\ UNCHANGED <<cells, driver_open, g_flash_open, call, block, blocks, offset, buffer, written>>
  BY DEF EraseDone
<1>2. call \in 1 .. Len(Calls) /\ IsJob(Job) /\ Job.kind # "write" /\ Job' = Job
  BY <1>1, JobNow DEF FlashInv, KindInv, Working, Job
<1>3. Job.dest \in Nat /\ Job.bytes \in Nat \ {0} /\ Job.kind \in {"erase", "copy"}
  BY <1>2 DEF IsJob
<1>4. offset = 0 /\ buffer = << >> /\ written = 0
  BY <1>1 DEF FlashInv, LoopInv
<1>5. Blanked(Job.dest, Job.bytes)
  <2>1. Region(Job.dest).block \in Nat
    BY <1>3, RegionType
  <2>2. block + 0 * Region(Job.dest).block = Job.dest + Job.bytes /\ Blanked(Job.dest, block - Job.dest)
    BY <1>1 DEF FlashInv, EraseInv
  <2>3. block \in Nat
    BY DataFlash DEF FlashInv, BootFlashTypeOK
  <2>4. block - Job.dest = Job.bytes
    BY <1>3, <2>1, <2>2, <2>3
  <2> QED BY <2>2, <2>4
<1>6. BootFlashTypeOK'
  BY <1>1, <1>2, <1>4 DEF FlashInv, BootFlashTypeOK
<1>7. CASE Job.kind = "copy"
  <2>1. Copied(0)
    <3>1. Job.bytes = BOOT_SLOT_SECTOR_SIZE
      BY <1>2, <1>7 DEF IsJob
    <3>2. ASSUME NEW i \in 0 .. BOOT_SLOT_SECTOR_SIZE - 1 PROVE cells[Job.dest + i] = Blank
      <4>1. Job.dest + i \in Extent(Job.dest, Job.bytes)
        BY <1>3, <3>1, SizesNat DEF Extent
      <4> QED BY <1>5, <4>1 DEF Blanked
    <3>3. \A i \in 0 .. BOOT_SLOT_SECTOR_SIZE - 1 : ~ (i < 0)
      BY SizesNat
    <3> QED BY <3>2, <3>3 DEF Copied
  <2> QED BY <1>1, <1>2, <1>4, <1>6, <1>7, <2>1
      DEF FlashInv, KindInv, Working, DriverInv, LoopInv, EraseInv, RecordInv, CopyInv, Copied
<1>8. CASE Job.kind = "erase"
  BY <1>1, <1>2, <1>4, <1>5, <1>6, <1>8
  DEF FlashInv, KindInv, Working, DriverInv, LoopInv, EraseInv, RecordInv, CopyInv, Blanked
<1> QED BY <1>3, <1>7, <1>8

LEMMA CopyChunkStep == ASSUME FlashInv, CopyChunk PROVE FlashInv'
<1>1. /\ pc = "copy" /\ offset < Job.bytes
      /\ buffer' = [i \in 1 .. ChunkLength(Job.bytes - offset) |-> cells[Job.src + offset + i - 1]]
      /\ driver_open' = TRUE /\ g_flash_open' = TRUE /\ written' = 0 /\ pc' = "write"
      /\ UNCHANGED <<cells, call, block, blocks, offset>>
  BY DEF CopyChunk, MoreToCopy, boot_flash_open
<1>2. call \in 1 .. Len(Calls) /\ IsJob(Job) /\ Job.kind = "copy" /\ Job' = Job
  BY <1>1, JobNow DEF FlashInv, KindInv, Working, Job
<1>3. /\ Job.src \in Nat /\ Job.bytes = BOOT_SLOT_SECTOR_SIZE /\ Job.bytes \in Nat
      /\ Job.src + Job.bytes <= FLASH_END /\ FLASH_END \in Nat
  <2>1. Job.src \in Areas /\ Job.bytes = BOOT_SLOT_SECTOR_SIZE
    BY <1>2 DEF IsJob
  <2>2. Job.src \in Nat /\ Job.src + BOOT_SLOT_SECTOR_SIZE <= DATA_FLASH_START
    BY <2>1, AreaFacts
  <2> QED BY <2>1, <2>2, DataFlash, SizesNat
<1>4. offset \in Nat /\ blocks = 0 /\ cells \in [Units -> Contents]
  BY <1>1 DEF FlashInv, BootFlashTypeOK, LoopInv
<1> DEFINE length == ChunkLength(Job.bytes - offset)
<1>5. length \in Nat /\ length <= Job.bytes - offset /\ length <= BOOT_FLASH_CHUNK
  <2>1. Job.bytes - offset \in Nat \ {0}
    BY <1>1, <1>3, <1>4
  <2> QED BY <2>1, ChunkFits
<1>6. buffer' \in Seq(Contents) /\ Len(buffer') = length
  <2> HIDE DEF length
  <2>1. ASSUME NEW i \in 1 .. length PROVE cells[Job.src + offset + i - 1] \in Contents
    <3>1. Job.src + offset + i - 1 \in Units
      BY <1>3, <1>4, <1>5, <2>1 DEF Units
    <3> QED BY <1>4, <3>1
  <2>2. buffer' = [i \in 1 .. length |-> cells[Job.src + offset + i - 1]]
    BY <1>1 DEF length
  <2>3. buffer' \in [1 .. length -> Contents]
    BY <2>1, <2>2
  <2> QED BY <1>5, <2>2, <2>3
<1>7. BootFlashTypeOK'
  BY <1>1, <1>2, <1>4, <1>5, <1>6 DEF FlashInv, BootFlashTypeOK
<1>8. CopyInv'
  <2>1. Copied(offset + 0) /\ offset + 0 = offset
    BY <1>1, <1>4 DEF FlashInv, CopyInv
  <2>2. Copied(offset + written)'
    BY <1>1, <1>2, <2>1 DEF Copied
  <2>3. \A i \in 1 .. Len(buffer') : buffer'[i] = cells'[Job.src + offset + i - 1]
    BY <1>1, <1>6
  <2> QED BY <1>1, <1>2, <1>6, <2>2, <2>3 DEF CopyInv
<1> QED BY <1>1, <1>2, <1>4, <1>7, <1>8
    DEF FlashInv, KindInv, Working, DriverInv, LoopInv, EraseInv, RecordInv

LEMMA CopyDoneStep == ASSUME FlashInv, CopyDone PROVE FlashInv' /\ Job.kind = "copy"
<1>1. /\ pc = "copy" /\ ~ (offset < Job.bytes)
      /\ pc' = "returned" /\ buffer' = << >> /\ offset' = 0
      /\ UNCHANGED <<cells, driver_open, g_flash_open, call, block, blocks, written>>
  BY DEF CopyDone, MoreToCopy
<1>2. call \in 1 .. Len(Calls) /\ IsJob(Job) /\ Job.kind = "copy" /\ Job' = Job
  BY <1>1, JobNow DEF FlashInv, KindInv, Working, Job
<1>3. Job.bytes = BOOT_SLOT_SECTOR_SIZE /\ offset \in Nat /\ Copied(offset) /\ blocks = 0 /\ written = 0
  BY <1>1, <1>2 DEF IsJob, FlashInv, BootFlashTypeOK, CopyInv, LoopInv
<1>4. Copied(BOOT_SLOT_SECTOR_SIZE)
  <2>1. \A i \in 0 .. BOOT_SLOT_SECTOR_SIZE - 1 : i < offset /\ i < BOOT_SLOT_SECTOR_SIZE
    BY <1>1, <1>3, SizesNat
  <2> QED BY <1>3, <2>1 DEF Copied
<1>5. BootFlashTypeOK'
  BY <1>1, <1>2, <1>3 DEF FlashInv, BootFlashTypeOK
<1> QED BY <1>1, <1>2, <1>3, <1>4, <1>5
    DEF FlashInv, KindInv, Working, DriverInv, LoopInv, EraseInv, RecordInv, CopyInv, Copied

\* What happens at the destination does not reach the source.
LEMMA SourceApart ==
  ASSUME NEW job, IsJob(job), job.kind = "copy",
         NEW u \in Extent(job.dest, job.bytes), NEW i \in 0 .. BOOT_SLOT_SECTOR_SIZE - 1
  PROVE  job.src + i # u
<1>1. job.dest \in Areas /\ job.src \in Areas /\ job.dest # job.src /\ job.bytes = BOOT_SLOT_SECTOR_SIZE
  BY DEF IsJob
<1>2. job.dest \in Nat /\ job.src \in Nat
  BY <1>1, AreaFacts
<1>3. Apart(job.dest, BOOT_SLOT_SECTOR_SIZE, job.src, BOOT_SLOT_SECTOR_SIZE)
  BY <1>1, AreasApart
<1> QED BY <1>1, <1>2, <1>3, SizesNat DEF Apart, Extent

LEMMA ProgramStep == ASSUME FlashInv, ProgramUnit PROVE FlashInv'
<1>1. /\ pc = "write" /\ written < Len(buffer)
      /\ cells' = [cells EXCEPT ![Target] = IF @ = Blank \/ Target \in Log THEN buffer[written + 1] ELSE Torn]
      /\ written' = written + 1
      /\ UNCHANGED <<driver_open, g_flash_open, pc, call, block, blocks, offset, buffer>>
  BY DEF ProgramUnit
<1>2. call \in 1 .. Len(Calls) /\ IsJob(Job) /\ Job.kind \in {"copy", "write"} /\ Job' = Job
  BY <1>1, JobNow DEF FlashInv, KindInv, Working, Job, IsJob
<1>3. /\ offset \in Nat /\ written \in Nat
      /\ Target \in Extent(Job.dest, Job.bytes) /\ Target \in Units
      /\ cells[Target] = Blank \/ Target \in Log
      /\ Job.kind = "copy" => offset + written < BOOT_SLOT_SECTOR_SIZE /\ cells[Target] = Blank
  BY <1>1, TargetInJob
<1>4. cells \in [Units -> Contents] /\ buffer \in Seq(Contents) /\ written + 1 \in 1 .. Len(buffer)
  BY <1>1, <1>3 DEF FlashInv, BootFlashTypeOK
<1>5. cells' = [cells EXCEPT ![Target] = buffer[written + 1]]
  BY <1>1, <1>3, <1>4
<1>6. cells' \in [Units -> Contents]
  <2>1. buffer[written + 1] \in Contents
    BY <1>4, ElementOfSeq
  <2> HIDE DEF Target
  <2> QED BY <1>4, <1>5, <2>1
<1>7. cells'[Target] = buffer[written + 1] /\ \A u \in Units : u # Target => cells'[u] = cells[u]
  BY <1>3, <1>4, <1>5
<1>8. Job.dest \in Nat /\ Job.bytes \in Nat \ {0} /\ Job.dest + Job.bytes <= FLASH_END /\ FLASH_END \in Nat
  BY <1>2, DataFlash DEF IsJob
<1>9. BootFlashTypeOK'
  <2>1. written' \in 0 .. Len(buffer')
    BY <1>1, <1>3, <1>4
  <2> QED BY <1>1, <1>2, <1>6, <2>1 DEF FlashInv, BootFlashTypeOK
<1>10. RecordInv'
  <2> SUFFICES ASSUME Job.kind = "write"
               PROVE  /\ offset = 0 /\ buffer = [i \in 1 .. Job.bytes |-> FromRam]
                      /\ Job.dest = BOOT_RECORD_ADDRESS => Blanked(Job.dest + written, Job.bytes - written)'
    BY <1>1, <1>2 DEF RecordInv
  <2>1. /\ offset = 0 /\ buffer = [i \in 1 .. Job.bytes |-> FromRam]
        /\ Job.dest = BOOT_RECORD_ADDRESS => Blanked(Job.dest + written, Job.bytes - written)
    BY <1>1 DEF FlashInv, RecordInv
  <2>2. ASSUME Job.dest = BOOT_RECORD_ADDRESS,
               NEW u \in Extent(Job.dest + (written + 1), Job.bytes - (written + 1))
        PROVE  cells'[u] = Blank
    <3>1. u \in Extent(Job.dest + written, Job.bytes - written) /\ u # Target /\ u \in Units
      <4>1. offset = 0 /\ Job.dest \in Nat /\ Job.bytes \in Nat /\ written \in Nat
        BY <1>3, <1>8, <2>1
      <4>2. u \in Int /\ u >= Job.dest + written + 1 /\ u < Job.dest + Job.bytes
        BY <2>2, <4>1 DEF Extent
      <4> QED BY <1>8, <4>1, <4>2 DEF Extent, Target, Units
    <3> QED BY <1>7, <2>1, <2>2, <3>1 DEF Blanked
  <2> QED BY <1>1, <1>2, <2>1, <2>2 DEF Blanked
<1>11. CopyInv'
  <2> SUFFICES ASSUME Job.kind = "copy"
               PROVE  /\ offset < Job.bytes
                      /\ Len(buffer) = ChunkLength(Job.bytes - offset)
                      /\ \A i \in 1 .. Len(buffer) : buffer[i] = cells'[Job.src + offset + i - 1]
                      /\ Copied(offset + written)'
    BY <1>1, <1>2 DEF CopyInv
  <2>1. /\ offset < Job.bytes
        /\ Len(buffer) = ChunkLength(Job.bytes - offset)
        /\ \A i \in 1 .. Len(buffer) : buffer[i] = cells[Job.src + offset + i - 1]
        /\ Copied(offset + written)
    BY <1>1 DEF FlashInv, CopyInv
  <2>2. Job.src \in Nat /\ Job.bytes = BOOT_SLOT_SECTOR_SIZE /\ Job.src + Job.bytes <= FLASH_END
    <3>1. Job.src \in Areas /\ Job.bytes = BOOT_SLOT_SECTOR_SIZE
      BY <1>2 DEF IsJob
    <3> QED BY <3>1, AreaFacts, DataFlash, SizesNat
  <2>3. ASSUME NEW i \in 0 .. BOOT_SLOT_SECTOR_SIZE - 1
        PROVE  Job.src + i \in Units /\ cells'[Job.src + i] = cells[Job.src + i]
    <3>1. Job.src + i \in Units
      BY <1>8, <2>2, SizesNat DEF Units
    <3>2. Job.src + i # Target
      BY <1>2, <1>3, SourceApart
    <3> QED BY <1>7, <3>1, <3>2
  <2>4. Len(buffer) \in Nat /\ Len(buffer) <= Job.bytes - offset
    <3>1. Job.bytes - offset \in Nat \ {0}
      BY <1>3, <1>8, <2>1
    <3> QED BY <2>1, <3>1, ChunkFits
  <2>5. ASSUME NEW i \in 1 .. Len(buffer) PROVE buffer[i] = cells'[Job.src + offset + i - 1]
    <3>1. offset + i - 1 \in 0 .. BOOT_SLOT_SECTOR_SIZE - 1
          /\ Job.src + (offset + i - 1) = Job.src + offset + i - 1
      <4>1. i \in Nat /\ i >= 1 /\ i <= BOOT_SLOT_SECTOR_SIZE - offset
        BY <1>3, <2>2, <2>4, SizesNat, SMTT(30)
      <4>2. offset \in Nat /\ Job.src \in Nat /\ BOOT_SLOT_SECTOR_SIZE \in Nat
        BY <1>3, <2>2, SizesNat
      <4>3. offset + i - 1 \in 0 .. BOOT_SLOT_SECTOR_SIZE - 1
        BY <4>1, <4>2
      <4>4. Job.src + (offset + i - 1) = Job.src + offset + i - 1
        BY <4>1, <4>2
      <4> QED BY <4>3, <4>4
    <3> QED BY <2>1, <2>3, <3>1
  <2>6. buffer[written + 1] = cells[Job.src + (offset + written)]
    <3>1. Job.src + offset + (written + 1) - 1 = Job.src + (offset + written)
      BY <1>3, <2>2
    <3> QED BY <1>4, <2>1, <3>1
  <2>7. ASSUME NEW i \in 0 .. BOOT_SLOT_SECTOR_SIZE - 1
        PROVE  cells'[Job.dest + i] = IF i < offset + (written + 1) THEN cells'[Job.src + i] ELSE Blank
    <3>1. Job.dest + i \in Units /\ Target = Job.dest + (offset + written)
      BY <1>3, <1>8, <2>2, SizesNat DEF Units, Target
    <3>2. CASE i = offset + written
      <4>1. i < offset + (written + 1)
        BY <1>3, <3>2
      <4>2. cells'[Job.dest + i] = cells[Job.src + i]
        BY <1>7, <2>6, <3>1, <3>2
      <4> QED BY <2>3, <4>1, <4>2
    <3>3. CASE i # offset + written
      <4>1. Job.dest + i # Target /\ (i < offset + (written + 1) <=> i < offset + written)
        BY <1>3, <1>8, <3>1, <3>3, SizesNat
      <4>2. cells'[Job.dest + i] = cells[Job.dest + i]
        BY <1>7, <3>1, <4>1
      <4> QED BY <2>1, <2>3, <4>1, <4>2 DEF Copied
    <3> QED BY <3>2, <3>3
  <2> QED BY <1>1, <1>2, <2>1, <2>5, <2>7 DEF Copied
<1> QED BY <1>1, <1>2, <1>9, <1>10, <1>11
    DEF FlashInv, KindInv, Working, DriverInv, LoopInv, EraseInv

LEMMA WriteDoneStep == ASSUME FlashInv, WriteDone PROVE FlashInv'
<1>1. /\ pc = "write" /\ written = Len(buffer)
      /\ buffer' = << >> /\ written' = 0
      /\ UNCHANGED <<cells, driver_open, g_flash_open, call, block, blocks>>
  BY DEF WriteDone
<1>2. call \in 1 .. Len(Calls) /\ IsJob(Job) /\ Job.kind \in {"copy", "write"} /\ Job' = Job
  BY <1>1, JobNow DEF FlashInv, KindInv, Working, Job, IsJob
<1>3. offset \in Nat /\ blocks = 0 /\ BOOT_FLASH_CHUNK \in Nat
  BY <1>1, SizesNat DEF FlashInv, BootFlashTypeOK, LoopInv
<1>4. CASE Job.kind = "copy"
  <2>1. pc' = "copy" /\ offset' = offset + BOOT_FLASH_CHUNK /\ offset' \in Nat
    BY <1>3, <1>4 DEF WriteDone
  <2>2. BootFlashTypeOK'
    BY <1>1, <1>2, <2>1 DEF FlashInv, BootFlashTypeOK
  <2>3. Copied(offset)'
    <3>1. Job.bytes = BOOT_SLOT_SECTOR_SIZE /\ offset < Job.bytes /\ BOOT_SLOT_SECTOR_SIZE \in Nat
          /\ written = ChunkLength(Job.bytes - offset) /\ Copied(offset + written)
      BY <1>1, <1>2, <1>4, SizesNat DEF FlashInv, CopyInv, IsJob
    <3>2. Job.bytes - offset \in Nat \ {0}
      BY <1>3, <3>1
    <3>3. (written = Job.bytes - offset /\ written <= BOOT_FLASH_CHUNK) \/ written = BOOT_FLASH_CHUNK
      BY <3>1, <3>2, ChunkFits
    <3>4. \A i \in 0 .. BOOT_SLOT_SECTOR_SIZE - 1 : i < offset' <=> i < offset + written
      BY <1>3, <2>1, <3>1, <3>3
    <3> QED BY <1>1, <1>2, <3>1, <3>4 DEF Copied
  <2> QED BY <1>1, <1>2, <1>3, <1>4, <2>1, <2>2, <2>3
      DEF FlashInv, KindInv, Working, DriverInv, LoopInv, EraseInv, RecordInv, CopyInv
<1>5. CASE Job.kind = "write"
  <2>1. pc' = "returned" /\ offset' = offset /\ offset = 0
    BY <1>1, <1>5 DEF WriteDone, FlashInv, RecordInv
  <2>2. BootFlashTypeOK'
    BY <1>1, <1>2, <2>1 DEF FlashInv, BootFlashTypeOK
  <2> QED BY <1>1, <1>2, <1>3, <1>5, <2>1, <2>2
      DEF FlashInv, KindInv, Working, DriverInv, LoopInv, EraseInv, RecordInv, CopyInv
<1> QED BY <1>2, <1>4, <1>5

LEMMA ProceedStep == ASSUME FlashInv, Proceed PROVE FlashInv'
<1>1. /\ pc = "returned" /\ pc' = "idle" /\ call' = call + 1
      /\ UNCHANGED <<cells, driver_open, g_flash_open, block, blocks, offset, buffer, written>>
  BY DEF Proceed
<1>2. call \in 1 .. Len(Calls) /\ Len(Calls) \in Nat
  BY <1>1, JobNow, CallsAre DEF Working
<1>3. blocks = 0 /\ offset = 0 /\ buffer = << >> /\ written = 0
  BY <1>1 DEF FlashInv, LoopInv
<1>4. BootFlashTypeOK'
  BY <1>1, <1>2 DEF FlashInv, BootFlashTypeOK
<1>5. RecordInv'
  <2> SUFFICES ASSUME call + 1 <= Len(Calls), Calls[call + 1] = WriteOf(BOOT_RECORD_ADDRESS, DF_BLOCK_SIZE)
               PROVE  \A u \in Extent(BOOT_RECORD_ADDRESS, DF_BLOCK_SIZE) : cells[u] = Blank
    BY <1>1 DEF RecordInv, Job, Blanked, WriteOf
  <2>1. call + 1 \in 1 .. Len(Calls) /\ (call + 1) - 1 = call
    BY <1>2
  <2>2. Calls[call] = EraseOf(BOOT_RECORD_ADDRESS)
    BY <2>1, JobFacts
  <2>3. Job.kind = "erase" /\ Job.dest = BOOT_RECORD_ADDRESS /\ Job.bytes = DF_BLOCK_SIZE
    BY <2>2 DEF Job, EraseOf
  <2> QED BY <1>1, <2>3 DEF FlashInv, RecordInv, Blanked
<1> QED BY <1>1, <1>3, <1>4, <1>5
    DEF FlashInv, KindInv, Working, DriverInv, LoopInv, EraseInv, CopyInv

LEMMA CloseStep == ASSUME FlashInv, boot_flash_close PROVE FlashInv'
<1>1. /\ pc \in {"stopped", "idle"} /\ pc' = "closed" /\ g_flash_open' = FALSE /\ driver_open' = FALSE
      /\ UNCHANGED <<cells, call, block, blocks, offset, buffer, written>>
  BY DEF boot_flash_close, FlashInv, DriverInv, BootFlashTypeOK
<1>2. blocks = 0 /\ offset = 0 /\ buffer = << >> /\ written = 0
  BY <1>1 DEF FlashInv, LoopInv
<1>3. BootFlashTypeOK'
  BY <1>1, <1>2 DEF FlashInv, BootFlashTypeOK
<1> QED BY <1>1, <1>2, <1>3
    DEF FlashInv, KindInv, Working, DriverInv, LoopInv, EraseInv, RecordInv, CopyInv

\* An interrupted driver leaves debris in the destination of the call, and nowhere else.
LEMMA TearType == ASSUME FlashInv, Tear PROVE cells' \in [Units -> Contents]
<1>1. cells \in [Units -> Contents] /\ Torn \in Contents
  BY DEF FlashInv, BootFlashTypeOK, Contents
<1> QED BY <1>1 DEF Tear

LEMMA FlashStep == ASSUME FlashInv, [Next]_flash_vars PROVE FlashInv'
<1>1. CASE OpenFails
  BY <1>1, CutOff DEF OpenFails, Stop, FlashInv, BootFlashTypeOK, DriverInv
<1>2. CASE DriverError
  BY <1>2, CutOff, TearType DEF DriverError, Stop, FlashInv, BootFlashTypeOK, DriverInv
<1>3. CASE Reset
  BY <1>3, CutOff, TearType DEF Reset
<1>4. CASE UNCHANGED flash_vars
  BY <1>4 DEF flash_vars, FlashInv, BootFlashTypeOK, KindInv, Working, DriverInv, LoopInv,
              EraseInv, RecordInv, CopyInv, Copied, Blanked, Job
<1> QED BY <1>1, <1>2, <1>3, <1>4, CallStep, EraseStep, EraseBlockStep, EraseDoneStep, CopyChunkStep,
           CopyDoneStep, ProgramStep, WriteDoneStep, ProceedStep, CloseStep DEF Next

\* The invariant holds in every state.
LEMMA FlashInvariant == Spec => []FlashInv
<1>1. Init => FlashInv
  BY InitFlash
<1>2. FlashInv /\ [Next]_flash_vars => FlashInv'
  BY FlashStep
<1> QED BY <1>1, <1>2, PTL DEF Spec

-------------------------------------------------------------------------------
(* What is stated of it. *)

(* Every variable of the copy keeps to its values: no unit outside the     *)
(* flash map is programmed, and no chunk is longer than g_chunk.           *)
THEOREM FlashTypes == Spec => []BootFlashTypeOK
<1>1. FlashInv => BootFlashTypeOK
  BY DEF FlashInv
<1> QED BY <1>1, FlashInvariant, PTL

(* The driver is open whenever it works, and closed at the hand-over,      *)
(* whatever fails on the way (boot_flash_open, boot_flash_close).          *)
THEOREM DriverClosed == Spec => []ClosedAtHandOver
<1>1. FlashInv => ClosedAtHandOver
  BY DEF FlashInv, DriverInv, ClosedAtHandOver
<1> QED BY <1>1, FlashInvariant, PTL

\* Where an interrupted driver was at work.
LEMMA TearPlace ==
  ASSUME FlashInv, Tear
  PROVE  \/ UNCHANGED cells
         \/ /\ pc \in {"erasing", "write"} /\ call \in 1 .. Len(Calls) /\ IsJob(Job)
            /\ \A u \in Units : cells'[u] # cells[u] => u \in Extent(Job.dest, Job.bytes)
            /\ \E u \in Extent(Job.dest, Job.bytes) : cells'[u] = Torn
<1> SUFFICES ASSUME ~ UNCHANGED cells
             PROVE  /\ pc \in {"erasing", "write"} /\ call \in 1 .. Len(Calls) /\ IsJob(Job)
                    /\ \A u \in Units : cells'[u] # cells[u] => u \in Extent(Job.dest, Job.bytes)
                    /\ \E u \in Extent(Job.dest, Job.bytes) : cells'[u] = Torn
  OBVIOUS
<1>1. pc \in {"erasing", "write"}
  BY DEF Tear
<1>2. call \in 1 .. Len(Calls) /\ IsJob(Job)
  BY <1>1, JobNow DEF Working
<1>3. cells \in [Units -> Contents]
  BY DEF FlashInv, BootFlashTypeOK
<1>4. CASE pc = "erasing"
  <2>1. blocks > 0 /\ cells' = [u \in Units |-> IF u \in BlockAt(block) THEN Torn ELSE cells[u]]
    BY <1>4 DEF Tear
  <2>2. /\ BlockAt(block) \subseteq Extent(Job.dest, Job.bytes)
        /\ block \in BlockAt(block)
    <3>1. /\ Region(Job.dest).block \in Nat \ {0} /\ block \in Nat
          /\ BlockAt(block) = Extent(block, Region(Job.dest).block)
          /\ BlockAt(block) \subseteq Extent(Job.dest, Job.bytes)
      BY <1>4, <2>1, BlockInJob
    <3> QED BY <3>1 DEF Extent
  <2>3. Extent(Job.dest, Job.bytes) \subseteq Units
    BY <1>2, ExtentInFlash DEF IsJob
  <2> QED BY <1>1, <1>2, <2>1, <2>2, <2>3
<1>5. CASE pc = "write"
  <2>1. written < Len(buffer) /\ cells' = [cells EXCEPT ![Target] = Torn]
    BY <1>5 DEF Tear
  <2>2. Target \in Extent(Job.dest, Job.bytes) /\ Target \in Units
    BY <1>5, <2>1, TargetInJob
  <2> HIDE DEF Target
  <2> QED BY <1>1, <1>2, <1>3, <2>1, <2>2
<1> QED BY <1>1, <1>4, <1>5

\* Which steps change the flash, and where.
LEMMA CellsStep ==
  ASSUME FlashInv, [Next]_flash_vars, ~ UNCHANGED cells
  PROVE  /\ EraseBlock \/ ProgramUnit \/ ((DriverError \/ Reset) /\ Tear)
         /\ call \in 1 .. Len(Calls) /\ IsJob(Job)
         /\ \A u \in Units : cells'[u] # cells[u] => u \in Extent(Job.dest, Job.bytes)
<1>1. EraseBlock \/ ProgramUnit \/ ((DriverError \/ Reset) /\ Tear)
  BY DEF Next, flash_vars, Call, boot_flash_erase, EraseDone, CopyChunk, CopyDone, WriteDone, Proceed,
         boot_flash_close, OpenFails, DriverError, Reset
<1>2. CASE EraseBlock
  <2>1. pc = "erasing" /\ blocks > 0
        /\ cells' = [u \in Units |-> IF u \in BlockAt(block) THEN Blank ELSE cells[u]]
    BY <1>2 DEF EraseBlock
  <2>2. BlockAt(block) \subseteq Extent(Job.dest, Job.bytes)
    BY <2>1, BlockInJob
  <2> QED BY <1>1, <2>1, <2>2, JobNow DEF Working
<1>3. CASE ProgramUnit
  <2>1. /\ pc = "write" /\ written < Len(buffer)
        /\ \E v : cells' = [cells EXCEPT ![Target] = v]
    BY <1>3 DEF ProgramUnit
  <2>2. Target \in Extent(Job.dest, Job.bytes) /\ cells \in [Units -> Contents]
    BY <2>1, TargetInJob DEF FlashInv, BootFlashTypeOK
  <2> HIDE DEF Target
  <2>3. \A u \in Units : cells'[u] # cells[u] => u \in Extent(Job.dest, Job.bytes)
    BY <2>1, <2>2
  <2> QED BY <1>1, <2>1, <2>3, JobNow DEF Working
<1>4. CASE Tear
  BY <1>1, <1>4, TearPlace
<1> QED BY <1>1, <1>2, <1>3, <1>4

(* Nothing outside the destination of the call that is made is erased or   *)
(* programmed, by the driver at work or by a driver cut off, in either     *)
(* region of code flash and in the data flash (boot_flash_erase,           *)
(* boot_flash_write).                                                      *)
THEOREM DestinationOnly == Spec => OnlyDestination
<1>1. ASSUME FlashInv, [Next]_flash_vars
      PROVE  \A u \in Units : cells'[u] # cells[u] =>
                call <= Len(Calls) /\ u \in Extent(Job.dest, Job.bytes)
  BY <1>1, CellsStep, CallsAre
<1>2. FlashInv /\ [Next]_flash_vars =>
        [\A u \in Units : cells'[u] # cells[u] =>
            call <= Len(Calls) /\ u \in Extent(Job.dest, Job.bytes)]_flash_vars
  BY <1>1
<1> QED BY <1>2, FlashInvariant, PTL DEF Spec, OnlyDestination

(* A unit is blank when it is programmed, not torn by a call cut off       *)
(* before, after whatever sequence of calls cut off and taken up again;    *)
(* log entries excepted (boot_flash_copy, boot_record_commit).             *)
THEOREM ErasedFirst == Spec => ProgrammedOnErased
<1>1. ASSUME FlashInv, [Next]_flash_vars, written' = written + 1
      PROVE  cells[Target] = Blank \/ Target \in Log
  <2>1. written \in Nat
    BY <1>1 DEF FlashInv, BootFlashTypeOK
  <2>2. written' # written /\ written' # 0
    BY <1>1, <2>1
  <2>3. ProgramUnit
    BY <1>1, <2>2 DEF Next, Call, boot_flash_erase, EraseBlock, EraseDone, CopyChunk, CopyDone, WriteDone,
                      Proceed, boot_flash_close, OpenFails, DriverError, Reset, Stop, Locals, flash_vars
  <2>4. pc = "write" /\ written < Len(buffer)
    BY <2>3 DEF ProgramUnit
  <2> QED BY <1>1, <2>4, TargetInJob
<1>2. FlashInv /\ [Next]_flash_vars =>
        [written' = written + 1 => cells[Target] = Blank \/ Target \in Log]_flash_vars
  BY <1>1
<1> QED BY <1>2, FlashInvariant, PTL DEF Spec, ProgrammedOnErased

-------------------------------------------------------------------------------
(* A leg is the copy BootSwap takes it to be. *)

\* The refinement mapping of BootFlash, named.
HoldsBar == [a \in Areas |-> Holds(a)]
JobBar == IF pc \in {"idle", "stopped", "closed"} \/ Job.kind # "copy" THEN << >> ELSE <<Job.dest, Job.src>>
CopiedBar == pc = "returned" /\ Job.kind = "copy"

\* An area holds debris as soon as one unit of it is erased or torn.
LEMMA DebrisHeld ==
  ASSUME NEW a \in Areas, NEW u \in Extent(a, BOOT_SLOT_SECTOR_SIZE), cells[u] \in {Blank, Torn}
  PROVE  Holds(a) = Debris
  BY DEF Holds, Blank, Torn

\* Holds, of a memory that is named.
HeldIn(memory, area) ==
  IF \E u \in Extent(area, BOOT_SLOT_SECTOR_SIZE) : memory[u] < 0 THEN Debris
  ELSE [i \in 0 .. BOOT_SLOT_SECTOR_SIZE - 1 |-> memory[area + i]]

LEMMA HeldAlike ==
  ASSUME NEW memory, NEW a \in Areas, NEW b \in Areas,
         \A i \in 0 .. BOOT_SLOT_SECTOR_SIZE - 1 : memory[a + i] = memory[b + i]
  PROVE  HeldIn(memory, a) = HeldIn(memory, b)
<1> DEFINE S == BOOT_SLOT_SECTOR_SIZE
           Broken(x) == \E u \in Extent(x, S) : memory[u] < 0
<1>1. a \in Nat /\ b \in Nat /\ S \in Nat
  BY AreaFacts, SizesNat
<1>2. ASSUME NEW x \in Nat PROVE Broken(x) <=> \E i \in 0 .. S - 1 : memory[x + i] < 0
  <2>1. ASSUME NEW u \in Extent(x, S) PROVE u - x \in 0 .. S - 1 /\ x + (u - x) = u
    BY <1>1, <1>2, <2>1 DEF Extent
  <2>2. ASSUME NEW i \in 0 .. S - 1 PROVE x + i \in Extent(x, S)
    BY <1>1, <1>2, <2>2 DEF Extent
  <2> QED BY <2>1, <2>2
<1>3. Broken(a) <=> Broken(b)
  BY <1>1, <1>2
<1>4. [i \in 0 .. S - 1 |-> memory[a + i]] = [i \in 0 .. S - 1 |-> memory[b + i]]
  OBVIOUS
<1> QED BY <1>3, <1>4 DEF HeldIn

LEMMA HeldStill ==
  ASSUME NEW a \in Areas, \A u \in Extent(a, BOOT_SLOT_SECTOR_SIZE) : cells'[u] = cells[u]
  PROVE  Holds(a)' = Holds(a)
<1>1. \A i \in 0 .. BOOT_SLOT_SECTOR_SIZE - 1 : a + i \in Extent(a, BOOT_SLOT_SECTOR_SIZE)
  BY AreaFacts, SizesNat DEF Extent
<1>2. [i \in 0 .. BOOT_SLOT_SECTOR_SIZE - 1 |-> cells'[a + i]] = [i \in 0 .. BOOT_SLOT_SECTOR_SIZE - 1 |-> cells[a + i]]
  BY <1>1
<1> QED BY <1>2 DEF Holds

\* A call reaches no area but the destination of a copy.
LEMMA OtherAreas ==
  ASSUME FlashInv, [Next]_flash_vars, NEW a \in Areas,
         pc \in Working /\ Job.kind = "copy" => a # Job.dest
  PROVE  Holds(a)' = Holds(a)
<1>1. CASE UNCHANGED cells
  BY <1>1, HeldStill
<1>2. CASE ~ UNCHANGED cells
  <2>1. /\ IsJob(Job) /\ pc \in Working
        /\ \A u \in Units : cells'[u] # cells[u] => u \in Extent(Job.dest, Job.bytes)
    <3>1. EraseBlock \/ ProgramUnit \/ Tear
      BY <1>2, CellsStep
    <3>2. pc \in Working
      BY <1>2, <3>1 DEF EraseBlock, ProgramUnit, Tear, Working
    <3> QED BY <1>2, <3>2, CellsStep
  <2>2. a \in Nat /\ a + BOOT_SLOT_SECTOR_SIZE <= DATA_FLASH_START /\ BOOT_SLOT_SECTOR_SIZE \in Nat
    BY AreaFacts, SizesNat
  <2>3. ASSUME NEW u \in Extent(a, BOOT_SLOT_SECTOR_SIZE) PROVE u \notin Extent(Job.dest, Job.bytes)
    <3>1. CASE Job.kind = "copy"
      <4>1. Job.dest \in Areas /\ Job.bytes = BOOT_SLOT_SECTOR_SIZE /\ a # Job.dest
        BY <2>1, <3>1 DEF IsJob
      <4>2. Apart(a, BOOT_SLOT_SECTOR_SIZE, Job.dest, BOOT_SLOT_SECTOR_SIZE) /\ Job.dest \in Nat
        BY <4>1, AreasApart, AreaFacts
      <4> QED BY <2>2, <2>3, <4>1, <4>2 DEF Apart, Extent
    <3>2. CASE Job.kind # "copy"
      <4>1. Job.dest >= BOOT_RECORD_ADDRESS /\ Job.dest \in Nat /\ Job.bytes \in Nat
        BY <2>1, <3>2, DataFlash, SizesNat DEF IsJob, WriteOf
      <4> QED BY <2>2, <2>3, <4>1, DataFlash, SizesNat DEF Extent
    <3> QED BY <3>1, <3>2
  <2>4. Extent(a, BOOT_SLOT_SECTOR_SIZE) \subseteq Units
    BY <2>2, DataFlash, SizesNat DEF Extent, Units
  <2>5. \A u \in Extent(a, BOOT_SLOT_SECTOR_SIZE) : cells'[u] = cells[u]
    BY <2>1, <2>3, <2>4
  <2> QED BY <2>5, HeldStill
<1> QED BY <1>1, <1>2

\* While a copy is made, only its destination changes, into debris or into the source.
LEMMA CopyTouches ==
  ASSUME FlashInv, [Next]_flash_vars, pc \in Working, Job.kind = "copy",
         NEW d \in Areas, d = Job.dest, Holds(d)' \in {Debris, Holds(Job.src)}
  PROVE  \E v \in {Debris, HoldsBar[Job.src]} : HoldsBar' = [HoldsBar EXCEPT ![Job.dest] = v]
<1>1. Job.src \in Areas
  BY JobNow DEF IsJob
<1>2. \A a \in Areas : a # d => Holds(a)' = Holds(a)
  BY OtherAreas
<1>3. PICK w \in {Debris, Holds(Job.src)} : Holds(d)' = w
  OBVIOUS
<1>4. \A a \in Areas : Holds(a)' = IF a = d THEN w ELSE Holds(a)
  BY <1>2, <1>3
<1>5. HoldsBar' = [a \in Areas |-> IF a = d THEN w ELSE Holds(a)]
  BY <1>4 DEF HoldsBar
<1>6. HoldsBar' = [HoldsBar EXCEPT ![d] = w]
  BY <1>5 DEF HoldsBar
<1>7. HoldsBar[Job.src] = Holds(Job.src)
  BY <1>1 DEF HoldsBar
<1> QED BY <1>3, <1>6, <1>7

\* A call that is no copy, and a step that changes no unit, change no area.
LEMMA AreasStill ==
  ASSUME FlashInv, [Next]_flash_vars, UNCHANGED cells \/ ~ (pc \in Working /\ Job.kind = "copy")
  PROVE  HoldsBar' = HoldsBar
<1>1. ASSUME NEW a \in Areas PROVE Holds(a)' = Holds(a)
  BY HeldStill, OtherAreas
<1> QED BY <1>1 DEF HoldsBar

\* The copy as SectorCopy has it, in the names of the mapping.
Touching == HoldsBar' = HoldsBar
            \/ \E v \in {Debris, HoldsBar[JobBar[2]]} : HoldsBar' = [HoldsBar EXCEPT ![JobBar[1]] = v]

BeginBar == /\ JobBar = << >>
            /\ JobBar' \in {<<d, s>> : d \in Areas, s \in Areas} /\ JobBar'[1] # JobBar'[2]
            /\ UNCHANGED <<HoldsBar, CopiedBar>>
WorkBar == JobBar # << >> /\ ~ CopiedBar /\ Touching /\ UNCHANGED <<JobBar, CopiedBar>>
FinishBar == /\ JobBar # << >> /\ HoldsBar[JobBar[1]] = HoldsBar[JobBar[2]]
             /\ CopiedBar' = TRUE /\ UNCHANGED <<HoldsBar, JobBar>>
ReturnBar == CopiedBar /\ JobBar' = << >> /\ CopiedBar' = FALSE /\ UNCHANGED HoldsBar
AbandonBar == JobBar # << >> /\ Touching /\ JobBar' = << >> /\ CopiedBar' = FALSE
StutterBar == UNCHANGED <<HoldsBar, JobBar, CopiedBar>>
StepBar == BeginBar \/ WorkBar \/ FinishBar \/ ReturnBar \/ AbandonBar \/ StutterBar

LEMMA BarStep == ASSUME StepBar PROVE Copying!Next \/ UNCHANGED Copying!copy_vars
<1>1. BeginBar => Copying!Begin
  BY DEF BeginBar, Copying!Begin, HoldsBar, JobBar, CopiedBar
<1>2. Touching => Copying!Touched
  BY DEF Touching, Copying!Touched, HoldsBar, JobBar
<1>3. WorkBar => Copying!Work
  BY <1>2 DEF WorkBar, Copying!Work, JobBar, CopiedBar
<1>4. FinishBar => Copying!Finish
  BY DEF FinishBar, Copying!Finish, HoldsBar, JobBar, CopiedBar
<1>5. ReturnBar => Copying!Return
  BY DEF ReturnBar, Copying!Return, HoldsBar, JobBar, CopiedBar
<1>6. AbandonBar => Copying!Abandon
  BY <1>2 DEF AbandonBar, Copying!Abandon, JobBar, CopiedBar
<1>7. StutterBar => UNCHANGED Copying!copy_vars
  BY DEF StutterBar, Copying!copy_vars, HoldsBar, JobBar, CopiedBar
<1> QED BY <1>1, <1>3, <1>4, <1>5, <1>6, <1>7 DEF StepBar, Copying!Next

LEMMA CopyGoingOn ==
  ASSUME FlashInv, pc \in Working, Job.kind = "copy"
  PROVE  /\ JobBar = <<Job.dest, Job.src>> /\ JobBar # << >>
         /\ Job.dest \in Areas /\ Job.src \in Areas /\ Job.dest # Job.src
         /\ Job.bytes = BOOT_SLOT_SECTOR_SIZE /\ IsJob(Job)
<1>1. IsJob(Job)
  BY JobNow
<1> QED BY <1>1 DEF IsJob, JobBar, Working

\* A step that leaves the call under way at work, and changes no unit.
LEMMA QuietStutter ==
  ASSUME FlashInv, [Next]_flash_vars, UNCHANGED <<cells, call>>,
         pc \in Working, pc' \in Working,
         Job.kind = "copy" => pc # "returned" /\ pc' # "returned"
  PROVE  StutterBar
<1>1. HoldsBar' = HoldsBar
  BY AreasStill
<1>2. Job' = Job
  BY DEF Job
<1>3. JobBar' = JobBar
  BY <1>2 DEF JobBar, Working
<1>4. CopiedBar' = CopiedBar
  BY <1>2 DEF CopiedBar
<1> QED BY <1>1, <1>3, <1>4 DEF StutterBar

LEMMA CallMapping == ASSUME FlashInv, Call PROVE StepBar
<1>1. /\ pc = "idle" /\ cells' = cells /\ call' = call /\ Job' = Job /\ pc' \in {"erase", "write"}
      /\ call \in 1 .. Len(Calls)
  BY DEF Call, Job, FlashInv, BootFlashTypeOK
<1>2. HoldsBar' = HoldsBar
  BY <1>1, AreasStill DEF Next
<1>3. JobBar = << >> /\ CopiedBar' = CopiedBar
  BY <1>1 DEF JobBar, CopiedBar
<1>4. CASE Job.kind = "copy"
  <2>1. JobBar' = <<Job.dest, Job.src>>
    BY <1>1, <1>4 DEF JobBar
  <2>2. Job.dest \in Areas /\ Job.src \in Areas /\ Job.dest # Job.src
    BY <1>1, <1>4, JobFacts DEF IsJob, Job
  <2> QED BY <1>2, <1>3, <2>1, <2>2 DEF BeginBar, StepBar
<1>5. CASE Job.kind # "copy"
  BY <1>1, <1>2, <1>3, <1>5 DEF JobBar, StutterBar, StepBar
<1> QED BY <1>4, <1>5

\* Steps of the driver on a call that is no copy.
LEMMA DriverStutter ==
  ASSUME FlashInv, [Next]_flash_vars, UNCHANGED <<pc, call>>, Job.kind # "copy"
  PROVE  StutterBar
<1>1. HoldsBar' = HoldsBar
  BY AreasStill
<1>2. Job' = Job
  BY DEF Job
<1> QED BY <1>1, <1>2 DEF StutterBar, JobBar, CopiedBar

LEMMA EraseMapping == ASSUME FlashInv, EraseBlock PROVE StepBar
<1>1. pc = "erasing" /\ pc' = pc /\ call' = call /\ Job' = Job
  BY DEF EraseBlock, Job
<1>2. CASE Job.kind # "copy"
  BY <1>1, <1>2, DriverStutter DEF Next, StepBar
<1>3. CASE Job.kind = "copy"
  <2>1. /\ JobBar = <<Job.dest, Job.src>> /\ JobBar # << >> /\ Job.dest \in Areas
        /\ Job.bytes = BOOT_SLOT_SECTOR_SIZE
    BY <1>1, <1>3, CopyGoingOn DEF Working
  <2>2. PICK d \in Areas : d = Job.dest
    BY <2>1
  <2>3. PICK u \in Extent(d, BOOT_SLOT_SECTOR_SIZE) : cells'[u] = Blank
    BY <2>1, <2>2, EraseBlockStep
  <2>4. Holds(d)' = Debris
    BY <2>3 DEF Holds, Blank
  <2>5. Touching
    BY <1>1, <1>3, <2>1, <2>2, <2>4, CopyTouches DEF Next, Working, Touching
  <2>6. JobBar' = JobBar /\ CopiedBar' = CopiedBar /\ ~ CopiedBar
    BY <1>1 DEF JobBar, CopiedBar
  <2> QED BY <2>1, <2>5, <2>6 DEF WorkBar, StepBar
<1> QED BY <1>2, <1>3

LEMMA ProgramMapping == ASSUME FlashInv, ProgramUnit PROVE StepBar
<1>1. pc = "write" /\ pc' = pc /\ call' = call /\ Job' = Job /\ written' = written + 1 /\ offset' = offset
      /\ written < Len(buffer)
  BY DEF ProgramUnit, Job
<1>2. CASE Job.kind # "copy"
  BY <1>1, <1>2, DriverStutter DEF Next, StepBar
<1>3. CASE Job.kind = "copy"
  <2>1. /\ JobBar = <<Job.dest, Job.src>> /\ JobBar # << >> /\ Job.dest \in Areas /\ Job.src \in Areas
        /\ Job.dest # Job.src
    BY <1>1, <1>3, CopyGoingOn DEF Working
  <2>2. PICK d \in Areas, s \in Areas : d = Job.dest /\ s = Job.src
    BY <2>1
  <2>3. \A i \in 0 .. BOOT_SLOT_SECTOR_SIZE - 1 :
           cells'[d + i] = IF i < offset + (written + 1) THEN cells'[s + i] ELSE Blank
    <3>1. FlashInv'
      BY ProgramStep
    <3>2. Copied(offset + written)'
      BY <1>1, <1>3, <3>1 DEF FlashInv, CopyInv
    <3> QED BY <1>1, <2>2, <3>2 DEF Copied
  <2>4. offset \in Nat /\ written \in Nat /\ d \in Nat /\ BOOT_SLOT_SECTOR_SIZE \in Nat
        /\ offset + written < BOOT_SLOT_SECTOR_SIZE
    BY <1>1, <1>3, TargetInJob, AreaFacts, SizesNat
  <2>5. Holds(d)' \in {Debris, Holds(s)}
    <3>1. CASE offset + (written + 1) < BOOT_SLOT_SECTOR_SIZE
      <4> DEFINE i == offset + (written + 1)
      <4>1. i \in 0 .. BOOT_SLOT_SECTOR_SIZE - 1 /\ ~ (i < i)
        BY <2>4, <3>1
      <4>2. cells'[d + i] = Blank
        BY <2>3, <4>1
      <4>3. d + i \in Extent(d, BOOT_SLOT_SECTOR_SIZE)
        BY <2>4, <4>1 DEF Extent
      <4>4. Holds(d)' = Debris
        BY <4>2, <4>3 DEF Holds, Blank
      <4> QED BY <4>4
    <3>2. CASE ~ (offset + (written + 1) < BOOT_SLOT_SECTOR_SIZE)
      <4>1. \A i \in 0 .. BOOT_SLOT_SECTOR_SIZE - 1 : i < offset + (written + 1)
        BY <2>4, <3>2
      <4>2. \A i \in 0 .. BOOT_SLOT_SECTOR_SIZE - 1 : cells'[d + i] = cells'[s + i]
        BY <2>3, <4>1
      <4>3. Holds(d)' = Holds(s)'
        BY <4>2, HeldAlike DEF Holds, HeldIn
      <4>4. Holds(s)' = Holds(s)
        BY <2>1, <2>2, OtherAreas DEF Next
      <4> QED BY <4>3, <4>4
    <3> QED BY <3>1, <3>2
  <2>6. Touching
    BY <1>1, <1>3, <2>1, <2>2, <2>5, CopyTouches DEF Next, Working, Touching
  <2>7. JobBar' = JobBar /\ CopiedBar' = CopiedBar /\ ~ CopiedBar
    BY <1>1 DEF JobBar, CopiedBar
  <2> QED BY <2>1, <2>6, <2>7 DEF WorkBar, StepBar
<1> QED BY <1>2, <1>3

LEMMA DoneMapping == ASSUME FlashInv, CopyDone PROVE StepBar
<1>1. pc = "copy" /\ pc' = "returned" /\ UNCHANGED <<cells, call>> /\ Job' = Job
  BY DEF CopyDone, Job
<1>2. Job.kind = "copy" /\ FlashInv'
  BY CopyDoneStep
<1>3. /\ JobBar = <<Job.dest, Job.src>> /\ JobBar # << >> /\ Job.dest \in Areas /\ Job.src \in Areas
  BY <1>1, <1>2, CopyGoingOn DEF Working
<1>4. Holds(Job.dest) = Holds(Job.src)
  <2>1. Copied(BOOT_SLOT_SECTOR_SIZE)'
    BY <1>1, <1>2 DEF FlashInv, CopyInv
  <2>2. \A i \in 0 .. BOOT_SLOT_SECTOR_SIZE - 1 : i < BOOT_SLOT_SECTOR_SIZE
    BY SizesNat
  <2>3. \A i \in 0 .. BOOT_SLOT_SECTOR_SIZE - 1 : cells[Job.dest + i] = cells[Job.src + i]
    BY <1>1, <2>1, <2>2 DEF Copied
  <2> QED BY <1>3, <2>3, HeldAlike DEF Holds, HeldIn
<1>5. HoldsBar' = HoldsBar
  BY <1>1, AreasStill DEF Next
<1>6. HoldsBar[JobBar[1]] = HoldsBar[JobBar[2]]
  BY <1>3, <1>4 DEF HoldsBar
<1>7. JobBar' = JobBar /\ CopiedBar' = TRUE
  BY <1>1, <1>2 DEF JobBar, CopiedBar
<1> QED BY <1>3, <1>5, <1>6, <1>7 DEF FinishBar, StepBar

LEMMA ReturnMapping == ASSUME FlashInv, Proceed PROVE StepBar
<1>1. pc = "returned" /\ pc' = "idle" /\ UNCHANGED cells
  BY DEF Proceed
<1>2. HoldsBar' = HoldsBar
  BY <1>1, AreasStill DEF Next
<1>3. JobBar' = << >> /\ CopiedBar' = FALSE
  BY <1>1 DEF JobBar, CopiedBar
<1>4. CASE Job.kind = "copy"
  BY <1>1, <1>2, <1>3, <1>4 DEF CopiedBar, ReturnBar, StepBar
<1>5. CASE Job.kind # "copy"
  BY <1>1, <1>2, <1>3, <1>5 DEF CopiedBar, JobBar, StutterBar, StepBar
<1> QED BY <1>4, <1>5

\* An error or a reset ends the copy, wherever it is.
LEMMA CutOffMapping ==
  ASSUME FlashInv, [Next]_flash_vars, Tear, pc' \in {"idle", "stopped"}
  PROVE  StepBar
<1>1. JobBar' = << >> /\ CopiedBar' = FALSE
  BY DEF JobBar, CopiedBar
<1>2. CASE pc \in Working /\ Job.kind = "copy"
  <2>1. /\ JobBar = <<Job.dest, Job.src>> /\ JobBar # << >> /\ Job.dest \in Areas
        /\ Job.bytes = BOOT_SLOT_SECTOR_SIZE
    BY <1>2, CopyGoingOn
  <2>2. Touching
    <3>1. CASE UNCHANGED cells
      BY <3>1, AreasStill DEF Touching
    <3>2. CASE ~ UNCHANGED cells
      <4>1. PICK d \in Areas : d = Job.dest
        BY <2>1
      <4>2. PICK u \in Extent(d, BOOT_SLOT_SECTOR_SIZE) : cells'[u] = Torn
        BY <2>1, <3>2, <4>1, TearPlace
      <4>3. Holds(d)' = Debris
        BY <4>2 DEF Holds, Torn
      <4> QED BY <1>2, <2>1, <4>1, <4>3, CopyTouches DEF Touching
    <3> QED BY <3>1, <3>2
  <2> QED BY <1>1, <2>1, <2>2 DEF AbandonBar, StepBar
<1>3. CASE ~ (pc \in Working /\ Job.kind = "copy")
  <2>1. HoldsBar' = HoldsBar
    BY <1>3, AreasStill
  <2>2. JobBar = << >> /\ CopiedBar = FALSE
    BY <1>3 DEF JobBar, CopiedBar, Working, FlashInv, BootFlashTypeOK
  <2> QED BY <1>1, <2>1, <2>2 DEF StutterBar, StepBar
<1> QED BY <1>2, <1>3

LEMMA CloseMapping == ASSUME FlashInv, boot_flash_close PROVE StepBar
<1>1. pc \in {"stopped", "idle"} /\ pc' = "closed" /\ UNCHANGED cells
  BY DEF boot_flash_close
<1>2. HoldsBar' = HoldsBar
  BY <1>1, AreasStill DEF Next
<1> QED BY <1>1, <1>2 DEF JobBar, CopiedBar, StutterBar, StepBar

LEMMA CopyMapping == ASSUME FlashInv, [Next]_flash_vars PROVE StepBar
<1>1. CASE boot_flash_erase
  <2>1. /\ pc = "erase" /\ pc' = "erasing" /\ UNCHANGED <<cells, call>>
    BY <1>1, EraseStep DEF boot_flash_erase
  <2> QED BY <2>1, QuietStutter DEF Working, StepBar
<1>2. CASE EraseDone
  <2>1. /\ pc = "erasing" /\ pc' \in {"copy", "returned"} /\ UNCHANGED <<cells, call>>
        /\ Job.kind = "copy" => pc' = "copy"
    BY <1>2 DEF EraseDone
  <2> QED BY <2>1, QuietStutter DEF Working, StepBar
<1>3. CASE CopyChunk
  <2>1. pc = "copy" /\ pc' = "write" /\ UNCHANGED <<cells, call>>
    BY <1>3 DEF CopyChunk
  <2> QED BY <2>1, QuietStutter DEF Working, StepBar
<1>4. CASE WriteDone
  <2>1. /\ pc = "write" /\ pc' \in {"copy", "returned"} /\ UNCHANGED <<cells, call>>
        /\ Job.kind = "copy" => pc' = "copy"
    BY <1>4 DEF WriteDone
  <2> QED BY <2>1, QuietStutter DEF Working, StepBar
<1>5. CASE OpenFails \/ DriverError \/ Reset
  <2>1. Tear /\ pc' \in {"idle", "stopped"}
    BY <1>5 DEF OpenFails, DriverError, Reset, Stop, Tear
  <2> QED BY <2>1, CutOffMapping
<1>6. CASE UNCHANGED flash_vars
  <2>1. UNCHANGED <<cells, call, pc>> /\ Job' = Job
    BY <1>6 DEF flash_vars, Job
  <2>2. HoldsBar' = HoldsBar
    BY <2>1, AreasStill
  <2> QED BY <2>1, <2>2 DEF JobBar, CopiedBar, StutterBar, StepBar
<1> QED BY <1>1, <1>2, <1>3, <1>4, <1>5, <1>6, CallMapping, EraseMapping, ProgramMapping, DoneMapping,
           ReturnMapping, CloseMapping DEF Next

(* A leg of the swap is the copy SectorCopy states, for every flash map:   *)
(* through whole blocks and clipped chunks, errors and resets, its         *)
(* destination is what it was, or debris, or the source, nothing else is   *)
(* touched, and it succeeds only when it is complete (boot_flash_copy).    *)
(* It is what lets BootSwap take a leg in two steps.                       *)
THEOREM ImplementsSectorCopy == Spec => CopySpec
<1>1. Init => Copying!Init
  BY DEF Init, Copying!Init
<1>2. FlashInv /\ [Next]_flash_vars => [Copying!Next]_(Copying!copy_vars)
  BY CopyMapping, BarStep
<1> QED BY <1>1, <1>2, FlashInvariant, PTL DEF Spec, CopySpec, Copying!Spec

===============================================================================
