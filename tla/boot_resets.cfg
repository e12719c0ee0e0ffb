CONSTANTS
  BOOT_SLOT_SECTOR_COUNT = 2
  Data <- MCData
  Bootable <- MCBootable
  boot_crc32 <- MCCrc32
  BOOT_CRC32_UNSET = Unset
  NoRecord = NoRecord
  Images <- MCImages
  Debris <- MCDebris
  Misprogrammed = {}
  FlashFaults = FALSE
  RecordTears = TRUE
  NoRequest = NoRequest
  NoAck = NoAck
  TrialStaging = TRUE
  TrialSwaps = TRUE
SPECIFICATION LiveBootSpec
INVARIANT BootTypeOK
INVARIANT HandoffSettled
INVARIANT RequestedOnce
INVARIANT TrapsOnlyWhenEmpty
PROPERTY EngineSpec
PROPERTY HandshakeSpec
PROPERTY StaysBootable
PROPERTY BootEnds
PROPERTY SwapCompletes
CHECK_DEADLOCK FALSE
