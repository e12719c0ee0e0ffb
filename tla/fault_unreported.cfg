CONSTANTS
  BOOT_SLOT_SECTOR_COUNT = 2
  Data <- MCData
  Bootable <- MCBootable
  boot_crc32 <- MCCrc32
  BOOT_CRC32_UNSET = Unset
  NoRecord = NoRecord
  Images <- MCImages
  Debris <- MCDebris
  Misprogrammed = {}
  FlashFaults = TRUE
  RecordTears = FALSE
  NoRequest = NoRequest
  NoAck = NoAck
  TrialStaging = TRUE
  TrialSwaps = TRUE
SPECIFICATION BootSpec
INVARIANT HalfSwapReported
CHECK_DEADLOCK FALSE
