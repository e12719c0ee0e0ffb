CONSTANTS
  BOOT_SLOT_SECTOR_COUNT = 2
  Data <- MCData
  Bootable <- MCBootable
  boot_crc32 <- MCCrc32
  BOOT_CRC32_UNSET = Unset
  NoRecord = NoRecord
  Images <- MCImages
  Debris <- MCDebris
  Misprogrammed = {}
  FlashFaults = FALSE
  RecordTears = FALSE
  NoRequest = NoRequest
  NoAck = NoAck
  TrialStaging = FALSE
  TrialSwaps = TRUE
SPECIFICATION TrialSpec
INVARIANT TrialGuarded
CHECK_DEADLOCK FALSE
