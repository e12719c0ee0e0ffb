CONSTANTS
  BOOT_SLOT_SECTOR_COUNT = 3
  Data <- MCData
  Bootable <- MCBootable
  boot_crc32 <- MCCrc32
  BOOT_CRC32_UNSET = Unset
  NoRecord = NoRecord
  Images <- MCImages
  Debris <- MCDebris
  Misprogrammed = {}
  FlashFaults = FALSE
  RecordTears = FALSE
SPECIFICATION Spec
PROPERTY LogWrittenOnErased
CHECK_DEADLOCK FALSE
