CONSTANTS
  CF_REGION0_SIZE = 16
  CF_REGION0_BLOCK_SIZE = 2
  CF_REGION1_BLOCK_SIZE = 8
  DATA_FLASH_START = 64
  DF_BLOCK_SIZE = 16
  BOOT_SCRATCH_BASE = 8
  BOOT_PRIMARY_BASE = 16
  BOOT_SECONDARY_BASE = 40
  BOOT_SLOT_SECTOR_SIZE = 8
  BOOT_SLOT_SECTOR_COUNT = 3
  BOOT_FLASH_CHUNK = 3
SPECIFICATION Spec
INVARIANT BootFlashTypeOK
INVARIANT ClosedAtHandOver
PROPERTY CopySpec
PROPERTY OnlyDestination
PROPERTY ProgrammedOnErased
CHECK_DEADLOCK FALSE
