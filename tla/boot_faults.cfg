CONSTANTS
  BOOT_SLOT_SECTOR_COUNT = 2
  Data <- MCTwoSectorData
  Bootable <- MCBootable
  boot_crc32 <- MCCrc32
  BOOT_CRC32_UNSET = Unset
  NoRecord = NoRecord
  Images <- MCWholeImages
  Debris <- MCDebris
  Misprogrammed <- MCMisprogrammed
  FlashFaults = TRUE
  RecordTears = TRUE
  NoRequest = NoRequest
  NoAck = NoAck
  TrialStaging = TRUE
  TrialSwaps = TRUE
  MaxMishaps = 2
SPECIFICATION MCFaultSpec
INVARIANT AckTruthful
INVARIANT SettledUnlessFailed
INVARIANT TrialRepeatReported
INVARIANT VerifiedArrival
PROPERTY FingerprintOfStaged
