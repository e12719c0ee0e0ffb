CONSTANTS
  Crcs <- MCCrcs
  Stubborn = {1}
  TornWords <- MCTornWords
  MaxSequence = 3
  MaxCuts = 1
SPECIFICATION Spec
INVARIANT TornRecordRejected
INVARIANT WholeRecordAccepted
INVARIANT Crc16IsRemainder
INVARIANT Crc32IsRemainder
CHECK_DEADLOCK FALSE
