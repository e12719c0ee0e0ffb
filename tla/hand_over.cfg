CONSTANTS
  Requests <- MCRequests
  Acks <- MCAcks
  NoRequest = NoRequest
  NoAck = NoAck
  Magic = Magic
  Zero = Zero
  Junk = Junk
  Decaying = {"magic", "arg", "check", "ack_magic", "detail", "ack_check"}
  BOOT_NVIC_REG_COUNT = 2
  LinesPerRegister = 2
  Lines = {3}
  Images <- MCImages
SPECIFICATION Spec
INVARIANT HandOverTypeOK
INVARIANT OnlyWhatWasAsked
INVARIANT AckWhole
INVARIANT AckOfThisBoot
INVARIANT NoStrayInterrupt
INVARIANT StartsInPrimary
PROPERTY HandshakeSpec
CHECK_DEADLOCK FALSE
