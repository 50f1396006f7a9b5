CONSTANTS
  FamilyIsStatusFrame <- MCIsStatusFrame
  FamilyParseStatus <- MCParseStatus
  MaxLenField = 1024
  PulseEvery = 2
  PartialStall = 5
  ReadPoll = 1
  PulseTime = 1
  Lateness = 1
  MaxGap = 4
  Wait = 12
  IoMayFail = TRUE
  Scripts <- MCScripts
  Streams <- MCStreams
SPECIFICATION FairHsSpec
CHECK_DEADLOCK FALSE
INVARIANTS
  KeepsTheCadence
  ReturnsInTime
  FirstStatusPacketDecides
PROPERTIES
  NoPulseIntoAPacket
  HandshakeReturns
