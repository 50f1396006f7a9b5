CONSTANTS
  HandshakeBaud = 2400
  TransferBaud = 115200
  LinksWanted = 4
  EraseUnit = 2
  FlashBlocks = 4
  BytesPerBlock = 1
  Disturbances = {"noise", "bad"}
  MaxQueue = 3
  MaxFaults = 0
  FlukeSpan = 2
  EchoWaitsForHost = TRUE
  DrainMode = "ComputeWireTime"
  MarginCovers = TRUE
  Generous = TRUE
  IoMayFail = FALSE
  Plans <- MCPlans
  Replies <- MCReplies
  Leftovers <- NoLeftovers
SPECIFICATION LiveChipSpec
CHECK_DEADLOCK FALSE
PROPERTY
  NoiseAloneDoesNotAbort
