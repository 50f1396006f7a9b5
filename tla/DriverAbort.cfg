CONSTANTS
  HandshakeBaud = 2400
  TransferBaud = 115200
  LinksWanted = 2
  EraseUnit = 1
  FlashBlocks = 4
  BytesPerBlock = 1
  Disturbances = {}
  MaxQueue = 2
  MaxFaults = 0
  FlukeSpan = 2
  EchoWaitsForHost = FALSE
  DrainMode = "TcDrain"
  MarginCovers = FALSE
  Generous = FALSE
  IoMayFail = FALSE
  Plans <- MCPlans
  Replies <- MCReplies
  Leftovers <- NoLeftovers
SPECIFICATION RunSpec
CHECK_DEADLOCK FALSE
INVARIANT
  AbortAfterAWriteIsIndeterminate
