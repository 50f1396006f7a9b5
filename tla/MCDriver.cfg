CONSTANTS
  HandshakeBaud = 2400
  TransferBaud = 115200
  LinksWanted = 2
  EraseUnit = 1
  FlashBlocks = 4
  BytesPerBlock = 1
  Disturbances = {"noise", "bad", "fluke"}
  MaxQueue = 2
  MaxFaults = 2
  FlukeSpan = 2
  EchoWaitsForHost = FALSE
  DrainMode = "TcDrain"
  MarginCovers = FALSE
  Generous = FALSE
  IoMayFail = TRUE
  Plans <- MCPlans
  Replies <- MCReplies
  Leftovers <- MCLeftovers
SPECIFICATION FairRunSpec
CHECK_DEADLOCK FALSE
INVARIANTS
  RunTypeOK
  AnsweredMeansCarriedOut
  DoneMeansProgrammed
  NothingIsMisheard
  NeverErasesOnAnUnprovenLine
  NeverTalksOver
PROPERTIES
  KeepsThePromise
  RunReturns
