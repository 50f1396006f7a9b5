CONSTANTS
  MaxFaults = 2
  Frames <- MCFrames
  Deltas <- MCDeltas
  MaxLenField = 14
  Streams <- LayerStreams
SPECIFICATION LayerSpec
CHECK_DEADLOCK FALSE
INVARIANTS
  OneFaultIsDetected
  AcceptsOnlyEncodings
  NothingReordered
  DeliversWhatWasSent
  AccountsForEveryByte
  HoldsOnlyAnUnfinishedFrame
PROPERTY
  EveryCallAdvances
