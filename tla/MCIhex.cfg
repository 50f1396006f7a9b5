CONSTANTS
  AddrLimit = 40
  Files <- MCFiles
SPECIFICATION IhexSpec
CHECK_DEADLOCK FALSE
INVARIANTS
  IhexTypeOK
  ImageIsWhatTheRecordsSay
  OnlySoundRecordsCount
