CONSTANTS
  WriteBlock = 2
  EraseBlock = 4
  EraseGranule = 8
  LinkTestRepeats = 4
  KnownChips <- MCKnownChips
  CommandLines <- MCCommandLines
  Dashed <- MCDashed
  NumberOf <- MCNumberOf
  ImageOf <- MCImageOf
  Statuses <- MCStatuses
  StdoutMayClose = TRUE
SPECIFICATION FairCliSpec
CHECK_DEADLOCK FALSE
INVARIANTS
  TheJobIsTheOneAskedFor
  ExitTellsTheTruth
  ExplainShowsTheWrites
PROPERTY
  ProcessExits
