CONSTANTS
  WriteBlock = 2
  EraseBlock = 4
  EraseGranule = 8
  LinkTestRepeats = 4
  KnownChips <- MCKnownChips
  CommandLines <- MCCommandLines
  Dashed <- MCDashed
  NumberOf <- MCNumberOf
  ImageOf <- MCImageOf
  Statuses <- MCStatuses
  StdoutMayClose = TRUE
SPECIFICATION CliSpec
CHECK_DEADLOCK FALSE
INVARIANT
  AbortIsCalledIndeterminate
