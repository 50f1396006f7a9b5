CONSTANTS
  WriteBlock = 2
  EraseBlock = 4
  EraseGranule = 8
  LinkTestRepeats = 4
  KnownChips <- MCKnownChips
  Statuses <- MCStatuses
  Jobs <- MCJobs
  Options <- MCOptions
SPECIFICATION Spec
CHECK_DEADLOCK FALSE
INVARIANTS
  WritesFillTheErasedRegion
  ErasesWhatTheJobNeeds
  RatesFollowTheChip
  OptionsAreOnlyEchoed
  EndsWithRunAndErasesLate
  ReloadIsTheNearest
  PlansEveryJobThatFits
