CONSTANTS
  Plans <- MCPlans
  Replies <- MCReplies
SPECIFICATION Spec
INVARIANTS
  TypeOK
  IndeterminateExact
  StopAndWait
  FinishedMeansVerified
PROPERTY
  NothingIsTakenBack
