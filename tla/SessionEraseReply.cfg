CONSTANTS
  Plans <- MCPlans
  Replies <- MCReplies
SPECIFICATION Spec
INVARIANT
  EraseReplyNamesTheChip
