SPECIFICATION FairSpec
CONSTANTS
  Requested <- TwoLegs
  Displayed = 2
  AllowPartial = TRUE
  MaxCrashes = 1
INVARIANT EntryWithinRelease RejectedMovesNothing
PROPERTY ApprovedGroupEnds
CHECK_DEADLOCK FALSE
