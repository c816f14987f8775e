SPECIFICATION FairSpec
CONSTANTS
  p1 = p1
  p2 = p2
  b1 = b1
  NoBatch = NoBatch
  NoProposal = NoProposal
  Proposals = {p1, p2}
  Batches = {b1}
  BatchOf <- OneOfEach
  Commands = {"yes", "no", "yes_all", "no_all", "sleep"}
  MaxUpdate = 2
  MaxAborts = 1
INVARIANT CursorHidesNothing ProcessedIsRepresented
PROPERTY AnswerActsOnItsWorkflow EveryUpdateConfirmed ExpiryIsAnnounced
CHECK_DEADLOCK FALSE
