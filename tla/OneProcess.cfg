SPECIFICATION FairSpec
CONSTANTS
  a1 = a1
  a2 = a2
  p1 = p1
  p2 = p2
  NoProc = NoProc
  Lost = Lost
  NoAction = NoAction
  Actions <- OneAction
  Procs <- OneProcess
  SlotOf <- SameSlot
  Work <- Alone
  Qty = 2
  LookupsOvertake = FALSE
  MaxCrashes = 1
INVARIANT TypeOK
INVARIANT ClosedWorkflowHasNoOpenIntent
PROPERTY KeepsPromise
PROPERTY FilledIsBooked
PROPERTY AbsentOrRejectedIsSettled
