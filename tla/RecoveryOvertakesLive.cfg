SPECIFICATION Spec
CONSTANTS
  a1 = a1
  a2 = a2
  p1 = p1
  p2 = p2
  NoProc = NoProc
  Lost = Lost
  NoAction = NoAction
  Actions <- OneAction
  Procs <- TwoProcesses
  SlotOf <- SameSlot
  Work <- LiveBesideRecovery
  Qty = 1
  LookupsOvertake = FALSE
  MaxCrashes = 0
INVARIANT LiveOrderStaysReserved
CHECK_DEADLOCK FALSE
