SPECIFICATION Spec
CONSTANTS
  a1 = a1
  a2 = a2
  p1 = p1
  p2 = p2
  NoProc = NoProc
  Lost = Lost
  NoAction = NoAction
  Actions <- TwoActions
  Procs <- TwoProcesses
  SlotOf <- SameSlot
  Work <- LiveBesideScanner
  Qty = 1
  LookupsOvertake = FALSE
  MaxCrashes = 0
SYMMETRY ActionSymmetry
INVARIANT OneActivePerSlot
