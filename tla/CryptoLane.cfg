SPECIFICATION Spec
CONSTANTS
  Proposals = {p1, p2}
  p1 = p1
  p2 = p2
  Quantity = 2
  Ceiling = 4
  MaxFaults = 1
  Autonomous = {p2}
INVARIANT LiveOrderIsReserved OneLiveOrder BookedWithinBroker EndedIntentIsBooked IntegrityHolds
CHECK_DEADLOCK FALSE
