SPECIFICATION Spec
CONSTANTS
  Strategies = {"s1", "s2"}
  Settings <- TheSettings
  Validation <- TheValidation
  Entries <- TheEntries
  Authority <- TheAuthority
  Phase4 <- ThePhase4
  Limits <- TheLimits
  Guard <- TheGuard
  Economics <- TheEconomics
  Setups <- TheSetups
  Holdings <- TheHoldings
  History <- TheHistory
  Stages = {1, 2}
  Bootstraps <- TheBootstraps
  Quotes <- TheQuotes
  Account <- TheAccount
  Environments <- TheEnvironments
  MaxCycles = 2
INVARIANT ExposureWithinCeiling ReservedWithinSleeve
PROPERTY SentWithinDisplayed SentUnderCurrentPolicy
CHECK_DEADLOCK FALSE
