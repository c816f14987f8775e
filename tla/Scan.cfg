SPECIFICATION Spec
CONSTANTS
  s1 = s1
  s2 = s2
  Symbols = {s1, s2}
  MaxProposals = 2
  MaxHeld = 1
  MaxFaults = 1
  Portfolios <- OneHeld
  Modes = {"single", "batch", "autonomous"}
INVARIANT SellsWithinHoldings PendingIsAnswerable OnePendingBuy
PROPERTY BuyYieldsToOlderExit BlockerClears
