SPECIFICATION FairSpec
CONSTANTS
  s1 = s1
  s2 = s2
  NoPid = NoPid
  Dead = Dead
  Foreign = Foreign
  Scheduled = s1
  Starters <- TwoStarters
  Scripts = {"scanner", "listener"}
  MaxLosses = 2
INVARIANT OneRuns
PROPERTY AbandonedIsRecovered
