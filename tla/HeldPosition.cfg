SPECIFICATION Spec
CONSTANTS
  a1 = a1
  a2 = a2
  Adds = {a1, a2}
  Keys = {"k1"}
  MaxPrice = 3
  MaxLives = 2
SYMMETRY Symmetry
INVARIANT AddOncePerMilestone AddKeepsItsFloor HitIsEarned
PROPERTY StopNeverLoosened
CHECK_DEADLOCK FALSE
