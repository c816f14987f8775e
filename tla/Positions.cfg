SPECIFICATION Spec
CONSTANTS
  e1 = e1
  e2 = e2
  t1 = t1
  t2 = t2
  x1 = x1
  Orders = {e1, t1, t2}
  KindOf <- Kinds
  QtyOf <- Sizes
  Fee = 1
  MaxTrades = 2
  MaxLives = 2
INVARIANT FeesFullyAllocated TakeProfitWithinTarget BooksFollowBroker
SYMMETRY Alike
CHECK_DEADLOCK FALSE
CONSTRAINT Bounded
