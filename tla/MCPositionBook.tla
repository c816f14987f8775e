--------------------------- MODULE MCPositionBook ---------------------------
EXTENDS PositionBook, TLC

CONSTANTS e1, e2, t1, t2, x1

Kinds == [i \in Orders |-> IF i \in {e1, e2} THEN "entry" ELSE IF i = x1 THEN "exit" ELSE "take_profit"]

Sizes == [i \in Orders |-> IF i = e1 THEN 2 ELSE 1]

\* Two trades around an entry and a sell, or one around an entry and two
\* sells; no second trade once the books may no longer follow.
Bounded ==
  /\ trades + Cardinality({i \in Orders : order[i].state # "none"}) <= 4
  /\ trades = MaxTrades => clean

Alike == Permutations({t1, t2})
=============================================================================
