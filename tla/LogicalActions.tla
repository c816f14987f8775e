--------------------------- MODULE LogicalActions ---------------------------
(***************************************************************************)
(* What the store and the broker have in common: the approved logical      *)
(* actions, each with one stable client order id, and what they trade.     *)
(***************************************************************************)
EXTENDS Naturals, FiniteSets

CONSTANTS
  Actions,      \* approved logical actions
  Qty,          \* requested quantity of every order, in units
  SlotOf        \* the symbol and side each action trades

ASSUME ActionsAssumption == IsFiniteSet(Actions)
ASSUME QtyAssumption == Qty \in Nat \ {0}
=============================================================================
