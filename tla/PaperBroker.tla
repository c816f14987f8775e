----------------------------- MODULE PaperBroker -----------------------------
(***************************************************************************)
(* The paper broker as the code in app/ uses it: an external order book    *)
(* keyed by client order id.  A request may travel for longer than the     *)
(* submission timeout, never arrive, be rejected, fill in parts, be        *)
(* cancelled by the operator or expire at the close, all without the       *)
(* program being told; the program only ever asks.                         *)
(***************************************************************************)
EXTENDS Naturals, LogicalActions, OrderState

CONSTANTS
  LookupsOvertake   \* may a lookup answer "not found" while the request for
                    \* the same client order id is still on its way?

ASSUME OvertakeAssumption == LookupsOvertake \in BOOLEAN

VARIABLE order      \* the broker's order for each action

\* sent counts the requests that left the adapter.
OrderRows ==
  [ status : RemoteStatuses \cup { "absent", "travelling" },
    filled : 0..Qty,
    sent : Nat ]

BrokerTypeOK == order \in [Actions -> OrderRows]

BrokerInit ==
  order = [a \in Actions |-> [status |-> "absent", filled |-> 0, sent |-> 0]]

OpenStatuses == { "new", "partially_filled", "pending_cancel" }

\* Money may still move under this order.
possibly_live(a) == order[a].status \in OpenStatuses \cup { "travelling" }

\* A request leaves.  The client order id makes a second one a duplicate.
submit_order(a) ==
  order' = [order EXCEPT ![a].sent = @ + 1,
                         ![a].status = IF @ = "absent" THEN "travelling"
                                       ELSE @]

\* What a lookup by client or broker order id reports.
remote_view(a) ==
  [ status |-> IF order[a].status \in { "absent", "travelling" }
                 THEN "missing" ELSE order[a].status,
    filled |-> order[a].filled ]

lookup_answers(a) == order[a].status # "travelling" \/ LookupsOvertake

Becomes(a, s) == order' = [order EXCEPT ![a].status = s]

Arrive(a) ==
  /\ order[a].status = "travelling"
  /\ \E s \in { "new", "rejected" } : Becomes(a, s)

\* The connection or the broker's gateway drops the request.
Vanish(a) ==
  /\ order[a].status = "travelling"
  /\ Becomes(a, "absent")

\* q more units execute; an order being cancelled keeps that status.
Execute(a, q) ==
  /\ order[a].status \in OpenStatuses
  /\ order[a].filled + q <= Qty
  /\ order' = [order EXCEPT
       ![a].filled = @ + q,
       ![a].status = IF order[a].filled + q = Qty THEN "filled"
                     ELSE IF @ = "pending_cancel" THEN @
                     ELSE "partially_filled"]

RequestCancel(a) ==
  /\ order[a].status \in { "new", "partially_filled" }
  /\ Becomes(a, "pending_cancel")

\* The remainder is cancelled, or the DAY order reaches the close.
CloseRemainder(a) ==
  /\ order[a].status \in OpenStatuses
  /\ \E s \in { "canceled", "expired" } : Becomes(a, s)

BrokerStep(a) ==
  \/ Arrive(a)
  \/ Vanish(a)
  \/ \E q \in 1..Qty : Execute(a, q)
  \/ RequestCancel(a)
  \/ CloseRemainder(a)
=============================================================================
