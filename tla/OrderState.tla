----------------------------- MODULE OrderState -----------------------------
(***************************************************************************)
(* The order lifecycle of app/order_state.py: the states of a durable      *)
(* order intent, the three classes the rest of the program asks about, the *)
(* table of legal transitions, and the reading of a remote broker status.  *)
(* Nothing here has state; the modules above apply these to the rows of    *)
(* order_intents.                                                          *)
(***************************************************************************)
EXTENDS Naturals

OrderStates ==
  { "created", "reserved", "retryable_pre_submission", "submitting",
    "submitted", "partially_filled", "cancel_pending", "filled",
    "cancelled", "rejected", "expired", "unknown",
    "reconciliation_required" }

TERMINAL_STATES == { "filled", "cancelled", "rejected", "expired" }

\* Mutant: an UNKNOWN order is left to the operator.
BROKER_RELEVANT_without_unknown ==
  { "submitting", "submitted", "partially_filled", "cancel_pending",
    "reconciliation_required" }

\* States the reconciler looks up at the broker.
BROKER_RELEVANT_STATES ==
  { "submitting", "submitted", "partially_filled", "cancel_pending",
    "unknown", "reconciliation_required" }

\* States in which the intent's risk reservation counts against the ceilings.
ACTIVE_RESERVATION_STATES == OrderStates \ TERMINAL_STATES

\* Nothing has been sent yet: the only states a submission may start from.
PRE_SUBMISSION_STATES == { "created", "reserved", "retryable_pre_submission" }

ALLOWED_TRANSITIONS ==
  [ s \in OrderStates |->
      CASE s = "created" ->
             { "reserved", "retryable_pre_submission", "rejected", "expired" }
        [] s = "reserved" ->
             { "retryable_pre_submission", "submitting", "rejected",
               "expired" }
        [] s = "retryable_pre_submission" ->
             { "submitting", "rejected", "expired" }
        [] s = "submitting" ->
             { "retryable_pre_submission", "submitted", "partially_filled",
               "filled", "rejected", "unknown", "reconciliation_required" }
        [] s = "submitted" ->
             { "partially_filled", "filled", "cancel_pending", "cancelled",
               "rejected", "expired", "unknown", "reconciliation_required" }
        [] s = "partially_filled" ->
             { "filled", "cancel_pending", "cancelled", "expired", "unknown",
               "reconciliation_required" }
        [] s = "cancel_pending" ->
             { "cancelled", "partially_filled", "filled", "unknown",
               "reconciliation_required" }
        [] s = "unknown" ->
             { "reconciliation_required", "submitted", "partially_filled",
               "filled", "cancelled", "rejected", "expired" }
        [] s = "reconciliation_required" ->
             { "unknown", "submitted", "partially_filled", "filled",
               "cancelled", "rejected", "expired" }
        [] OTHER -> {} ]

\* validate_transition: a repeated state is accepted, anything else must be
\* in the table; FALSE stands for InvalidOrderTransition.
validate_transition(s, t) == s = t \/ t \in ALLOWED_TRANSITIONS[s]

\* The statuses the broker reports, one for each group of synonyms.
RemoteStatuses ==
  { "new", "partially_filled", "filled", "pending_cancel", "canceled",
    "rejected", "expired" }

\* broker_status_to_state: a positive filled quantity is tested before the
\* cancel, reject and expiry statuses are.
broker_status_to_state(status, filled) ==
  CASE status = "new" -> "submitted"
    [] status = "filled" -> "filled"
    [] status = "partially_filled" \/ filled > 0 -> "partially_filled"
    [] status = "pending_cancel" -> "cancel_pending"
    [] status = "canceled" -> "cancelled"
    [] status = "rejected" -> "rejected"
    [] OTHER -> "expired"
=============================================================================
