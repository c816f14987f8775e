---------------------------- MODULE WorkflowState ----------------------------
(***************************************************************************)
(* The approval workflow lifecycle of app/approval_workflow.py: what an    *)
(* accepted approval goes through until its order intent is settled, and   *)
(* which of these states a restarted process may claim and resume.         *)
(***************************************************************************)

WorkflowStates ==
  { "received", "authorized", "target_resolved", "validating", "blocked",
    "approved_pending_intent", "intent_created", "submission_pending",
    "submission_started", "submitted", "unknown", "terminal",
    "manual_review" }

TERMINAL_WORKFLOW_STATES == { "blocked", "terminal", "manual_review" }

RECOVERABLE_WORKFLOW_STATES == WorkflowStates \ TERMINAL_WORKFLOW_STATES

\* Every state before the intent exists can be closed by any of the three.
ALLOWED_WORKFLOW_TRANSITIONS ==
  [ s \in WorkflowStates |->
      CASE s = "received" -> { "authorized" } \cup TERMINAL_WORKFLOW_STATES
        [] s = "authorized" ->
             { "target_resolved" } \cup TERMINAL_WORKFLOW_STATES
        [] s = "target_resolved" ->
             { "validating" } \cup TERMINAL_WORKFLOW_STATES
        [] s = "validating" ->
             { "approved_pending_intent" } \cup TERMINAL_WORKFLOW_STATES
        [] s = "approved_pending_intent" ->
             { "intent_created" } \cup TERMINAL_WORKFLOW_STATES
        [] s = "intent_created" ->
             { "submission_pending", "submission_started", "terminal",
               "unknown", "manual_review" }
        [] s = "submission_pending" ->
             { "submission_started", "unknown" } \cup TERMINAL_WORKFLOW_STATES
        [] s = "submission_started" ->
             { "submission_pending", "submitted", "unknown", "terminal",
               "manual_review" }
        [] s = "submitted" -> { "unknown", "terminal", "manual_review" }
        [] s = "unknown" -> { "submitted", "terminal", "manual_review" }
        [] OTHER -> {} ]

\* The state check of ApprovalWorkflowStore.transition; FALSE stands for
\* ApprovalWorkflowConflict.
workflow_may_move(s, t) == s = t \/ t \in ALLOWED_WORKFLOW_TRANSITIONS[s]
=============================================================================
