-------------------------- MODULE WorkflowRecovery --------------------------
(***************************************************************************)
(* ApprovalWorkflowStore.recover (app/approval_workflow.py) with the       *)
(* callbacks TradingService._recover_local_workflows (app/service.py)      *)
(* gives it.  A recoverer claims one unfinished workflow for the length of *)
(* a lease, reads the workflow row and the intent row, and resumes from    *)
(* what it read.  The live path that started a workflow holds no claim, so *)
(* a recoverer in another process may resume what is still running.        *)
(***************************************************************************)
EXTENDS Reconciliation

Seen(p) == proc[p].wseen

\* The two processes that call recover: once at start-up in each, and on
\* every poll of the listener.
ClaimWorkflow(p, a) ==
  /\ At(p, "idle")
  /\ "recover" \in Work[p]
  /\ claim(p, a)
  /\ proc' = [proc EXCEPT ![p].pc = "claimed", ![p].kind = "recover",
                          ![p].act = a, ![p].wseen = wf[a].state]
  /\ UNCHANGED << intent, resv, evid, prop, order >>

ReadIntent(p) ==
  /\ At(p, "claimed")
  /\ proc' = [proc EXCEPT ![p].pc = "examined",
                          ![p].rows[Act(p)] = row_of(Act(p))]
  /\ UNCHANGED << storeVars, order >>

\* A workflow transition under the claim.  ApprovalWorkflowConflict, for a
\* lost claim or an excluded move, ends the resumption.
owned_move(p, t, l) ==
  IF wf[Act(p)].owner = p /\ workflow_may_move(wf[Act(p)].state, t)
    THEN owned_transition(p, Act(p), t) /\ Goto(p, l)
    ELSE UNCHANGED wf /\ Goto(p, "release")

\* InvalidOrderTransition and other errors recover does not catch: the call
\* ends and the claim stays until its lease has passed.
Abandon(p) ==
  /\ Finish(p)
  /\ leak_claim(p)
  /\ UNCHANGED << intent, resv, evid, prop, order >>

expected_or_abandon(p, s, t, l) ==
  \/ /\ transition_from(Act(p), s, t)
     /\ Goto(p, l)
     /\ UNCHANGED << evid, wf, prop, order >>
  \/ /\ intent[Act(p)].state # s
     /\ Abandon(p)

before_intent == { "received", "authorized", "target_resolved", "validating",
                   "approved_pending_intent" }

\* The workflow row was read before somebody linked the intent.
LinkExisting(p) ==
  /\ At(p, "examined")
  /\ Seen(p) \in before_intent
  /\ Row(p).state # "none"
  /\ IF wf[Act(p)].owner = p
          /\ workflow_may_move(wf[Act(p)].state, "intent_created")
       THEN /\ owned_transition(p, Act(p), "intent_created")
            /\ proc' = [proc EXCEPT ![p].wseen = "intent_created"]
       ELSE UNCHANGED wf /\ Goto(p, "release")
  /\ UNCHANGED << intent, resv, evid, prop, order >>

(***************************************************************************)
(* Started, but the row read says the broker was never invoked.            *)
(***************************************************************************)

\* Mutant: the order state alone is taken for the proof.
proves_unsent_by_state(p) ==
  /\ Seen(p) = "submission_started"
  /\ Row(p).state \in { "submitting", "retryable_pre_submission" }

proves_unsent(p) ==
  /\ Seen(p) = "submission_started"
  /\ Row(p).state \in { "submitting", "retryable_pre_submission" }
  /\ ~ Row(p).marked

ProveUnsent(p) ==
  /\ At(p, "examined")
  /\ proves_unsent(p)
  /\ IF Row(p).state = "submitting"
       THEN expected_or_abandon(p, "submitting", "retryable_pre_submission",
                                "repend")
       ELSE Goto(p, "repend") /\ UNCHANGED << storeVars, order >>

\* Back to pending; the intent row is read again.
Repend(p) ==
  /\ At(p, "repend")
  /\ IF wf[Act(p)].owner = p
          /\ workflow_may_move(wf[Act(p)].state, "submission_pending")
       THEN /\ owned_transition(p, Act(p), "submission_pending")
            /\ proc' = [proc EXCEPT ![p].pc = "claimed",
                                    ![p].wseen = "submission_pending"]
       ELSE UNCHANGED wf /\ Goto(p, "release")
  /\ UNCHANGED << intent, resv, evid, prop, order >>

(***************************************************************************)
(* Before the intent exists.                                               *)
(***************************************************************************)

unvalidated(p) ==
  /\ At(p, "examined")
  /\ Row(p).state = "none"
  /\ Seen(p) \in before_intent \ { "approved_pending_intent" }

\* recover_validation: an autonomous approval goes on, an expired proposal
\* ends, a manual approval needs an operator, a rotation is left alone.
ResumeValidation(p) ==
  /\ unvalidated(p)
  /\ \/ Goto(p, "advance") /\ UNCHANGED wf
     \/ \E t \in { "terminal", "manual_review" } : owned_move(p, t, "release")
     \/ Goto(p, "release") /\ UNCHANGED wf
  /\ UNCHANGED << intent, resv, evid, prop, order >>

next_validation_state(s) ==
  CASE s = "received" -> "authorized"
    [] s = "authorized" -> "target_resolved"
    [] s = "target_resolved" -> "validating"
    [] OTHER -> "approved_pending_intent"

AdvanceValidation(p) ==
  /\ At(p, "advance")
  /\ LET t == next_validation_state(Seen(p))
     IN IF wf[Act(p)].owner = p /\ workflow_may_move(wf[Act(p)].state, t)
          THEN /\ owned_transition(p, Act(p), t)
               /\ proc' = [proc EXCEPT
                    ![p].wseen = t,
                    ![p].pc = IF t = "approved_pending_intent"
                                THEN "examined" ELSE "advance"]
          ELSE UNCHANGED wf /\ Goto(p, "release")
  /\ UNCHANGED << intent, resv, evid, prop, order >>

pending_intent(p) ==
  /\ At(p, "examined")
  /\ Row(p).state = "none"
  /\ Seen(p) = "approved_pending_intent"

\* recover_action_authority: expired or superseded, or not yet.
DeclineIntent(p) ==
  /\ pending_intent(p)
  /\ \/ owned_move(p, "terminal", "release")
     \/ Goto(p, "release") /\ UNCHANGED wf
  /\ UNCHANGED << intent, resv, evid, prop, order >>

\* ensure_intent returns the intent somebody else created meanwhile.
EnsureIntent(p) ==
  /\ pending_intent(p)
  /\ \/ create_intent(p, Act(p))
     \/ intent[Act(p)].state # "none" /\ UNCHANGED << intent, resv, wf >>
  /\ Goto(p, "linked")
  /\ UNCHANGED << evid, prop, order >>

\* The workflow moved on without an intent: a conflict, which is caught; a
\* refused creation raises an error that is not.
EnsureIntentRaises(p) ==
  /\ pending_intent(p)
  /\ intent[Act(p)].state = "none"
  /\ \/ /\ wf[Act(p)].state # "approved_pending_intent"
        /\ Goto(p, "release")
        /\ UNCHANGED << storeVars, order >>
     \/ /\ wf[Act(p)].state = "approved_pending_intent"
        /\ Abandon(p)

MarkLinked(p) ==
  /\ At(p, "linked")
  /\ owned_move(p, "submission_pending", "release")
  /\ UNCHANGED << intent, resv, evid, prop, order >>

(***************************************************************************)
(* The intent exists, the workflow does not say whether it was submitted.  *)
(***************************************************************************)

ResumeLinked(p) ==
  /\ At(p, "examined")
  /\ Seen(p) = "intent_created"
  /\ LET s == Row(p).state
     IN \/ /\ s \in PRE_SUBMISSION_STATES
           /\ owned_move(p, "submission_pending", "release")
           /\ UNCHANGED << intent, resv, evid, prop, order >>
        \/ /\ s = "submitting" /\ ~ Row(p).marked
           /\ expected_or_abandon(p, "submitting",
                                  "retryable_pre_submission", "linked")
        \/ /\ s \in { "unknown", "reconciliation_required" }
                \/ (s = "submitting" /\ Row(p).marked)
           /\ owned_move(p, "unknown", "release")
           /\ UNCHANGED << intent, resv, evid, prop, order >>
        \/ /\ s \in TERMINAL_STATES
                      \cup { "submitted", "partially_filled", "cancel_pending" }
           /\ owned_move(p, "submission_started", "reconstruct")
           /\ UNCHANGED << intent, resv, evid, prop, order >>

Reconstruct(p) ==
  /\ At(p, "reconstruct")
  /\ owned_move(p, IF Row(p).state \in TERMINAL_STATES THEN "terminal"
                   ELSE "submitted", "release")
  /\ UNCHANGED << intent, resv, evid, prop, order >>

(***************************************************************************)
(* Pending: the only state from which recovery submits.                    *)
(***************************************************************************)

pending_submission(p) == At(p, "examined") /\ Seen(p) = "submission_pending"

SuppressSubmission(p) ==
  /\ pending_submission(p)
  /\ Row(p).state \notin PRE_SUBMISSION_STATES
  /\ owned_move(p, "unknown", "release")
  /\ UNCHANGED << intent, resv, evid, prop, order >>

\* The authority has expired.
ExpireSubmission(p) ==
  /\ pending_submission(p)
  /\ Row(p).state \in PRE_SUBMISSION_STATES
  /\ expected_or_abandon(p, Row(p).state, "expired", "expire")

CloseExpired(p) ==
  /\ At(p, "expire")
  /\ owned_move(p, "terminal", "release")
  /\ UNCHANGED << intent, resv, evid, prop, order >>

\* No broker client: the intent waits, proven unsent.
DeferSubmission(p) ==
  /\ pending_submission(p)
  /\ Row(p).state \in PRE_SUBMISSION_STATES
  /\ IF Row(p).marked
       THEN Goto(p, "release") /\ UNCHANGED << storeVars, order >>
       ELSE expected_or_abandon(p, Row(p).state, "retryable_pre_submission",
                                "release")

ResumeSubmission(p) ==
  /\ pending_submission(p)
  /\ Row(p).state \in PRE_SUBMISSION_STATES
  /\ owned_move(p, "submission_started", "submitter")
  /\ UNCHANGED << intent, resv, evid, prop, order >>

\* recover_submission: authority is checked once more, then Executor.execute
\* runs with recovery_proven_no_submit.
RunSubmitter(p) ==
  /\ At(p, "submitter")
  /\ \/ Goto(p, "authority")
     \/ Return(p, "blocked")
     \/ proc' = [proc EXCEPT ![p].pc = "outcome", ![p].res = "retry"]
     \/ Goto(p, "failed")
  /\ UNCHANGED << storeVars, order >>

\* What execute returned; a blocked submission expires an intent that was
\* never sent, and fails if another process moves it first.
RecoverReturned(p) ==
  /\ At(p, "returned")
  /\ proc[p].kind = "recover"
  /\ \/ /\ IF proc[p].res = "blocked"
               /\ intent[Act(p)].state \in PRE_SUBMISSION_STATES
             THEN transition(Act(p), "expired")
             ELSE UNCHANGED << intent, resv >>
        /\ Goto(p, "outcome")
     \/ /\ proc[p].res = "blocked"
        /\ Goto(p, "failed")
        /\ UNCHANGED << intent, resv >>
  /\ UNCHANGED << evid, wf, prop, order >>

CallbackFailed(p) ==
  /\ At(p, "failed")
  /\ proc' = [proc EXCEPT ![p].pc = "failedMove",
                          ![p].rows[Act(p)] = row_of(Act(p))]
  /\ UNCHANGED << storeVars, order >>

FailedOutcome(p, r) ==
  proc' = [proc EXCEPT ![p].pc = "outcome", ![p].res = r]

ClassifyFailure(p) ==
  /\ At(p, "failedMove")
  /\ \/ /\ Row(p).marked
        /\ FailedOutcome(p, "unknown")
        /\ UNCHANGED << storeVars, order >>
     \/ /\ ~ Row(p).marked /\ Row(p).state # "submitting"
        /\ FailedOutcome(p, "retry")
        /\ UNCHANGED << storeVars, order >>
     \/ /\ ~ Row(p).marked /\ Row(p).state = "submitting"
        /\ \/ /\ transition_from(Act(p), "submitting",
                                 "retryable_pre_submission")
              /\ FailedOutcome(p, "retry")
              /\ UNCHANGED << evid, wf, prop, order >>
           \/ intent[Act(p)].state # "submitting" /\ Abandon(p)

\* Mutant: an ambiguous submission closes its workflow.
outcome_state_closing(r) ==
  CASE r \in { "blocked", "unknown" } -> "terminal"
    [] r = "retry" -> "submission_pending"
    [] OTHER -> r

outcome_state(r) ==
  CASE r = "blocked" -> "terminal"
    [] r = "retry" -> "submission_pending"
    [] OTHER -> r

RecordOutcome(p) ==
  /\ At(p, "outcome")
  /\ owned_move(p, outcome_state(proc[p].res), "release")
  /\ UNCHANGED << intent, resv, evid, prop, order >>

(***************************************************************************)
(* Submitted or unknown: lookup only.                                      *)
(***************************************************************************)

lookup_only(p) ==
  /\ At(p, "examined")
  /\ Seen(p) \in { "submission_started", "submitted", "unknown" }
  /\ ~ proves_unsent(p)

LookupOnly(p) ==
  /\ lookup_only(p)
  /\ begin_pass(p, "recover")
  /\ UNCHANGED << storeVars, order >>

\* recover_lookup's reading of the intent after the pass.
lookup_outcome(a) ==
  IF intent[a].state \in { "submitted", "partially_filled", "cancel_pending" }
    THEN "submitted"
  ELSE IF intent[a].state \in TERMINAL_STATES THEN "terminal"
  ELSE "unknown"

conclude(p, o) ==
  IF o = Seen(p) THEN UNCHANGED wf /\ Goto(p, "release")
  ELSE owned_move(p, o, "release")

\* Without a broker client the outcome stays unknown.
LookupUnavailable(p) ==
  /\ lookup_only(p)
  /\ conclude(p, "unknown")
  /\ UNCHANGED << intent, resv, evid, prop, order >>

ConcludeLookup(p) ==
  /\ At(p, "looked")
  /\ conclude(p, lookup_outcome(Act(p)))
  /\ UNCHANGED << intent, resv, evid, prop, order >>

Release(p) ==
  /\ At(p, "release")
  /\ release_claim(p, Act(p))
  /\ Finish(p)
  /\ UNCHANGED << intent, resv, evid, prop, order >>

\* The 30 second lease of claim_next passes; nobody renews it.
ExpireLease(a) ==
  /\ wf[a].owner # NoProc
  /\ ~ wf[a].lapsed
  /\ wf' = [wf EXCEPT ![a].lapsed = TRUE]
  /\ UNCHANGED << intent, resv, evid, prop, order, proc >>

RecoveryStep(p) ==
  \/ ReadIntent(p)
  \/ LinkExisting(p)
  \/ ProveUnsent(p)
  \/ Repend(p)
  \/ ResumeValidation(p)
  \/ AdvanceValidation(p)
  \/ DeclineIntent(p)
  \/ EnsureIntent(p)
  \/ EnsureIntentRaises(p)
  \/ MarkLinked(p)
  \/ ResumeLinked(p)
  \/ Reconstruct(p)
  \/ SuppressSubmission(p)
  \/ ExpireSubmission(p)
  \/ CloseExpired(p)
  \/ DeferSubmission(p)
  \/ ResumeSubmission(p)
  \/ RunSubmitter(p)
  \/ RecoverReturned(p)
  \/ CallbackFailed(p)
  \/ ClassifyFailure(p)
  \/ RecordOutcome(p)
  \/ LookupOnly(p)
  \/ LookupUnavailable(p)
  \/ ConcludeLookup(p)
  \/ Release(p)
=============================================================================
